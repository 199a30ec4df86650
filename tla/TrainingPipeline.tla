-------------------------- MODULE TrainingPipeline --------------------------
(***************************************************************************)
(* The training service's job runner: a timer claims the oldest queued job *)
(* (job-runner.ts, jobs.ts), has the compute service work on it and polls  *)
(* it to its end (computeBridge.ts), while users cancel jobs and the       *)
(* process is stopped, crashes and is started again.                       *)
(*                                                                         *)
(* Every statement names its row by id alone: what was read of the row may *)
(* have changed.  A runner is one call of tick and the runJob it starts; a *)
(* step ends where the code awaits a statement, a request or a timer.      *)
(***************************************************************************)
EXTENDS Integers, Sequences, FiniteSets

CONSTANTS
  Jobs,        \* ids of training jobs, numbered as they are submitted
  Runners,     \* ticks of the timer that are under way
  None,        \* the SQL NULL
  MaxCancels,  \* cancels asked for (a bound)
  MaxFaults    \* failed statements and requests, overtaken ticks, stops and crashes
               \* (a bound)

ASSUME JobsAssumption == Jobs \subseteq Nat
ASSUME NoneAssumption == None \notin Jobs \cup Runners
ASSUME BoundAssumption == MaxCancels \in Nat /\ MaxFaults \in Nat

VARIABLES
  status,        \* training_jobs.status, "none" before the job is submitted
  computeJobId,  \* training_jobs.compute_job_id, 0 for NULL
  compute,       \* the compute jobs that were submitted, in order
  cancelling,    \* jobs a request has found cancellable and not cancelled yet
  hand,          \* the runners
  running,       \* the process's map of running jobs: whose entry it is, or None
  shuttingDown,
  cancels,
  faults,
  past           \* history: whether a tick began before another had entered its
                 \* job in the map; jobs cancelled behind a runner's back, jobs
                 \* cancelled when they no longer could be, jobs failed after they
                 \* had succeeded, jobs a runner has left unfinished, jobs it has
                 \* left with a compute job

vars == <<status, computeJobId, compute, cancelling, hand, running, shuttingDown, cancels,
          faults, past>>
rows == <<status, computeJobId>>
process == <<running, shuttingDown>>
used == <<cancels, faults>>

-----------------------------------------------------------------------------
Status   == {"none", "queued", "preparing", "running", "succeeded", "failed", "cancelled"}
Terminal == {"succeeded", "failed", "cancelled"}
ComputeJob == [job: Jobs, state: {"running", "completed", "failed", "cancelled"}]
Hand == [pc: {"idle", "select", "claim", "begin", "submit", "store", "check", "mark",
              "poll", "ask", "sleep", "release", "succeed", "publish", "report", "fail"},
         job: Jobs \cup {None}, compute: Nat, aborted: BOOLEAN]
Past == [overlapped: BOOLEAN, raced: SUBSET Jobs, late: SUBSET Jobs, undone: SUBSET Jobs,
         stranded: SUBSET Jobs, leaked: SUBSET Jobs]

TypeOK ==
  /\ status \in [Jobs -> Status]
  /\ compute \in Seq(ComputeJob)
  /\ computeJobId \in [Jobs -> 0..Len(compute)]
  /\ cancelling \subseteq Jobs
  /\ hand \in [Runners -> Hand]
  /\ \A w \in Runners : hand[w].compute <= Len(compute)
  /\ running \in [Jobs -> Runners \cup {None}]
  /\ shuttingDown \in BOOLEAN
  /\ cancels \in Nat
  /\ faults \in Nat
  /\ past \in Past

Empty == [j \in Jobs |-> None]
Idle == [pc |-> "idle", job |-> None, compute |-> 0, aborted |-> FALSE]

Init ==
  /\ status = [j \in Jobs |-> "none"]
  /\ computeJobId = [j \in Jobs |-> 0]
  /\ compute = <<>>
  /\ cancelling = {}
  /\ hand = [w \in Runners |-> Idle]
  /\ running = Empty
  /\ shuttingDown = FALSE
  /\ cancels = 0
  /\ faults = 0
  /\ past = [overlapped |-> FALSE, raced |-> {}, late |-> {}, undone |-> {},
             stranded |-> {}, leaked |-> {}]

At(w, pc) == hand[w].pc = pc
Goes(w, rec) == hand' = [hand EXCEPT ![w] = rec]
To(w, pc) == Goes(w, [hand[w] EXCEPT !.pc = pc])
Holding(j) == {w \in Runners : hand[w].job = j}
Writes(j, s) == status' = [status EXCEPT ![j] = s]

\* Mutant of Leaves: the entry stays in the map.
LeavesListed(w) == Goes(w, Idle) /\ UNCHANGED running

\* runJob is over.
Leaves(w) == Goes(w, Idle) /\ running' = [running EXCEPT ![hand[w].job] = None]

-----------------------------------------------------------------------------
(* Requests of the API.                                                    *)

submitJob(j) ==
  /\ status[j] = "none"
  /\ \A k \in Jobs : k < j => status[k] # "none"
  /\ Writes(j, "queued")
  /\ UNCHANGED <<computeJobId, compute, cancelling, hand, process, used, past>>

isCancellable(s) == s \in {"queued", "preparing"}

CancelRead(j) ==
  /\ j \notin cancelling
  /\ cancels < MaxCancels
  /\ cancels' = cancels + 1
  /\ isCancellable(status[j])
  /\ cancelling' = cancelling \cup {j}
  /\ UNCHANGED <<rows, compute, hand, process, faults, past>>

\* Where a runner has looked at the row and next writes to it without looking again.
Blind == {"claim", "mark", "ask", "succeed"}

CancelWrite(j) ==
  /\ j \in cancelling
  /\ cancelling' = cancelling \ {j}
  /\ Writes(j, "cancelled")
  /\ past' = [past EXCEPT
       !.raced = IF \E w \in Holding(j) : hand[w].pc \in Blind THEN @ \cup {j} ELSE @,
       !.late  = IF status[j] \in {"queued", "preparing"} THEN @ ELSE @ \cup {j}]
  /\ UNCHANGED <<computeJobId, compute, hand, process, used>>

-----------------------------------------------------------------------------
(* A tick claims a job.                                                    *)

Unlisted == {"select", "claim", "begin"}

\* Mutant of MayTick: the map is not looked at.
MayTickAlways == ~shuttingDown

MayTick == ~shuttingDown /\ running = Empty

\* The timer does not wait for the tick before: one whose claim takes longer than
\* the interval is overtaken.
Tick(w) ==
  /\ At(w, "idle")
  /\ MayTick
  /\ Goes(w, [Idle EXCEPT !.pc = "select"])
  /\ IF \A v \in Runners : hand[v].pc \notin Unlisted
     THEN UNCHANGED <<faults, past>>
     ELSE /\ faults < MaxFaults
          /\ faults' = faults + 1
          /\ past' = [past EXCEPT !.overlapped = TRUE]
  /\ UNCHANGED <<rows, compute, cancelling, process, cancels>>

\* Mutant of Claimable: jobs that were claimed before are taken up again.
ClaimablePreparing == {j \in Jobs : status[j] \in {"queued", "preparing"}}

\* Mutant of Claimable: failed jobs are tried again.
ClaimableFailed == {j \in Jobs : status[j] \in {"queued", "failed"}}

Claimable == {j \in Jobs : status[j] = "queued"}

Select(w) ==
  /\ At(w, "select")
  /\ IF Claimable = {} THEN Goes(w, Idle)
     ELSE \E j \in Claimable :
            /\ \A k \in Claimable : j <= k
            /\ Goes(w, [hand[w] EXCEPT !.pc = "claim", !.job = j])
  /\ UNCHANGED <<rows, compute, cancelling, process, used, past>>

Claim(w) ==
  /\ At(w, "claim")
  /\ Writes(hand[w].job, "preparing")
  /\ To(w, "begin")
  /\ UNCHANGED <<computeJobId, compute, cancelling, process, used, past>>

\* The row is read again; runJob starts, its entry is made over another's, and it
\* reads the row once more.
Begin(w) ==
  /\ At(w, "begin")
  /\ running' = [running EXCEPT ![hand[w].job] = w]
  /\ To(w, IF computeJobId[hand[w].job] = 0 THEN "submit" ELSE "check")
  /\ UNCHANGED <<rows, compute, cancelling, shuttingDown, used, past>>

-----------------------------------------------------------------------------
(* runJob: the compute job.                                                *)

\* Mutant of Submits: the answer is taken for done before the request is made.
SubmitsNot(w) == UNCHANGED compute

Submits(w) == compute' = Append(compute, [job |-> hand[w].job, state |-> "running"])

Submit(w) ==
  /\ At(w, "submit")
  /\ Submits(w)
  /\ Goes(w, [hand[w] EXCEPT !.pc = "store", !.compute = Len(compute) + 1])
  /\ UNCHANGED <<rows, cancelling, process, used, past>>

setComputeJobId(w) ==
  /\ At(w, "store")
  /\ computeJobId' = [computeJobId EXCEPT ![hand[w].job] = hand[w].compute]
  /\ To(w, "check")
  /\ UNCHANGED <<status, compute, cancelling, process, used, past>>

\* runTrainingJob: a cancelled job ends here, and its compute job goes on.  The
\* compute job is the one of the row, there by now.
Check(w) ==
  /\ At(w, "check")
  /\ LET j == hand[w].job IN
     \/ /\ status[j] = "cancelled"
        /\ Leaves(w)
        /\ past' = [past EXCEPT !.leaked = @ \cup {j}]
     \/ /\ status[j] = "preparing"
        /\ Goes(w, [hand[w] EXCEPT !.pc = "mark", !.compute = computeJobId[j]])
        /\ UNCHANGED <<running, past>>
     \/ /\ status[j] \notin {"cancelled", "preparing"}
        /\ To(w, "fail")
        /\ past' = [past EXCEPT !.leaked = @ \cup {j}]
        /\ UNCHANGED running
  /\ UNCHANGED <<rows, compute, cancelling, shuttingDown, used>>

markRunning(w) ==
  /\ At(w, "mark")
  /\ Writes(hand[w].job, "running")
  /\ To(w, "poll")
  /\ UNCHANGED <<computeJobId, compute, cancelling, process, used, past>>

-----------------------------------------------------------------------------
(* The polling loop.                                                       *)

\* Mutant of Wanted: users are not looked for.
WantedUnlessAborted(w) == ~hand[w].aborted

Wanted(w) == ~hand[w].aborted /\ status[hand[w].job] # "cancelled"

\* A job given up for the shutdown at the first look stays "running"; in a later
\* round the sleep throws.
Poll(w) ==
  /\ hand[w].pc \in {"poll", "sleep"}
  /\ LET j == hand[w].job IN
     IF At(w, "sleep") /\ hand[w].aborted
     THEN /\ To(w, "fail")
          /\ past' = [past EXCEPT !.leaked = @ \cup {j}]
     ELSE /\ To(w, IF Wanted(w) THEN "ask" ELSE "release")
          /\ past' = [past EXCEPT !.stranded = IF hand[w].aborted THEN @ \cup {j} ELSE @]
  /\ UNCHANGED <<rows, compute, cancelling, process, used>>

\* Mutant of Outcome: only a failed compute job has failed.
OutcomeFailed(state) ==
  CASE state = "running" -> "sleep" [] state = "failed" -> "report" [] OTHER -> "succeed"

Outcome(state) ==
  CASE state = "running" -> "sleep" [] state = "completed" -> "succeed" [] OTHER -> "report"

pollComputeJob(w) ==
  /\ At(w, "ask")
  /\ To(w, Outcome(compute[hand[w].compute].state))
  /\ UNCHANGED <<rows, compute, cancelling, process, used, past>>

\* Mutant of Cancelled: the compute service is not told.
CancelledNot(i) == compute

Cancelled(i) ==
  IF compute[i].state = "running" THEN [compute EXCEPT ![i].state = "cancelled"] ELSE compute

releaseCompute(w) ==
  /\ At(w, "release")
  /\ compute' = Cancelled(hand[w].compute)
  /\ Leaves(w)
  /\ UNCHANGED <<rows, cancelling, shuttingDown, used, past>>

markSucceeded(w) ==
  /\ At(w, "succeed")
  /\ Writes(hand[w].job, "succeeded")
  /\ To(w, "publish")
  /\ UNCHANGED <<computeJobId, compute, cancelling, process, used, past>>

\* What follows success goes well: the audit entry, the row read again and, if the
\* job asks for it, a version of the ANN, or none because there is no such ANN.
Publish(w) ==
  /\ At(w, "publish")
  /\ Leaves(w)
  /\ UNCHANGED <<rows, compute, cancelling, shuttingDown, used, past>>

\* "report": the compute job failed; "fail": runJob has caught an error.
markFailed(w) ==
  /\ hand[w].pc \in {"report", "fail"}
  /\ Writes(hand[w].job, "failed")
  /\ Leaves(w)
  /\ UNCHANGED <<computeJobId, compute, cancelling, shuttingDown, used, past>>

-----------------------------------------------------------------------------
(* Faults and the environment.                                             *)

\* What the runner awaits throws: a tick gives up, markFailed in the handler and
\* the release are swallowed, and anything else ends in the handler.
Throws(w) ==
  /\ ~At(w, "idle")
  /\ faults < MaxFaults
  /\ faults' = faults + 1
  /\ LET j == hand[w].job IN
     \/ /\ hand[w].pc \in {"select", "claim"}
        /\ Goes(w, Idle)
        /\ UNCHANGED <<running, past>>
     \/ /\ At(w, "begin")
        /\ Goes(w, Idle)
        /\ past' = [past EXCEPT !.stranded = @ \cup {j}]
        /\ UNCHANGED running
     \/ /\ At(w, "begin")
        /\ running' = [running EXCEPT ![j] = w]
        /\ To(w, "fail")
        /\ UNCHANGED past
     \/ /\ At(w, "fail")
        /\ Leaves(w)
        /\ past' = [past EXCEPT !.stranded = @ \cup {j}]
     \/ /\ At(w, "release")
        /\ Leaves(w)
        /\ past' = [past EXCEPT !.leaked = @ \cup {j}]
     \/ /\ hand[w].pc \notin Unlisted \cup {"fail", "release"}
        /\ To(w, "fail")
        /\ past' = [past EXCEPT !.leaked = @ \cup {j},
                                !.undone = IF At(w, "publish") THEN @ \cup {j} ELSE @]
        /\ UNCHANGED running
  /\ UNCHANGED <<rows, compute, cancelling, cancels, shuttingDown>>

\* SIGTERM: the runners whose jobs are in the map are told, and the map is cleared.
stopWorker ==
  /\ ~shuttingDown
  /\ faults < MaxFaults
  /\ faults' = faults + 1
  /\ shuttingDown' = TRUE
  /\ hand' = [w \in Runners |->
               [hand[w] EXCEPT !.aborted = @ \/ \E j \in Jobs : running[j] = w]]
  /\ running' = Empty
  /\ UNCHANGED <<rows, compute, cancelling, cancels, past>>

InHand == {j \in Jobs : Holding(j) # {}}

\* The process exits or crashes, and is started again: nothing looks for the jobs
\* and requests it had in hand.
Restart ==
  /\ shuttingDown \/ faults < MaxFaults
  /\ faults' = IF shuttingDown THEN faults ELSE faults + 1
  /\ hand' = [w \in Runners |-> Idle]
  /\ running' = Empty
  /\ shuttingDown' = FALSE
  /\ cancelling' = {}
  /\ past' = [past EXCEPT !.stranded = @ \cup InHand, !.leaked = @ \cup InHand]
  /\ UNCHANGED <<rows, compute, cancels>>

\* The compute service ends a job it has.
ComputeEnds(i) ==
  /\ i \in DOMAIN compute
  /\ compute[i].state = "running"
  /\ \E s \in {"completed", "failed"} : compute' = [compute EXCEPT ![i].state = s]
  /\ UNCHANGED <<rows, cancelling, hand, process, used, past>>

Steps(w) ==
  \/ Select(w) \/ Claim(w) \/ Begin(w) \/ Submit(w) \/ setComputeJobId(w)
  \/ Check(w) \/ markRunning(w) \/ Poll(w) \/ pollComputeJob(w)
  \/ releaseCompute(w) \/ markSucceeded(w) \/ Publish(w) \/ markFailed(w)

Next ==
  \/ \E j \in Jobs : submitJob(j) \/ CancelRead(j) \/ CancelWrite(j)
  \/ \E w \in Runners : Tick(w) \/ Steps(w) \/ Throws(w)
  \/ \E i \in DOMAIN compute : ComputeEnds(i)
  \/ stopWorker \/ Restart

\* The timer fires, what a runner awaits is answered, compute jobs end.
Fairness ==
  /\ WF_vars(\E w \in Runners : Tick(w))
  /\ \A w \in Runners : WF_vars(Steps(w))
  /\ WF_vars(\E i \in DOMAIN compute : ComputeEnds(i))

Spec == Init /\ [][Next]_vars /\ Fairness

-----------------------------------------------------------------------------
(* Properties.                                                             *)

\* "v1 single-worker semantics": no two jobs are worked on at a time, except when
\* a tick began while the one before still waited for its claim.
OneAtATime ==
  past.overlapped \/ \A v, w \in Runners : ~At(v, "idle") /\ ~At(w, "idle") => v = w

\* Select-then-update "is sufficient to prevent double-claim": with ticks that do
\* not overlap, compute is paid for once per job, crashes and restarts included.
OneComputeJob ==
  past.overlapped \/ \A i, k \in DOMAIN compute : compute[i].job = compute[k].job => i = k

\* A job succeeds only when a compute job submitted for that job has completed,
\* whoever cancels, overlaps or writes a stale row over it.
SuccessIsComputed ==
  \A j \in Jobs : status[j] = "succeeded" =>
    \E i \in DOMAIN compute : compute[i].job = j /\ compute[i].state = "completed"

\* A cancelled job is not run to success afterwards, unless the cancel was
\* written between a runner's look at the row and its write.
CancelHolds ==
  [][\A j \in Jobs : status[j] = "cancelled" /\ j \notin past.raced =>
        status'[j] \in {"cancelled", "failed"}]_vars

\* The outcome of a job stays: it is overwritten only by a cancel that came late,
\* by an error after success, or by a second runner of the job.
OutcomeStays ==
  [][\A j \in Jobs : status[j] \in {"succeeded", "failed"} /\ ~past'.overlapped =>
        status'[j] = status[j] \/ j \in past'.late \cup past'.undone]_vars

\* No compute job goes on for a training job nobody works on, except where the
\* runner was cut off or ended without releasing it.
ComputeReleased ==
  past.overlapped \/
  \A i \in DOMAIN compute : compute[i].state = "running" =>
    Holding(compute[i].job) # {} \/ compute[i].job \in past.leaked

\* Every submitted job ends: again and again there is none left to do, but for
\* those that were in the process's hands when it stopped or gave them up.
JobsEnd ==
  []<>(\A j \in Jobs : \/ status[j] \in Terminal \cup {"none"}
                      \/ j \in past.stranded
                      \/ shuttingDown)

=============================================================================
