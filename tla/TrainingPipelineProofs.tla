----------------------- MODULE TrainingPipelineProofs -----------------------
(***************************************************************************)
(* Proofs about TrainingPipeline, for any jobs, ticks, cancels and faults. *)
(***************************************************************************)
EXTENDS TrainingPipeline, TLAPS

-----------------------------------------------------------------------------
(* What a step does to the record of a runner.                             *)

Pcs == {"idle", "select", "claim", "begin", "submit", "store", "check", "mark", "poll",
        "ask", "sleep", "release", "succeed", "publish", "report", "fail"}

Others(w) == \A v \in Runners : v # w => hand'[v] = hand[v]

Moves(w, p) ==
  /\ hand' \in [Runners -> Hand]
  /\ hand'[w].pc = p
  /\ hand'[w].job = hand[w].job
  /\ hand'[w].compute = hand[w].compute
  /\ Others(w)

Takes(w, p, j, c) ==
  /\ hand' \in [Runners -> Hand]
  /\ hand'[w].pc = p
  /\ hand'[w].job = j
  /\ hand'[w].compute = c
  /\ Others(w)

LEMMA ToMoves ==
  ASSUME TypeOK, NEW w \in Runners, NEW p \in Pcs, To(w, p)
  PROVE  Moves(w, p)
<1> DEFINE x == [hand[w] EXCEPT !.pc = p]
<1>1. x \in Hand /\ x.pc = p /\ x.job = hand[w].job /\ x.compute = hand[w].compute
  BY DEF TypeOK, Hand, Pcs
<1>2. hand' = [hand EXCEPT ![w] = x]
  BY DEF To, Goes
<1> HIDE DEF x
<1> QED
  BY <1>1, <1>2 DEF TypeOK, Moves, Others

LEMMA IdleTakes ==
  ASSUME TypeOK, NEW w \in Runners, Goes(w, Idle)
  PROVE  Takes(w, "idle", None, 0)
<1>1. Idle \in Hand /\ Idle.pc = "idle" /\ Idle.job = None /\ Idle.compute = 0
  BY DEF Idle, Hand
<1> QED
  BY <1>1 DEF TypeOK, Goes, Takes, Others

LEMMA TickTakes ==
  ASSUME TypeOK, NEW w \in Runners, Tick(w)
  PROVE  Takes(w, "select", None, 0)
<1> DEFINE x == [Idle EXCEPT !.pc = "select"]
<1>1. x \in Hand /\ x.pc = "select" /\ x.job = None /\ x.compute = 0
  BY DEF Idle, Hand
<1>2. hand' = [hand EXCEPT ![w] = x]
  BY DEF Tick, Goes
<1> HIDE DEF x
<1> QED
  BY <1>1, <1>2 DEF TypeOK, Takes, Others

LEMMA SelectTakes ==
  ASSUME TypeOK, NEW w \in Runners, Select(w)
  PROVE  \/ Takes(w, "idle", None, 0)
         \/ \E j \in Claimable : Takes(w, "claim", j, hand[w].compute)
<1>1. CASE Claimable = {}
  BY <1>1, IdleTakes DEF Select
<1>2. CASE Claimable # {}
  <2>1. PICK j \in Claimable : Goes(w, [hand[w] EXCEPT !.pc = "claim", !.job = j])
    BY <1>2 DEF Select
  <2> DEFINE x == [hand[w] EXCEPT !.pc = "claim", !.job = j]
  <2>2. x \in Hand /\ x.pc = "claim" /\ x.job = j /\ x.compute = hand[w].compute
    BY DEF TypeOK, Hand, Claimable
  <2>3. hand' = [hand EXCEPT ![w] = x]
    BY <2>1 DEF Goes
  <2> HIDE DEF x
  <2>4. Takes(w, "claim", j, hand[w].compute)
    BY <2>2, <2>3 DEF TypeOK, Takes, Others
  <2> QED
    BY <2>4
<1> QED
  BY <1>1, <1>2

LEMMA SubmitTakes ==
  ASSUME TypeOK, NEW w \in Runners, Submit(w)
  PROVE  Takes(w, "store", hand[w].job, Len(compute) + 1)
<1> DEFINE x == [hand[w] EXCEPT !.pc = "store", !.compute = Len(compute) + 1]
<1>0. hand[w] \in Hand /\ Len(compute) + 1 \in Nat
  BY DEF TypeOK
<1>1. x \in Hand /\ x.pc = "store" /\ x.job = hand[w].job /\ x.compute = Len(compute) + 1
  BY <1>0 DEF Hand
<1>2. hand' = [hand EXCEPT ![w] = x]
  BY DEF Submit, Goes
<1> HIDE DEF x
<1> QED
  BY <1>1, <1>2 DEF TypeOK, Takes, Others

\* Check goes one of three ways.
LEMMA CheckTakes ==
  ASSUME TypeOK, NEW w \in Runners, hand[w].job \in Jobs, Check(w)
  PROVE  \/ /\ status[hand[w].job] = "cancelled"
            /\ Takes(w, "idle", None, 0)
            /\ running' = [running EXCEPT ![hand[w].job] = None]
            /\ past' = [past EXCEPT !.leaked = @ \cup {hand[w].job}]
         \/ /\ status[hand[w].job] = "preparing"
            /\ Takes(w, "mark", hand[w].job, computeJobId[hand[w].job])
            /\ UNCHANGED <<running, past>>
         \/ /\ status[hand[w].job] \notin {"cancelled", "preparing"}
            /\ Moves(w, "fail")
            /\ past' = [past EXCEPT !.leaked = @ \cup {hand[w].job}]
            /\ UNCHANGED running
<1> DEFINE j == hand[w].job
<1>1. CASE status[j] = "cancelled"
  BY <1>1, IdleTakes DEF Check, Leaves
<1>2. CASE status[j] = "preparing"
  <2> DEFINE x == [hand[w] EXCEPT !.pc = "mark", !.compute = computeJobId[j]]
  <2>0. hand[w] \in Hand /\ computeJobId[j] \in Nat
    BY DEF TypeOK
  <2>1. x \in Hand /\ x.pc = "mark" /\ x.job = j /\ x.compute = computeJobId[j]
    BY <2>0 DEF Hand
  <2>2. hand' = [hand EXCEPT ![w] = x] /\ UNCHANGED <<running, past>>
    BY <1>2 DEF Check, Goes
  <2> HIDE DEF x
  <2>3. Takes(w, "mark", j, computeJobId[j])
    BY <2>1, <2>2 DEF TypeOK, Takes, Others
  <2> QED
    BY <1>2, <2>2, <2>3
<1>3. CASE status[j] \notin {"cancelled", "preparing"}
  <2>1. /\ To(w, "fail") /\ UNCHANGED running
        /\ past' = [past EXCEPT !.leaked = @ \cup {j}]
    BY <1>3 DEF Check
  <2> QED
    BY <1>3, <2>1, ToMoves DEF Pcs
<1> QED
  BY <1>1, <1>2, <1>3

-----------------------------------------------------------------------------
(* What the rows and the runners know of the compute jobs.                 *)

Done(j) == \E i \in DOMAIN compute : compute[i].job = j /\ compute[i].state = "completed"

\* Where a runner has the id of its compute job.
Knows == {"store", "mark", "poll", "sleep", "ask", "release"}

HandOK(w) ==
  /\ hand[w].pc \in {"idle", "select"} <=> hand[w].job = None
  /\ hand[w].job # None => hand[w].job \in Jobs
  /\ hand[w].pc \in Knows => /\ hand[w].compute \in DOMAIN compute
                             /\ compute[hand[w].compute].job = hand[w].job
  /\ hand[w].pc = "check" => computeJobId[hand[w].job] # 0
  /\ hand[w].pc = "succeed" => Done(hand[w].job)

RowOK(j) ==
  /\ computeJobId[j] # 0 => compute[computeJobId[j]].job = j
  /\ status[j] = "succeeded" => Done(j)

Base ==
  /\ TypeOK
  /\ \A j \in Jobs : RowOK(j)
  /\ \A w \in Runners : HandOK(w)

LEMMA InitBase == Init => Base
<1> SUFFICES ASSUME Init
             PROVE  Base
  OBVIOUS
<1>0. Idle \in Hand /\ Idle.pc = "idle" /\ Idle.job = None /\ Idle.compute = 0
  BY DEF Idle, Hand
<1>1. /\ compute = <<>> /\ compute \in Seq(ComputeJob) /\ Len(compute) = 0
      /\ \A w \in Runners : hand[w] = Idle
      /\ \A j \in Jobs : status[j] = "none" /\ computeJobId[j] = 0
  BY DEF Init
<1>2. past \in Past /\ running \in [Jobs -> Runners \cup {None}]
  BY DEF Init, Past, Empty
<1>3. /\ hand \in [Runners -> Hand] /\ status \in [Jobs -> Status]
      /\ computeJobId \in [Jobs -> 0..Len(compute)]
  BY <1>0, <1>1 DEF Init, Status
<1>6. /\ cancelling \subseteq Jobs /\ shuttingDown \in BOOLEAN
      /\ cancels \in Nat /\ faults \in Nat
  BY DEF Init
<1>7. \A w \in Runners : hand[w].compute <= Len(compute)
  BY <1>0, <1>1
<1>5. TypeOK
  BY <1>1, <1>2, <1>3, <1>6, <1>7 DEF TypeOK
<1>4. (\A j \in Jobs : RowOK(j)) /\ \A w \in Runners : HandOK(w)
  BY <1>0, <1>1 DEF RowOK, HandOK, Knows
<1> QED
  BY <1>4, <1>5 DEF Base

\* Compute jobs are only added, and one that has completed stays completed.
Grows ==
  /\ compute' \in Seq(ComputeJob)
  /\ Len(compute) <= Len(compute')
  /\ \A i \in DOMAIN compute :
       /\ compute'[i].job = compute[i].job
       /\ compute[i].state = "completed" => compute'[i].state = "completed"

LEMMA SameGrows ==
  ASSUME TypeOK, UNCHANGED compute
  PROVE  Grows
BY DEF TypeOK, Grows

LEMMA SubmitGrows ==
  ASSUME TypeOK, NEW w \in Runners, hand[w].job \in Jobs, Submits(w)
  PROVE  /\ Grows
         /\ Len(compute') = Len(compute) + 1
         /\ compute'[Len(compute) + 1].job = hand[w].job
         /\ compute'[Len(compute) + 1].state = "running"
<1> DEFINE c == [job |-> hand[w].job, state |-> "running"]
<1>1. c \in ComputeJob /\ c.job = hand[w].job /\ c.state = "running"
  BY DEF ComputeJob
<1>2. compute' = Append(compute, c) /\ compute \in Seq(ComputeJob)
  BY DEF Submits, TypeOK
<1> HIDE DEF c
<1> QED
  BY <1>1, <1>2 DEF Grows

LEMMA SetState ==
  ASSUME TypeOK, NEW i \in DOMAIN compute, compute[i].state = "running",
         NEW s \in {"completed", "failed", "cancelled"},
         compute' = [compute EXCEPT ![i].state = s]
  PROVE  /\ Grows
         /\ Len(compute') = Len(compute)
         /\ compute'[i].state = s
         /\ \A k \in DOMAIN compute : k # i => compute'[k] = compute[k]
<1> DEFINE c == [compute[i] EXCEPT !.state = s]
<1>0. compute \in Seq(ComputeJob) /\ compute[i] \in ComputeJob
  BY DEF TypeOK
<1>1. c \in ComputeJob /\ c.job = compute[i].job /\ c.state = s
  BY <1>0 DEF ComputeJob
<1>2. compute' = [compute EXCEPT ![i] = c]
  OBVIOUS
<1> HIDE DEF c
<1> QED
  BY <1>0, <1>1, <1>2 DEF Grows

LEMMA ReleaseGrows ==
  ASSUME Base, NEW w \in Runners, releaseCompute(w)
  PROVE  /\ Grows
         /\ Len(compute') = Len(compute)
         /\ compute'[hand[w].compute].state # "running"
         /\ \A k \in DOMAIN compute : k # hand[w].compute => compute'[k] = compute[k]
<1> DEFINE i == hand[w].compute
<1>1. i \in DOMAIN compute /\ compute' = Cancelled(i) /\ TypeOK
  BY DEF Base, HandOK, Knows, releaseCompute, At
<1>2. CASE compute[i].state = "running"
  <2>1. compute' = [compute EXCEPT ![i].state = "cancelled"]
    BY <1>1, <1>2 DEF Cancelled
  <2> HIDE DEF i
  <2>2. /\ Grows /\ Len(compute') = Len(compute) /\ compute'[i].state = "cancelled"
        /\ \A k \in DOMAIN compute : k # i => compute'[k] = compute[k]
    BY <1>1, <1>2, <2>1, SetState
  <2> QED
    BY <2>2 DEF i
<1>3. CASE compute[i].state # "running"
  BY <1>1, <1>3, SameGrows DEF Cancelled
<1> QED
  BY <1>2, <1>3

LEMMA RowsKept ==
  ASSUME Base, Grows, NEW j \in Jobs, UNCHANGED computeJobId,
         status'[j] = "succeeded" => status[j] = "succeeded" \/ Done(j)
  PROVE  RowOK(j)'
<1>1. Done(j) => Done(j)'
  BY DEF Grows, Done, Base, TypeOK
<1>2. computeJobId[j] # 0 => computeJobId[j] \in DOMAIN compute
  BY DEF Base, TypeOK
<1> QED
  BY <1>1, <1>2 DEF RowOK, Grows, Base

\* A runner whose record a step leaves as it is.
LEMMA HandKept ==
  ASSUME Base, Grows, NEW v \in Runners, hand'[v] = hand[v],
         \A j \in Jobs : computeJobId[j] # 0 => computeJobId'[j] # 0
  PROVE  HandOK(v)'
<1>0. HandOK(v) /\ compute \in Seq(ComputeJob) /\ compute' \in Seq(ComputeJob)
  BY DEF Base, TypeOK, Grows
<1>1. Done(hand[v].job) => Done(hand[v].job)'
  BY <1>0 DEF Grows, Done
<1>2. DOMAIN compute \subseteq DOMAIN compute'
  BY <1>0 DEF Grows
<1> QED
  BY <1>0, <1>1, <1>2 DEF HandOK, Grows

LEMMA FrameBase ==
  ASSUME Base, Grows, NEW w \in Runners,
         hand' \in [Runners -> Hand], Others(w), HandOK(w)',
         hand'[w].compute <= Len(compute'),
         status' \in [Jobs -> Status],
         computeJobId' \in [Jobs -> 0..Len(compute)],
         \A j \in Jobs : computeJobId[j] # 0 => computeJobId'[j] # 0,
         \A j \in Jobs : RowOK(j)',
         running' \in [Jobs -> Runners \cup {None}],
         UNCHANGED <<cancelling, shuttingDown, cancels>>,
         faults' \in Nat, past' \in Past
  PROVE  Base'
<1>1. TypeOK /\ Len(compute) <= Len(compute') /\ compute' \in Seq(ComputeJob)
  BY DEF Base, Grows
<1>0. Len(compute) \in Nat /\ Len(compute') \in Nat
  BY <1>1 DEF TypeOK
<1>2. \A v \in Runners : hand'[v].compute <= Len(compute')
  <2> SUFFICES ASSUME NEW v \in Runners, v # w
               PROVE  hand'[v].compute <= Len(compute')
    OBVIOUS
  <2>1. hand'[v] = hand[v] /\ hand[v].compute <= Len(compute) /\ hand[v].compute \in Nat
    BY <1>1 DEF Others, TypeOK, Hand
  <2> QED
    BY <2>1, <1>0, <1>1
<1>3. computeJobId' \in [Jobs -> 0..Len(compute')]
  BY <1>0, <1>1
<1>4. TypeOK'
  BY <1>1, <1>2, <1>3 DEF TypeOK
<1>5. \A v \in Runners : HandOK(v)'
  BY HandKept DEF Others
<1> QED
  BY <1>4, <1>5 DEF Base

\* A step of a runner that leaves the rows and the compute jobs alone.
LEMMA PlainBase ==
  ASSUME Base, NEW w \in Runners,
         hand' \in [Runners -> Hand], Others(w), HandOK(w)',
         hand'[w].compute <= Len(compute),
         UNCHANGED <<rows, compute, cancelling, shuttingDown, cancels>>,
         running' \in [Jobs -> Runners \cup {None}],
         faults' \in Nat, past' \in Past
  PROVE  Base'
<1>1. TypeOK /\ Grows
  BY SameGrows DEF Base
<1>2. \A j \in Jobs : RowOK(j)'
  BY <1>1, RowsKept DEF rows
<1> QED
  BY <1>1, <1>2, FrameBase DEF TypeOK, rows

\* A step that writes the status of the runner's job.
LEMMA WriteBase ==
  ASSUME Base, NEW w \in Runners,
         hand' \in [Runners -> Hand], Others(w), HandOK(w)',
         hand'[w].compute <= Len(compute),
         NEW s \in Status, Writes(hand[w].job, s),
         s = "succeeded" => Done(hand[w].job),
         UNCHANGED <<computeJobId, compute, cancelling, shuttingDown, cancels>>,
         running' \in [Jobs -> Runners \cup {None}],
         faults' \in Nat, past' \in Past
  PROVE  Base'
<1>1. TypeOK /\ Grows
  BY SameGrows DEF Base
<1>3. status' \in [Jobs -> Status]
  BY <1>1 DEF Writes, TypeOK
<1>2. ASSUME NEW j \in Jobs
      PROVE  RowOK(j)'
  <2>1. status'[j] = status[j] \/ (j = hand[w].job /\ status'[j] = s)
    BY <1>1 DEF Writes, TypeOK
  <2> QED
    BY <1>1, <2>1, RowsKept
<1> QED
  BY <1>1, <1>2, <1>3, FrameBase DEF TypeOK

LEMMA AddsPast ==
  ASSUME past \in Past, NEW j \in Jobs
  PROVE  /\ [past EXCEPT !.leaked = @ \cup {j}] \in Past
         /\ [past EXCEPT !.stranded = @ \cup {j}] \in Past
         /\ [past EXCEPT !.overlapped = TRUE] \in Past
BY DEF Past

LEMMA StepBase ==
  ASSUME Base, NEW w \in Runners, Steps(w)
  PROVE  Base'
<1>0. /\ TypeOK /\ HandOK(w) /\ past \in Past /\ faults \in Nat
      /\ hand[w].compute <= Len(compute) /\ hand[w] \in Hand
      /\ running \in [Jobs -> Runners \cup {None}]
      /\ Len(compute) \in Nat /\ compute \in Seq(ComputeJob)
      /\ \A j \in Jobs : computeJobId[j] \in 0..Len(compute)
  BY DEF Base, TypeOK
<1> USE DEF rows, process, used
<1>1. CASE Select(w)
  <2>1. UNCHANGED <<rows, compute, cancelling, process, used, past>>
    BY <1>1 DEF Select
  <2>2. CASE Takes(w, "idle", None, 0)
    <3>1. HandOK(w)'
      BY <2>2 DEF Takes, HandOK, Knows
    <3> QED
      BY <1>0, <2>1, <2>2, <3>1, PlainBase DEF Takes
  <2>3. CASE \E j \in Claimable : Takes(w, "claim", j, hand[w].compute)
    <3>1. PICK j \in Claimable : Takes(w, "claim", j, hand[w].compute)
      BY <2>3
    <3>2. j \in Jobs /\ j # None
      BY NoneAssumption DEF Claimable
    <3>3. HandOK(w)'
      BY <3>1, <3>2 DEF Takes, HandOK, Knows
    <3> QED
      BY <1>0, <2>1, <3>1, <3>3, PlainBase DEF Takes
  <2> QED
    BY <1>0, <1>1, <2>2, <2>3, SelectTakes
<1>2. CASE Claim(w)
  <2>1. Moves(w, "begin")
    BY <1>0, <1>2, ToMoves DEF Claim, Pcs
  <2>2. HandOK(w)'
    BY <1>0, <1>2, <2>1 DEF Claim, At, Moves, HandOK, Knows
  <2> QED
    BY <1>0, <1>2, <2>1, <2>2, WriteBase DEF Claim, Moves, Status
<1>3. CASE Begin(w)
  <2>1. hand[w].job \in Jobs
    BY <1>0, <1>3 DEF HandOK, Begin, At
  <2>2. Moves(w, IF computeJobId[hand[w].job] = 0 THEN "submit" ELSE "check")
    BY <1>0, <1>3, ToMoves DEF Begin, Pcs
  <2>3. HandOK(w)'
    BY <1>0, <1>3, <2>1, <2>2 DEF Begin, At, Moves, HandOK, Knows
  <2>4. running' \in [Jobs -> Runners \cup {None}]
    BY <1>0, <1>3 DEF Begin
  <2> QED
    BY <1>0, <1>3, <2>2, <2>3, <2>4, PlainBase DEF Begin, Moves
<1>4. CASE Submit(w)
  <2>1. hand[w].job \in Jobs
    BY <1>0, <1>4 DEF HandOK, Submit, At
  <2>2. /\ Grows /\ Len(compute') = Len(compute) + 1
        /\ compute'[Len(compute) + 1].job = hand[w].job
        /\ compute' \in Seq(ComputeJob)
    BY <1>0, <1>4, <2>1, SubmitGrows DEF Submit, Grows
  <2>3. Takes(w, "store", hand[w].job, Len(compute) + 1)
    BY <1>0, <1>4, SubmitTakes
  <2>4. HandOK(w)'
    BY <1>0, <1>4, <2>1, <2>2, <2>3 DEF Submit, At, Takes, HandOK, Knows
  <2>5. UNCHANGED <<rows, cancelling, process, used, past>>
    BY <1>4 DEF Submit
  <2>6. \A j \in Jobs : RowOK(j)'
    BY <2>2, <2>5, RowsKept
  <2>7. hand'[w].compute <= Len(compute')
    BY <1>0, <2>2, <2>3 DEF Takes
  <2> QED
    BY <1>0, <2>2, <2>3, <2>4, <2>5, <2>6, <2>7, FrameBase DEF Takes, TypeOK
<1>5. CASE setComputeJobId(w)
  <2>1. Moves(w, "check")
    BY <1>0, <1>5, ToMoves DEF setComputeJobId, Pcs
  <2>2. /\ hand[w].job \in Jobs /\ hand[w].compute \in 1..Len(compute)
        /\ compute[hand[w].compute].job = hand[w].job
    BY <1>0, <1>5 DEF HandOK, setComputeJobId, At, Knows
  <2>3. /\ computeJobId' = [computeJobId EXCEPT ![hand[w].job] = hand[w].compute]
        /\ UNCHANGED <<status, compute, cancelling, process, used, past>>
    BY <1>5 DEF setComputeJobId
  <2>4. /\ computeJobId' \in [Jobs -> 0..Len(compute)]
        /\ computeJobId'[hand[w].job] = hand[w].compute
        /\ \A j \in Jobs : j # hand[w].job => computeJobId'[j] = computeJobId[j]
    BY <1>0, <2>2, <2>3 DEF TypeOK
  <2>5. ASSUME NEW j \in Jobs
        PROVE  RowOK(j)'
    <3>1. RowOK(j)
      BY DEF Base
    <3>2. Done(j) => Done(j)'
      BY <2>3 DEF Done
    <3> QED
      BY <2>2, <2>3, <2>4, <3>1, <3>2 DEF RowOK
  <2>6. HandOK(w)'
    BY <1>0, <1>5, <2>1, <2>2, <2>4 DEF setComputeJobId, At, Moves, HandOK, Knows
  <2>7. Grows /\ \A j \in Jobs : computeJobId[j] # 0 => computeJobId'[j] # 0
    BY <1>0, <2>2, <2>3, <2>4, SameGrows
  <2>8. hand'[w].compute <= Len(compute')
    BY <1>0, <2>1, <2>3 DEF Moves
  <2> QED
    BY <1>0, <2>1, <2>3, <2>4, <2>5, <2>6, <2>7, <2>8, FrameBase DEF Moves, TypeOK
<1>6. CASE Check(w)
  <2>1. hand[w].job \in Jobs /\ computeJobId[hand[w].job] \in 1..Len(compute)
    BY <1>0, <1>6 DEF HandOK, Check, At
  <2>2. compute[computeJobId[hand[w].job]].job = hand[w].job
    BY <2>1 DEF Base, RowOK
  <2>3. UNCHANGED <<rows, compute, cancelling, shuttingDown, used>>
    BY <1>6 DEF Check
  <2>4. CASE /\ Takes(w, "idle", None, 0)
             /\ running' = [running EXCEPT ![hand[w].job] = None]
             /\ past' = [past EXCEPT !.leaked = @ \cup {hand[w].job}]
    <3>1. HandOK(w)' /\ past' \in Past
      BY <1>0, <2>1, <2>4, AddsPast DEF Takes, HandOK, Knows
    <3>2. running' \in [Jobs -> Runners \cup {None}]
      BY <1>0, <2>4
    <3>3. hand'[w].compute <= Len(compute) /\ hand' \in [Runners -> Hand] /\ Others(w)
      BY <1>0, <2>4 DEF Takes
    <3> QED
      BY <1>0, <2>3, <3>1, <3>2, <3>3, PlainBase
  <2>5. CASE /\ Takes(w, "mark", hand[w].job, computeJobId[hand[w].job])
             /\ UNCHANGED <<running, past>>
    <3>1. HandOK(w)'
      BY <1>0, <1>6, <2>1, <2>2, <2>3, <2>5 DEF Check, At, Takes, HandOK, Knows
    <3> QED
      BY <1>0, <2>1, <2>3, <2>5, <3>1, PlainBase DEF Takes
  <2>6. CASE /\ Moves(w, "fail")
             /\ past' = [past EXCEPT !.leaked = @ \cup {hand[w].job}]
             /\ UNCHANGED running
    <3>1. HandOK(w)' /\ past' \in Past
      BY <1>0, <1>6, <2>1, <2>6, AddsPast DEF Check, At, Moves, HandOK, Knows
    <3> QED
      BY <1>0, <2>3, <2>6, <3>1, PlainBase DEF Moves
  <2> QED
    BY <1>0, <1>6, <2>1, <2>4, <2>5, <2>6, CheckTakes
<1>7. CASE markRunning(w)
  <2>1. Moves(w, "poll")
    BY <1>0, <1>7, ToMoves DEF markRunning, Pcs
  <2>2. HandOK(w)'
    BY <1>0, <1>7, <2>1 DEF markRunning, At, Moves, HandOK, Knows
  <2> QED
    BY <1>0, <1>7, <2>1, <2>2, WriteBase DEF markRunning, Moves, Status
<1>8. CASE Poll(w)
  <2>1. hand[w].job \in Jobs
    BY <1>0, <1>8 DEF HandOK, Poll
  <2>2. UNCHANGED <<rows, compute, cancelling, process, used>>
    BY <1>8 DEF Poll
  <2>3. CASE At(w, "sleep") /\ hand[w].aborted
    <3>1. To(w, "fail") /\ past' = [past EXCEPT !.leaked = @ \cup {hand[w].job}]
      BY <1>8, <2>3 DEF Poll
    <3>2. Moves(w, "fail")
      BY <1>0, <3>1, ToMoves DEF Pcs
    <3>3. HandOK(w)' /\ past' \in Past
      BY <1>0, <2>1, <2>3, <3>1, <3>2, AddsPast DEF At, Moves, HandOK, Knows
    <3> QED
      BY <1>0, <2>2, <3>2, <3>3, PlainBase DEF Moves
  <2>4. CASE ~(At(w, "sleep") /\ hand[w].aborted)
    <3>1. /\ To(w, IF Wanted(w) THEN "ask" ELSE "release")
          /\ past' = [past EXCEPT !.stranded =
                         IF hand[w].aborted THEN @ \cup {hand[w].job} ELSE @]
      BY <1>8, <2>4 DEF Poll
    <3>2. Moves(w, IF Wanted(w) THEN "ask" ELSE "release")
      BY <1>0, <3>1, ToMoves DEF Pcs
    <3>3. HandOK(w)'
      BY <1>0, <1>8, <2>1, <2>2, <3>2 DEF Poll, Moves, HandOK, Knows
    <3>4. past' \in Past
      BY <1>0, <2>1, <3>1 DEF Past
    <3> QED
      BY <1>0, <2>2, <3>2, <3>3, <3>4, PlainBase DEF Moves
  <2> QED
    BY <2>3, <2>4
<1>9. CASE pollComputeJob(w)
  <2> DEFINE p == Outcome(compute[hand[w].compute].state)
  <2>1. /\ hand[w].job \in Jobs /\ hand[w].compute \in DOMAIN compute
        /\ compute[hand[w].compute].job = hand[w].job
    BY <1>0, <1>9 DEF HandOK, pollComputeJob, At, Knows
  <2>2. /\ p \in {"sleep", "succeed", "report"}
        /\ p = "succeed" => compute[hand[w].compute].state = "completed"
    BY DEF Outcome
  <2>3. To(w, p) /\ UNCHANGED <<rows, compute, cancelling, process, used, past>>
    BY <1>9 DEF pollComputeJob
  <2> HIDE DEF p
  <2>4. Moves(w, p)
    BY <1>0, <2>2, <2>3, ToMoves DEF Pcs
  <2>5. p = "succeed" => Done(hand[w].job)
    BY <2>1, <2>2 DEF Done, p
  <2>6. Done(hand[w].job) => Done(hand[w].job)'
    BY <2>3, <2>4 DEF Done, Moves
  <2>7. HandOK(w)'
    BY <1>0, <2>1, <2>2, <2>3, <2>4, <2>5, <2>6, NoneAssumption DEF Moves, HandOK, Knows
  <2> QED
    BY <1>0, <2>3, <2>4, <2>7, PlainBase DEF Moves
<1>10. CASE releaseCompute(w)
  <2>1. hand[w].job \in Jobs
    BY <1>0, <1>10 DEF HandOK, releaseCompute, At
  <2>2. Grows
    BY <1>10, ReleaseGrows
  <2>3. Takes(w, "idle", None, 0)
    BY <1>0, <1>10, IdleTakes DEF releaseCompute, Leaves
  <2>4. HandOK(w)'
    BY <2>3 DEF Takes, HandOK, Knows
  <2>5. /\ UNCHANGED <<rows, cancelling, shuttingDown, used, past>>
        /\ running' \in [Jobs -> Runners \cup {None}]
    BY <1>0, <1>10, <2>1 DEF releaseCompute, Leaves
  <2>6. \A j \in Jobs : RowOK(j)'
    BY <2>2, <2>5, RowsKept
  <2>7. hand'[w].compute <= Len(compute')
    BY <2>2, <2>3 DEF Takes, Grows
  <2> QED
    BY <1>0, <2>2, <2>3, <2>4, <2>5, <2>6, <2>7, FrameBase DEF Takes, TypeOK
<1>11. CASE markSucceeded(w)
  <2>1. Moves(w, "publish")
    BY <1>0, <1>11, ToMoves DEF markSucceeded, Pcs
  <2>2. HandOK(w)' /\ Done(hand[w].job)
    BY <1>0, <1>11, <2>1 DEF markSucceeded, At, Moves, HandOK, Knows
  <2> QED
    BY <1>0, <1>11, <2>1, <2>2, WriteBase DEF markSucceeded, Moves, Status
<1>12. CASE Publish(w)
  <2>1. Takes(w, "idle", None, 0)
    BY <1>0, <1>12, IdleTakes DEF Publish, Leaves
  <2>2. HandOK(w)' /\ running' \in [Jobs -> Runners \cup {None}]
    BY <1>0, <1>12, <2>1 DEF Takes, HandOK, Knows, Publish, Leaves
  <2> QED
    BY <1>0, <1>12, <2>1, <2>2, PlainBase DEF Publish, Takes
<1>13. CASE markFailed(w)
  <2>1. Takes(w, "idle", None, 0)
    BY <1>0, <1>13, IdleTakes DEF markFailed, Leaves
  <2>2. HandOK(w)' /\ running' \in [Jobs -> Runners \cup {None}]
    BY <1>0, <1>13, <2>1 DEF Takes, HandOK, Knows, markFailed, Leaves
  <2> QED
    BY <1>0, <1>13, <2>1, <2>2, WriteBase DEF markFailed, Takes, Status
<1> QED
  BY <1>1, <1>2, <1>3, <1>4, <1>5, <1>6, <1>7, <1>8, <1>9, <1>10, <1>11, <1>12, <1>13
     DEF Steps

LEMMA ThrowsBase ==
  ASSUME Base, NEW w \in Runners, Throws(w)
  PROVE  Base'
<1>0. /\ TypeOK /\ HandOK(w) /\ past \in Past /\ faults' \in Nat
      /\ hand[w].compute <= Len(compute) /\ hand[w] \in Hand /\ Len(compute) \in Nat
      /\ running \in [Jobs -> Runners \cup {None}]
  BY DEF Base, TypeOK, Throws
<1> DEFINE j == hand[w].job
<1>1. UNCHANGED <<rows, compute, cancelling, cancels, shuttingDown>>
  BY DEF Throws
<1>2. CASE /\ Goes(w, Idle) /\ past' \in Past
           /\ running' \in [Jobs -> Runners \cup {None}]
  <2>1. Takes(w, "idle", None, 0)
    BY <1>0, <1>2, IdleTakes
  <2>2. HandOK(w)'
    BY <2>1 DEF Takes, HandOK, Knows
  <2> QED
    BY <1>0, <1>1, <1>2, <2>1, <2>2, PlainBase DEF Takes
<1>3. CASE /\ To(w, "fail") /\ past' \in Past /\ j \in Jobs
           /\ running' \in [Jobs -> Runners \cup {None}]
  <2>1. Moves(w, "fail")
    BY <1>0, <1>3, ToMoves DEF Pcs
  <2>2. HandOK(w)'
    BY <1>0, <1>3, <2>1, NoneAssumption DEF Moves, HandOK, Knows
  <2> QED
    BY <1>0, <1>1, <1>3, <2>1, <2>2, PlainBase DEF Moves
<1>4. CASE hand[w].pc \in {"select", "claim"} /\ Goes(w, Idle) /\ UNCHANGED <<running, past>>
  BY <1>0, <1>2, <1>4
<1>5. CASE /\ At(w, "begin") /\ Goes(w, Idle) /\ UNCHANGED running
           /\ past' = [past EXCEPT !.stranded = @ \cup {j}]
  BY <1>0, <1>2, <1>5, AddsPast DEF At, HandOK
<1>6. CASE /\ At(w, "begin") /\ running' = [running EXCEPT ![j] = w]
           /\ To(w, "fail") /\ UNCHANGED past
  BY <1>0, <1>3, <1>6 DEF At, HandOK
<1>7. CASE /\ At(w, "fail") /\ Leaves(w)
           /\ past' = [past EXCEPT !.stranded = @ \cup {j}]
  BY <1>0, <1>2, <1>7, AddsPast DEF At, HandOK, Leaves
<1>8. CASE /\ At(w, "release") /\ Leaves(w)
           /\ past' = [past EXCEPT !.leaked = @ \cup {j}]
  BY <1>0, <1>2, <1>8, AddsPast DEF At, HandOK, Leaves
<1>9. CASE /\ hand[w].pc \notin Unlisted \cup {"fail", "release"}
           /\ To(w, "fail") /\ UNCHANGED running
           /\ past' = [past EXCEPT !.leaked = @ \cup {j},
                       !.undone = IF At(w, "publish") THEN @ \cup {j} ELSE @]
  <2>1. j \in Jobs
    BY <1>0, <1>9 DEF HandOK, Unlisted, Throws, At
  <2>2. past' \in Past
    BY <1>0, <1>9, <2>1 DEF Past
  <2> QED
    BY <1>0, <1>3, <1>9, <2>1, <2>2
<1> QED
  BY <1>4, <1>5, <1>6, <1>7, <1>8, <1>9 DEF Throws

LEMMA NextBase ==
  ASSUME Base, [Next]_vars
  PROVE  Base'
<1>0. TypeOK /\ past \in Past /\ faults \in Nat /\ cancels \in Nat
  BY DEF Base, TypeOK
<1> USE DEF rows, process, used
<1>a. ASSUME Grows, hand' \in [Runners -> Hand], TypeOK', \A j \in Jobs : RowOK(j)',
             UNCHANGED computeJobId, \A w \in Runners : hand'[w] = hand[w]
      PROVE  Base'
  BY <1>a, HandKept DEF Base
<1>1. ASSUME NEW j \in Jobs, submitJob(j)
      PROVE  Base'
  <2>1. Grows /\ TypeOK'
    BY <1>0, <1>1, SameGrows DEF submitJob, Writes, TypeOK, Status
  <2>2. \A k \in Jobs : RowOK(k)'
    BY <1>0, <1>1, <2>1, RowsKept DEF submitJob, Writes, TypeOK
  <2> QED
    BY <1>1, <1>a, <2>1, <2>2 DEF submitJob, TypeOK
<1>2. ASSUME NEW j \in Jobs, CancelRead(j)
      PROVE  Base'
  <2>1. Grows /\ TypeOK'
    BY <1>0, <1>2, SameGrows DEF CancelRead, TypeOK
  <2>2. \A k \in Jobs : RowOK(k)'
    BY <1>0, <1>2, <2>1, RowsKept DEF CancelRead
  <2> QED
    BY <1>2, <1>a, <2>1, <2>2 DEF CancelRead, TypeOK
<1>3. ASSUME NEW j \in Jobs, CancelWrite(j)
      PROVE  Base'
  <2>0. past' \in Past
    BY <1>0, <1>3 DEF CancelWrite, Past
  <2>1. Grows /\ TypeOK'
    BY <1>0, <1>3, <2>0, SameGrows DEF CancelWrite, Writes, TypeOK, Status
  <2>2. \A k \in Jobs : RowOK(k)'
    BY <1>0, <1>3, <2>1, RowsKept DEF CancelWrite, Writes, TypeOK
  <2> QED
    BY <1>3, <1>a, <2>1, <2>2 DEF CancelWrite, TypeOK
<1>4. ASSUME NEW w \in Runners, Tick(w)
      PROVE  Base'
  <2>1. Takes(w, "select", None, 0)
    BY <1>0, <1>4, TickTakes
  <2>2. HandOK(w)'
    BY <2>1 DEF Takes, HandOK, Knows
  <2>3. past' \in Past /\ faults' \in Nat
    <3>1. CASE UNCHANGED <<faults, past>>
      BY <1>0, <3>1
    <3>2. CASE faults' = faults + 1 /\ past' = [past EXCEPT !.overlapped = TRUE]
      <4> DEFINE x == [past EXCEPT !.overlapped = TRUE]
      <4>1. x \in Past
        BY <1>0 DEF Past
      <4> HIDE DEF x
      <4>2. past' = x
        BY <3>2 DEF x
      <4>3. past' \in Past
        BY <4>1, <4>2
      <4>4. faults' = faults + 1 /\ faults \in Nat
        BY <1>0, <3>2
      <4> QED
        BY <4>3, <4>4
    <3> QED
      <4>1. \/ UNCHANGED <<faults, past>>
            \/ faults' = faults + 1 /\ past' = [past EXCEPT !.overlapped = TRUE]
        BY <1>4 DEF Tick
      <4> QED
        BY <3>1, <3>2, <4>1
  <2> QED
    BY <1>0, <1>4, <2>1, <2>2, <2>3, PlainBase DEF Tick, Takes, TypeOK
<1>5. ASSUME NEW i \in DOMAIN compute, ComputeEnds(i)
      PROVE  Base'
  <2>1. PICK s \in {"completed", "failed"} : compute' = [compute EXCEPT ![i].state = s]
    BY <1>5 DEF ComputeEnds
  <2>2. Grows /\ Len(compute') = Len(compute)
    BY <1>0, <1>5, <2>1, SetState DEF ComputeEnds
  <2>3. TypeOK'
    BY <1>0, <1>5, <2>2 DEF ComputeEnds, TypeOK, Grows
  <2>4. \A k \in Jobs : RowOK(k)'
    BY <1>5, <2>2, RowsKept DEF ComputeEnds
  <2> QED
    BY <1>5, <1>a, <2>2, <2>3, <2>4 DEF ComputeEnds, TypeOK
<1>6. CASE stopWorker
  <2>1. /\ hand' \in [Runners -> Hand]
        /\ \A w \in Runners : /\ hand'[w].pc = hand[w].pc /\ hand'[w].job = hand[w].job
                              /\ hand'[w].compute = hand[w].compute
    <3> DEFINE x(w) == [hand[w] EXCEPT !.aborted = @ \/ \E j \in Jobs : running[j] = w]
    <3>1. \A w \in Runners : /\ x(w) \in Hand /\ x(w).pc = hand[w].pc
                            /\ x(w).job = hand[w].job /\ x(w).compute = hand[w].compute
      BY <1>0 DEF TypeOK, Hand
    <3>2. hand' = [w \in Runners |-> x(w)]
      BY <1>6 DEF stopWorker
    <3> HIDE DEF x
    <3> QED
      BY <3>1, <3>2
  <2>6. /\ running' \in [Jobs -> Runners \cup {None}] /\ shuttingDown' \in BOOLEAN
        /\ faults' \in Nat
    BY <1>0, <1>6 DEF stopWorker, Empty
  <2>7. UNCHANGED <<rows, compute, cancelling, cancels, past>>
    BY <1>6 DEF stopWorker
  <2>8. \A w \in Runners : hand'[w].compute <= Len(compute')
    BY <1>0, <2>1, <2>7 DEF TypeOK
  <2>2. TypeOK'
    BY <1>0, <2>1, <2>6, <2>7, <2>8 DEF TypeOK
  <2>3. UNCHANGED <<rows, compute>>
    BY <1>6 DEF stopWorker
  <2>4. Grows /\ \A j \in Jobs : RowOK(j)'
    BY <1>0, <2>3, SameGrows, RowsKept
  <2>5. ASSUME NEW w \in Runners
        PROVE  HandOK(w)'
    <3>1. HandOK(w)
      BY DEF Base
    <3>2. Done(hand[w].job) => Done(hand[w].job)'
      BY <2>1, <2>3 DEF Done
    <3> QED
      BY <2>1, <2>3, <3>1, <3>2 DEF HandOK
  <2> QED
    BY <2>2, <2>4, <2>5 DEF Base
<1>7. CASE Restart
  <2>0. Idle \in Hand /\ Idle.pc = "idle" /\ Idle.job = None /\ Idle.compute = 0
    BY DEF Idle, Hand
  <2>1. \A w \in Runners : hand'[w] = Idle
    BY <1>7 DEF Restart
  <2>2. past' \in Past
    BY <1>0, <1>7 DEF Restart, Past, InHand
  <2>7. /\ running' \in [Jobs -> Runners \cup {None}] /\ shuttingDown' \in BOOLEAN
        /\ cancelling' \subseteq Jobs
        /\ hand' \in [Runners -> Hand] /\ UNCHANGED <<rows, compute, cancels>>
    BY <2>0, <1>7 DEF Restart, Empty
  <2>9. faults' \in Nat
    BY <1>0, <1>7 DEF Restart
  <2>8. \A w \in Runners : hand'[w].compute <= Len(compute')
    BY <1>0, <2>0, <2>1, <2>7 DEF TypeOK
  <2>3. TypeOK'
    BY <1>0, <2>2, <2>7, <2>8, <2>9 DEF TypeOK
  <2>4. UNCHANGED <<rows, compute>>
    BY <1>7 DEF Restart
  <2>5. \A j \in Jobs : RowOK(j)'
    BY <1>0, <2>4, SameGrows, RowsKept
  <2>6. \A w \in Runners : HandOK(w)'
    BY <2>0, <2>1 DEF HandOK, Knows
  <2> QED
    BY <2>3, <2>5, <2>6 DEF Base
<1>8. CASE UNCHANGED vars
  BY <1>8 DEF vars, Base, TypeOK, RowOK, HandOK, Done
<1>9. ASSUME NEW w \in Runners, Steps(w)
      PROVE  Base'
  BY <1>9, StepBase
<1>10. ASSUME NEW w \in Runners, Throws(w)
       PROVE  Base'
  BY <1>10, ThrowsBase
<1> QED
  BY <1>1, <1>2, <1>3, <1>4, <1>5, <1>6, <1>7, <1>8, <1>9, <1>10 DEF Next

\* The rows, the compute jobs and the runners have their types.
THEOREM TypeCorrect == Spec => []TypeOK
<1>1. Init => Base
  BY InitBase
<1>2. Base /\ [Next]_vars => Base'
  BY NextBase
<1>3. Base => TypeOK
  BY DEF Base
<1> QED
  BY <1>1, <1>2, <1>3, PTL DEF Spec

\* No job succeeds without a completed compute job of its own: the id in the row,
\* and the id a runner polls, are always those of a compute job for that job.
THEOREM SuccessEarned == Spec => []SuccessIsComputed
<1>1. Init => Base
  BY InitBase
<1>2. Base /\ [Next]_vars => Base'
  BY NextBase
<1>3. Base => SuccessIsComputed
  BY DEF Base, RowOK, SuccessIsComputed, Done
<1> QED
  BY <1>1, <1>2, <1>3, PTL DEF Spec

-----------------------------------------------------------------------------
(* The steps of a runner as a table: where it was, where it is, what it did. *)

From(w, p, q) == hand[w].pc = p /\ Moves(w, q)
Off(w, p) == hand[w].pc = p /\ Takes(w, "idle", None, 0)
Unlists(w) == running' = [running EXCEPT ![hand[w].job] = None]
Leaks(w) == past' = [past EXCEPT !.leaked = @ \cup {hand[w].job}]

Reads(w) ==
  /\ UNCHANGED <<status, compute>>
  /\ \/ UNCHANGED <<running, past>> /\ Off(w, "select")
     \/ /\ UNCHANGED <<running, past>> /\ hand[w].pc = "select"
        /\ \E j \in Claimable : Takes(w, "claim", j, hand[w].compute)
     \/ /\ running' = [running EXCEPT ![hand[w].job] = w] /\ UNCHANGED past
        /\ \/ From(w, "begin", "submit")
           \/ From(w, "begin", "check") /\ computeJobId[hand[w].job] # 0
     \/ UNCHANGED <<running, past>> /\ From(w, "store", "check")
     \/ status[hand[w].job] = "cancelled" /\ Off(w, "check") /\ Unlists(w) /\ Leaks(w)
     \/ /\ status[hand[w].job] = "preparing" /\ UNCHANGED <<running, past>>
        /\ hand[w].pc = "check" /\ Takes(w, "mark", hand[w].job, computeJobId[hand[w].job])
     \/ /\ status[hand[w].job] \notin {"cancelled", "preparing"} /\ UNCHANGED running
        /\ From(w, "check", "fail") /\ Leaks(w)
     \/ From(w, "sleep", "fail") /\ Leaks(w) /\ UNCHANGED running
     \/ Off(w, "publish") /\ Unlists(w) /\ UNCHANGED past

Polls(w) ==
  /\ UNCHANGED <<status, compute, running>>
  /\ \/ /\ hand[w].pc \in {"poll", "sleep"}
        /\ \/ status[hand[w].job] # "cancelled" /\ Moves(w, "ask")
           \/ Moves(w, "release")
        /\ past' = [past EXCEPT !.stranded = IF hand[w].aborted THEN @ \cup {hand[w].job}
                                             ELSE @]
     \/ /\ UNCHANGED past
        /\ \/ From(w, "ask", "sleep")
           \/ From(w, "ask", "succeed") /\ compute[hand[w].compute].state = "completed"
           \/ From(w, "ask", "report") /\ compute[hand[w].compute].state # "running"

Marks(w) ==
  /\ UNCHANGED <<compute, past>>
  /\ \/ /\ From(w, "claim", "begin") /\ Writes(hand[w].job, "preparing")
        /\ UNCHANGED running
     \/ From(w, "mark", "poll") /\ Writes(hand[w].job, "running") /\ UNCHANGED running
     \/ /\ From(w, "succeed", "publish") /\ Writes(hand[w].job, "succeeded")
        /\ UNCHANGED running
     \/ /\ Off(w, "report") \/ Off(w, "fail")
        /\ Writes(hand[w].job, "failed")
        /\ Unlists(w)

Computes(w) ==
  /\ UNCHANGED <<status, past>>
  /\ \/ /\ hand[w].pc = "submit" /\ Takes(w, "store", hand[w].job, Len(compute) + 1)
        /\ Submits(w) /\ UNCHANGED running
     \/ /\ Off(w, "release") /\ releaseCompute(w) /\ Unlists(w)

Errs(w) ==
  /\ UNCHANGED <<status, compute>>
  /\ \/ (Off(w, "select") \/ Off(w, "claim")) /\ UNCHANGED <<running, past>>
     \/ /\ Off(w, "begin") /\ UNCHANGED running
        /\ past' = [past EXCEPT !.stranded = @ \cup {hand[w].job}]
     \/ /\ From(w, "begin", "fail") /\ UNCHANGED past
        /\ running' = [running EXCEPT ![hand[w].job] = w]
     \/ /\ Off(w, "fail") /\ Unlists(w)
        /\ past' = [past EXCEPT !.stranded = @ \cup {hand[w].job}]
     \/ Off(w, "release") /\ Unlists(w) /\ Leaks(w)
     \/ /\ hand[w].pc \notin Unlisted \cup {"idle", "fail", "release"}
        /\ Moves(w, "fail") /\ UNCHANGED running
        /\ past' = [past EXCEPT !.leaked = @ \cup {hand[w].job},
                                !.undone = IF hand[w].pc = "publish" THEN @ \cup {hand[w].job}
                                           ELSE @]

LEMMA StepTable ==
  ASSUME Base, NEW w \in Runners, Steps(w)
  PROVE  /\ Reads(w) \/ Polls(w) \/ Marks(w) \/ Computes(w)
         /\ UNCHANGED shuttingDown
<1>0. TypeOK /\ HandOK(w)
  BY DEF Base
<1> USE DEF rows, process, used, At
<1>1. CASE Select(w)
  BY <1>0, <1>1, SelectTakes DEF Select, Reads, Off
<1>2. CASE Claim(w)
  <2>1. Moves(w, "begin")
    BY <1>0, <1>2, ToMoves DEF Claim, Pcs
  <2> QED
    BY <1>2, <2>1 DEF Claim, Marks, From
<1>3. CASE Begin(w)
  <2>1. Moves(w, IF computeJobId[hand[w].job] = 0 THEN "submit" ELSE "check")
    BY <1>0, <1>3, ToMoves DEF Begin, Pcs
  <2> QED
    BY <1>3, <2>1 DEF Begin, Reads, From
<1>4. CASE Submit(w)
  BY <1>0, <1>4, SubmitTakes DEF Submit, Computes
<1>5. CASE setComputeJobId(w)
  <2>1. Moves(w, "check")
    BY <1>0, <1>5, ToMoves DEF setComputeJobId, Pcs
  <2> QED
    BY <1>5, <2>1 DEF setComputeJobId, Reads, From
<1>6. CASE Check(w)
  <2>1. hand[w].job \in Jobs
    BY <1>0, <1>6 DEF HandOK, Check
  <2> QED
    BY <1>0, <1>6, <2>1, CheckTakes DEF Check, Reads, From, Off, Unlists, Leaks
<1>7. CASE markRunning(w)
  <2>1. Moves(w, "poll")
    BY <1>0, <1>7, ToMoves DEF markRunning, Pcs
  <2> QED
    BY <1>7, <2>1 DEF markRunning, Marks, From
<1>8. CASE Poll(w)
  <2>1. CASE hand[w].pc = "sleep" /\ hand[w].aborted
    <3>1. To(w, "fail") /\ Leaks(w)
      BY <1>8, <2>1 DEF Poll, Leaks
    <3>2. Moves(w, "fail")
      BY <1>0, <3>1, ToMoves DEF Pcs
    <3> QED
      BY <1>8, <2>1, <3>1, <3>2 DEF Poll, Reads, From
  <2>2. CASE ~(hand[w].pc = "sleep" /\ hand[w].aborted)
    <3>1. To(w, IF Wanted(w) THEN "ask" ELSE "release")
      BY <1>8, <2>2 DEF Poll
    <3>2. Moves(w, IF Wanted(w) THEN "ask" ELSE "release")
      BY <1>0, <3>1, ToMoves DEF Pcs
    <3> QED
      BY <1>8, <2>2, <3>2 DEF Poll, Polls, Wanted
  <2> QED
    BY <2>1, <2>2
<1>9. CASE pollComputeJob(w)
  <2> DEFINE c == compute[hand[w].compute].state
  <2>1. To(w, Outcome(c))
    BY <1>9 DEF pollComputeJob
  <2>2. \/ Outcome(c) = "sleep"
        \/ Outcome(c) = "succeed" /\ c = "completed"
        \/ Outcome(c) = "report" /\ c # "running"
    BY DEF Outcome
  <2>3. Moves(w, Outcome(c))
    BY <1>0, <2>1, <2>2, ToMoves DEF Pcs
  <2> QED
    BY <1>9, <2>2, <2>3 DEF pollComputeJob, Polls, From
<1>10. CASE releaseCompute(w)
  BY <1>0, <1>10, IdleTakes DEF releaseCompute, Leaves, Computes, Off, Unlists
<1>11. CASE markSucceeded(w)
  <2>1. Moves(w, "publish")
    BY <1>0, <1>11, ToMoves DEF markSucceeded, Pcs
  <2> QED
    BY <1>11, <2>1 DEF markSucceeded, Marks, From
<1>12. CASE Publish(w)
  BY <1>0, <1>12, IdleTakes DEF Publish, Leaves, Reads, Off, Unlists
<1>13. CASE markFailed(w)
  BY <1>0, <1>13, IdleTakes DEF markFailed, Leaves, Marks, Off, Unlists
<1> QED
  BY <1>1, <1>2, <1>3, <1>4, <1>5, <1>6, <1>7, <1>8, <1>9, <1>10, <1>11, <1>12, <1>13
     DEF Steps

LEMMA ThrowsTable ==
  ASSUME Base, NEW w \in Runners, Throws(w)
  PROVE  Errs(w) /\ UNCHANGED shuttingDown
<1>0. TypeOK /\ hand[w].pc # "idle" /\ UNCHANGED <<status, compute, shuttingDown>>
  BY DEF Base, Throws, At, rows
<1>1. Goes(w, Idle) => Takes(w, "idle", None, 0)
  BY <1>0, IdleTakes
<1>2. To(w, "fail") => Moves(w, "fail")
  BY <1>0, ToMoves DEF Pcs
<1> QED
  BY <1>0, <1>1, <1>2 DEF Throws, Errs, Off, From, Unlists, Leaks, Leaves, At

\* Runners add to the history; they do not make a tick overlap or a cancel race.
LEMMA RunnerPast ==
  ASSUME Base, NEW w \in Runners,
         Reads(w) \/ Polls(w) \/ Marks(w) \/ Computes(w) \/ Errs(w)
  PROVE  /\ past'.overlapped = past.overlapped /\ past'.raced = past.raced
         /\ past'.late = past.late
         /\ past.undone \subseteq past'.undone /\ past.leaked \subseteq past'.leaked
<1>0. past \in Past
  BY DEF Base, TypeOK
<1>1. Reads(w) => UNCHANGED past \/ Leaks(w)
  BY DEF Reads
<1>2. Polls(w) => \/ UNCHANGED past
                  \/ past' = [past EXCEPT !.stranded = IF hand[w].aborted
                                 THEN @ \cup {hand[w].job} ELSE @]
  BY DEF Polls
<1>3. Marks(w) \/ Computes(w) => UNCHANGED past
  BY DEF Marks, Computes
<1>4. Errs(w) => \/ UNCHANGED past \/ Leaks(w)
                 \/ past' = [past EXCEPT !.stranded = @ \cup {hand[w].job}]
                 \/ past' = [past EXCEPT !.leaked = @ \cup {hand[w].job},
                                !.undone = IF hand[w].pc = "publish" THEN @ \cup {hand[w].job}
                                           ELSE @]
  BY DEF Errs
<1>5. CASE UNCHANGED past
  BY <1>5
<1>6. CASE Leaks(w)
  BY <1>0, <1>6 DEF Leaks, Past
<1>7. CASE past' = [past EXCEPT !.stranded = IF hand[w].aborted
                                 THEN @ \cup {hand[w].job} ELSE @]
  BY <1>0, <1>7 DEF Past
<1>8. CASE past' = [past EXCEPT !.stranded = @ \cup {hand[w].job}]
  BY <1>0, <1>8 DEF Past
<1>9. CASE past' = [past EXCEPT !.leaked = @ \cup {hand[w].job},
                                !.undone = IF hand[w].pc = "publish" THEN @ \cup {hand[w].job}
                                           ELSE @]
  BY <1>0, <1>9 DEF Past
<1> QED
  BY <1>1, <1>2, <1>3, <1>4, <1>5, <1>6, <1>7, <1>8, <1>9

LEMMA TickPast ==
  ASSUME Base, NEW w \in Runners, Tick(w)
  PROVE  /\ UNCHANGED <<status, computeJobId, compute, running, shuttingDown>>
         /\ hand[w].pc = "idle" /\ Takes(w, "select", None, 0)
         /\ running = Empty /\ ~shuttingDown
         /\ past'.raced = past.raced /\ past'.late = past.late
         /\ past'.undone = past.undone /\ past'.leaked = past.leaked
         /\ past.overlapped => past'.overlapped
         /\ ~past'.overlapped => \A v \in Runners : hand[v].pc \notin Unlisted
<1>0. TypeOK /\ past \in Past
  BY DEF Base, TypeOK
<1>1. Takes(w, "select", None, 0)
  BY <1>0, TickTakes
<1>2. /\ UNCHANGED <<status, computeJobId, compute, running, shuttingDown>>
      /\ hand[w].pc = "idle" /\ running = Empty /\ ~shuttingDown
  BY DEF Tick, At, MayTick, rows, process
<1>3. \/ UNCHANGED past /\ \A v \in Runners : hand[v].pc \notin Unlisted
      \/ past' = [past EXCEPT !.overlapped = TRUE]
  BY DEF Tick
<1>4. CASE UNCHANGED past /\ \A v \in Runners : hand[v].pc \notin Unlisted
  BY <1>1, <1>2, <1>4
<1>5. CASE past' = [past EXCEPT !.overlapped = TRUE]
  <2>1. /\ past'.raced = past.raced /\ past'.late = past.late
        /\ past'.undone = past.undone /\ past'.leaked = past.leaked /\ past'.overlapped
    BY <1>0, <1>5 DEF Past
  <2> QED
    BY <1>1, <1>2, <2>1
<1> QED
  BY <1>3, <1>4, <1>5

LEMMA CancelEffects ==
  ASSUME Base, NEW j \in Jobs, CancelWrite(j)
  PROVE  /\ Writes(j, "cancelled")
         /\ UNCHANGED <<computeJobId, compute, hand, running, shuttingDown>>
         /\ past'.overlapped = past.overlapped /\ past'.undone = past.undone
         /\ past'.leaked = past.leaked
         /\ past.raced \subseteq past'.raced /\ past.late \subseteq past'.late
         /\ (\E w \in Holding(j) : hand[w].pc \in Blind) => j \in past'.raced
         /\ status[j] \notin {"queued", "preparing"} => j \in past'.late
<1>0. past \in Past
  BY DEF Base, TypeOK
<1> DEFINE b == \E w \in Holding(j) : hand[w].pc \in Blind
           c == status[j] \in {"queued", "preparing"}
<1>1. past' = [past EXCEPT !.raced = IF b THEN @ \cup {j} ELSE @,
                           !.late = IF c THEN @ ELSE @ \cup {j}]
  BY DEF CancelWrite
<1>2. /\ Writes(j, "cancelled")
      /\ UNCHANGED <<computeJobId, compute, hand, running, shuttingDown>>
  BY DEF CancelWrite, process
<1> HIDE DEF b, c
<1>3. /\ past'.overlapped = past.overlapped /\ past'.undone = past.undone
      /\ past'.leaked = past.leaked
      /\ past'.raced = IF b THEN past.raced \cup {j} ELSE past.raced
      /\ past'.late = IF c THEN past.late ELSE past.late \cup {j}
  BY <1>0, <1>1 DEF Past
<1> QED
  BY <1>2, <1>3 DEF b, c

-----------------------------------------------------------------------------
(* A cancel that holds.                                                    *)

Sighted(w) ==
  hand[w].pc \in Blind => status[hand[w].job] # "cancelled" \/ hand[w].job \in past.raced

CancelInv == \A w \in Runners : Sighted(w)

\* What a runner writes to a row, and where it stands.
LEMMA RunnerWrites ==
  ASSUME Base, NEW w \in Runners, Marks(w), NEW j \in Jobs, status'[j] # status[j]
  PROVE  /\ j = hand[w].job
         /\ \/ hand[w].pc = "claim" /\ status'[j] = "preparing"
            \/ hand[w].pc = "mark" /\ status'[j] = "running"
            \/ hand[w].pc = "succeed" /\ status'[j] = "succeeded"
            \/ hand[w].pc \in {"report", "fail"} /\ status'[j] = "failed"
BY DEF Base, TypeOK, Marks, From, Off, Writes

LEMMA CancelNext ==
  ASSUME Base, CancelInv, [Next]_vars
  PROVE  /\ CancelInv'
         /\ \A j \in Jobs : status[j] = "cancelled" /\ j \notin past.raced =>
              status'[j] \in {"cancelled", "failed"}
<1>0. status \in [Jobs -> Status] /\ past \in Past
  BY DEF Base, TypeOK
<1>1. ASSUME NEW w \in Runners,
             Reads(w) \/ Polls(w) \/ Computes(w) \/ Errs(w)
      PROVE  CancelInv' /\ UNCHANGED status
  <2>1. past'.raced = past.raced /\ UNCHANGED status
    BY <1>1, RunnerPast DEF Reads, Polls, Computes, Errs
  <2>2. Sighted(w)'
    <3>1. HandOK(w) /\ Sighted(w)
      BY DEF Base, CancelInv
    <3>2. CASE Reads(w)
      BY <2>1, <3>1, <3>2 DEF Reads, Off, From, Takes, Moves, Sighted, Blind, Claimable
    <3>3. CASE Polls(w)
      BY <2>1, <3>1, <3>3 DEF Polls, Off, From, Takes, Moves, Sighted, Blind
    <3>4. CASE Computes(w)
      BY <2>1, <3>1, <3>4 DEF Computes, Off, From, Takes, Moves, Sighted, Blind
    <3>5. CASE Errs(w)
      BY <2>1, <3>1, <3>5 DEF Errs, Off, From, Takes, Moves, Sighted, Blind
    <3> QED
      BY <1>1, <3>2, <3>3, <3>4, <3>5
  <2>3. Others(w)
    BY <1>1 DEF Reads, Polls, Computes, Errs, Off, From, Takes, Moves
  <2> QED
    BY <2>1, <2>2, <2>3 DEF CancelInv, Sighted, Others
<1>2. ASSUME NEW w \in Runners, Marks(w)
      PROVE  /\ CancelInv'
             /\ \A j \in Jobs : status[j] = "cancelled" /\ j \notin past.raced =>
                  status'[j] \in {"cancelled", "failed"}
  <2>1. past'.raced = past.raced
    BY <1>2, RunnerPast
  <2>2. \A j \in Jobs : status'[j] # status[j] => status'[j] # "cancelled"
    BY <1>2, RunnerWrites
  <2>3. /\ hand'[w].pc \notin Blind
        /\ \A v \in Runners : v # w => hand'[v] = hand[v]
    BY <1>2 DEF Marks, Off, From, Takes, Moves, Others, Blind
  <2>4. CancelInv'
    <3> SUFFICES ASSUME NEW v \in Runners, v # w, hand[v].pc \in Blind
                 PROVE  status'[hand[v].job] # "cancelled" \/ hand[v].job \in past.raced
      BY <2>1, <2>3 DEF CancelInv, Sighted
    <3>1. hand[v].job \in Jobs /\ Sighted(v)
      BY DEF Base, HandOK, CancelInv, Blind
    <3> QED
      BY <2>2, <3>1 DEF Sighted
  <2>5. ASSUME NEW j \in Jobs, status[j] = "cancelled", j \notin past.raced
        PROVE  status'[j] \in {"cancelled", "failed"}
    <3>1. CASE status'[j] # status[j]
      <4>1. j = hand[w].job /\ hand[w].pc \notin Blind
        BY <1>2, <2>5, <3>1, RunnerWrites DEF CancelInv, Sighted
      <4> QED
        BY <1>2, <3>1, <4>1, RunnerWrites DEF Blind
    <3> QED
      BY <2>5, <3>1
  <2> QED
    BY <2>4, <2>5
<1>3. ASSUME NEW w \in Runners, Tick(w)
      PROVE  CancelInv' /\ UNCHANGED status
  BY <1>3, TickPast DEF CancelInv, Sighted, Takes, Others, Blind
<1>4. ASSUME NEW j \in Jobs, CancelWrite(j)
      PROVE  CancelInv' /\ \A k \in Jobs : status'[k] \in {status[k], "cancelled"}
  <2>1. /\ Writes(j, "cancelled") /\ UNCHANGED hand
        /\ past.raced \subseteq past'.raced
        /\ (\E w \in Holding(j) : hand[w].pc \in Blind) => j \in past'.raced
    BY <1>4, CancelEffects
  <2>2. \A w \in Runners : hand[w].pc \in Blind => hand[w].job \in Jobs
    BY DEF Base, HandOK, Blind
  <2>3. \A k \in Jobs : status'[k] = IF k = j THEN "cancelled" ELSE status[k]
    BY <1>0, <2>1 DEF Writes
  <2> QED
    BY <2>1, <2>2, <2>3 DEF CancelInv, Sighted, Holding
<1>5. ASSUME NEW j \in Jobs, submitJob(j)
      PROVE  CancelInv' /\ \A k \in Jobs : status[k] = "cancelled" => UNCHANGED status[k]
  <2>1. /\ UNCHANGED <<hand, past>> /\ status[j] = "none"
        /\ \A k \in Jobs : status'[k] = IF k = j THEN "queued" ELSE status[k]
    BY <1>0, <1>5 DEF submitJob, Writes
  <2>2. \A w \in Runners : hand[w].pc \in Blind => hand[w].job \in Jobs
    BY DEF Base, HandOK, Blind
  <2> QED
    BY <2>1, <2>2 DEF CancelInv, Sighted
<1>6. CASE stopWorker
  <2>1. \A w \in Runners : hand'[w].pc = hand[w].pc /\ hand'[w].job = hand[w].job
    BY <1>6 DEF stopWorker, Base, TypeOK, Hand
  <2> QED
    BY <1>6, <2>1 DEF stopWorker, rows, CancelInv, Sighted
<1>7. CASE Restart
  BY <1>7 DEF Restart, rows, CancelInv, Sighted, Blind, Idle
<1>8. CASE UNCHANGED <<status, hand, past>>
  BY <1>8 DEF CancelInv, Sighted
<1>9. ASSUME NEW w \in Runners, Steps(w)
      PROVE  /\ CancelInv'
             /\ \A j \in Jobs : status[j] = "cancelled" /\ j \notin past.raced =>
                  status'[j] \in {"cancelled", "failed"}
  BY <1>1, <1>2, <1>9, StepTable
<1>10. ASSUME NEW w \in Runners, Throws(w)
       PROVE  CancelInv' /\ UNCHANGED status
  BY <1>1, <1>10, ThrowsTable
<1>11. (\E j \in Jobs : CancelRead(j)) \/ (\E i \in DOMAIN compute : ComputeEnds(i))
         \/ UNCHANGED vars => UNCHANGED <<status, hand, past>>
  BY DEF CancelRead, ComputeEnds, vars, rows
<1> QED
  BY <1>3, <1>4, <1>5, <1>6, <1>7, <1>8, <1>9, <1>10, <1>11
     DEF Next, stopWorker, Restart, rows

\* A cancelled job is not run to success, unless its cancel was written between a
\* runner's look at the row and its write: for any number of overlapping ticks.
THEOREM CancelledStays == Spec => CancelHolds
<1>1. Init => Base /\ CancelInv
  BY InitBase DEF Init, CancelInv, Sighted, Idle, Blind
<1>2. Base /\ CancelInv /\ [Next]_vars => Base' /\ CancelInv'
  BY NextBase, CancelNext
<1>3. Base /\ CancelInv /\ [Next]_vars =>
        [\A j \in Jobs : status[j] = "cancelled" /\ j \notin past.raced =>
            status'[j] \in {"cancelled", "failed"}]_vars
  BY CancelNext
<1> QED
  BY <1>1, <1>2, <1>3, PTL DEF Spec, CancelHolds

-----------------------------------------------------------------------------
(* The steps that are no runner's.                                         *)

Runs(w) == Reads(w) \/ Polls(w) \/ Marks(w) \/ Computes(w) \/ Errs(w)

SameHands == \A w \in Runners : /\ hand'[w].pc = hand[w].pc
                                /\ hand'[w].job = hand[w].job
                                /\ hand'[w].compute = hand[w].compute

\* What requests, the stop and the compute service may do to the rest.
Calm ==
  /\ SameHands
  /\ past'.overlapped = past.overlapped
  /\ past'.undone = past.undone
  /\ past'.leaked = past.leaked
  /\ UNCHANGED running \/ shuttingDown'
  /\ shuttingDown => shuttingDown'
  /\ \A j \in Jobs :
       \/ status'[j] = status[j]
       \/ status[j] = "none" /\ status'[j] = "queued"
       \/ /\ status'[j] = "cancelled"
          /\ status[j] \notin {"queued", "preparing"} => j \in past'.late
  /\ Len(compute') = Len(compute)
  /\ \A i \in DOMAIN compute : /\ compute'[i].job = compute[i].job
                               /\ compute'[i].state = "running" => compute[i].state = "running"

LEMMA NextTable ==
  ASSUME Base, [Next]_vars
  PROVE  \/ Calm
         \/ \E w \in Runners : Tick(w)
         \/ \E w \in Runners : Runs(w) /\ UNCHANGED shuttingDown
         \/ Restart
<1>0. TypeOK /\ status \in [Jobs -> Status] /\ compute \in Seq(ComputeJob)
  BY DEF Base, TypeOK
<1>1. ASSUME NEW j \in Jobs, submitJob(j)
      PROVE  Calm
  BY <1>0, <1>1 DEF submitJob, Writes, Calm, SameHands, process
<1>2. ASSUME NEW j \in Jobs, CancelWrite(j)
      PROVE  Calm
  <2>1. /\ \A k \in Jobs : status'[k] = IF k = j THEN "cancelled" ELSE status[k]
        /\ UNCHANGED <<computeJobId, compute, hand, running, shuttingDown>>
        /\ past'.overlapped = past.overlapped /\ past'.undone = past.undone
        /\ past'.leaked = past.leaked
        /\ status[j] \notin {"queued", "preparing"} => j \in past'.late
    BY <1>0, <1>2, CancelEffects DEF Writes
  <2> QED
    BY <2>1 DEF Calm, SameHands
<1>3. CASE (\E j \in Jobs : CancelRead(j)) \/ UNCHANGED vars
  BY <1>0, <1>3 DEF CancelRead, vars, rows, process, Calm, SameHands
<1>4. ASSUME NEW i \in DOMAIN compute, ComputeEnds(i)
      PROVE  Calm
  <2>1. PICK s \in {"completed", "failed"} : compute' = [compute EXCEPT ![i].state = s]
    BY <1>4 DEF ComputeEnds
  <2>2. /\ Grows /\ Len(compute') = Len(compute) /\ compute'[i].state = s
        /\ \A k \in DOMAIN compute : k # i => compute'[k] = compute[k]
    BY <1>0, <1>4, <2>1, SetState DEF ComputeEnds
  <2>3. UNCHANGED <<status, hand, running, shuttingDown, past>>
    BY <1>4 DEF ComputeEnds, rows, process
  <2> QED
    BY <2>2, <2>3 DEF Calm, SameHands, Grows
<1>5. CASE stopWorker
  <2>1. SameHands
    BY <1>0, <1>5 DEF stopWorker, TypeOK, Hand, SameHands
  <2> QED
    BY <1>0, <1>5, <2>1 DEF stopWorker, rows, Calm
<1>6. ASSUME NEW w \in Runners, Steps(w)
      PROVE  Runs(w) /\ UNCHANGED shuttingDown
  BY <1>6, StepTable DEF Runs
<1>7. ASSUME NEW w \in Runners, Throws(w)
      PROVE  Runs(w) /\ UNCHANGED shuttingDown
  BY <1>7, ThrowsTable DEF Runs
<1> QED
  BY <1>1, <1>2, <1>3, <1>4, <1>5, <1>6, <1>7 DEF Next

\* A step of one runner leaves the others as they are.
LEMMA RunsOthers ==
  ASSUME NEW w \in Runners, Runs(w)
  PROVE  Others(w)
BY DEF Runs, Reads, Polls, Marks, Computes, Errs, From, Off, Takes, Moves

-----------------------------------------------------------------------------
(* One job at a time.                                                      *)

Solo == \A v, w \in Runners : hand[v].pc # "idle" /\ hand[w].pc # "idle" => v = w

Entered(w) ==
  hand[w].pc \notin Unlisted \cup {"idle"} => shuttingDown \/ running[hand[w].job] = w

OneInv == past.overlapped \/ (Solo /\ \A w \in Runners : Entered(w))

LEMMA OneNext ==
  ASSUME Base, OneInv, [Next]_vars
  PROVE  OneInv'
<1>0. /\ running \in [Jobs -> Runners \cup {None}]
      /\ \A w \in Runners : hand[w].pc \notin {"idle", "select"} => hand[w].job \in Jobs
  BY DEF Base, TypeOK, HandOK
<1>1. CASE Calm
  BY <1>1 DEF Calm, SameHands, OneInv, Solo, Entered
<1>2. ASSUME NEW w \in Runners, Tick(w)
      PROVE  OneInv'
  <2>1. /\ UNCHANGED <<running, shuttingDown>>
        /\ Takes(w, "select", None, 0) /\ running = Empty /\ ~shuttingDown
        /\ past.overlapped => past'.overlapped
        /\ ~past'.overlapped => \A v \in Runners : hand[v].pc \notin Unlisted
    BY <1>2, TickPast
  <2> SUFFICES ASSUME ~past'.overlapped
               PROVE  OneInv'
    BY DEF OneInv
  <2>2. \A v \in Runners : hand[v].pc = "idle"
    <3> SUFFICES ASSUME NEW v \in Runners, hand[v].pc # "idle"
                 PROVE  FALSE
      OBVIOUS
    <3>1. running[hand[v].job] = v /\ hand[v].job \in Jobs
      BY <1>0, <2>1 DEF OneInv, Entered, Unlisted
    <3> QED
      BY <2>1, <3>1, NoneAssumption DEF Empty
  <2> QED
    BY <2>1, <2>2 DEF OneInv, Solo, Entered, Takes, Others, Unlisted
<1>3. ASSUME NEW w \in Runners, Runs(w), UNCHANGED shuttingDown
      PROVE  OneInv'
  <2>1. past'.overlapped = past.overlapped /\ Others(w)
    BY <1>3, RunnerPast, RunsOthers DEF Runs
  <2> SUFFICES ASSUME ~past.overlapped
               PROVE  Solo' /\ \A v \in Runners : Entered(v)'
    BY <2>1 DEF OneInv
  <2>2. hand[w].pc # "idle"
    BY <1>3 DEF Runs, Reads, Polls, Marks, Computes, Errs, From, Off, Unlisted
  <2>3. \A v \in Runners : v # w => hand[v].pc = "idle" /\ hand'[v].pc = "idle"
    BY <2>1, <2>2 DEF OneInv, Solo, Others
  <2>4. Solo'
    BY <2>3 DEF Solo
  <2>5. Entered(w)
    BY DEF OneInv
  <2>6. Entered(w)'
    <3>1. CASE Reads(w)
      BY <1>0, <1>3, <2>2, <2>5, <3>1 DEF Reads, Off, From, Takes, Moves, Entered, Unlisted
    <3>2. CASE Polls(w)
      BY <1>0, <1>3, <2>2, <2>5, <3>2 DEF Polls, Off, From, Takes, Moves, Entered, Unlisted
    <3>3. CASE Marks(w)
      BY <1>0, <1>3, <2>2, <2>5, <3>3 DEF Marks, Off, From, Takes, Moves, Entered, Unlisted
    <3>4. CASE Computes(w)
      BY <1>0, <1>3, <2>2, <2>5, <3>4 DEF Computes, Off, From, Takes, Moves, Entered, Unlisted
    <3>5. CASE Errs(w)
      BY <1>0, <1>3, <2>2, <2>5, <3>5 DEF Errs, Off, From, Takes, Moves, Entered, Unlisted
    <3> QED
      BY <1>3, <3>1, <3>2, <3>3, <3>4, <3>5 DEF Runs
  <2> QED
    BY <2>3, <2>4, <2>6 DEF Entered
<1>4. CASE Restart
  <2>1. \A w \in Runners : hand'[w].pc = "idle"
    BY <1>4 DEF Restart, Idle
  <2> QED
    BY <2>1 DEF OneInv, Solo, Entered
<1> QED
  BY <1>1, <1>2, <1>3, <1>4, NextTable

LEMMA OneInit == Init => Base /\ OneInv
BY InitBase DEF Init, OneInv, Solo, Entered, Idle

\* The entry of a runner in the map is what keeps the next tick from claiming: as
\* long as no tick begins before the entry is made, one job is worked on at a time.
THEOREM OneJobAtATime == Spec => []OneAtATime
<1>1. Init => Base /\ OneInv
  BY OneInit
<1>2. Base /\ OneInv /\ [Next]_vars => Base' /\ OneInv'
  BY NextBase, OneNext
<1>3. OneInv => OneAtATime
  BY DEF OneInv, Solo, OneAtATime, At
<1> QED
  BY <1>1, <1>2, <1>3, PTL DEF Spec

-----------------------------------------------------------------------------
(* One compute job per job.                                                *)

NoCompute(j) == \A i \in DOMAIN compute : compute[i].job # j

Single == \A i, k \in DOMAIN compute : compute[i].job = compute[k].job => i = k

\* A job that is yet to be claimed has no compute job.
Fresh == \A j \in Jobs : status[j] \in {"none", "queued"} => NoCompute(j)

\* Nor has one that a runner is about to submit.
Ready(w) ==
  /\ hand[w].pc \in {"claim", "begin", "submit"} => NoCompute(hand[w].job)
  /\ hand[w].pc \in {"begin", "submit"} => status[hand[w].job] \notin {"none", "queued"}

CompInv == past.overlapped \/ (Single /\ Fresh /\ \A w \in Runners : Ready(w))

LEMMA CompNext ==
  ASSUME Base, OneInv, CompInv, [Next]_vars
  PROVE  CompInv'
<1>0. /\ status \in [Jobs -> Status] /\ compute \in Seq(ComputeJob)
      /\ \A w \in Runners : hand[w].pc \notin {"idle", "select"} => hand[w].job \in Jobs
  BY DEF Base, TypeOK, HandOK
<1>1. CASE Calm
  <2> SUFFICES ASSUME ~past.overlapped
               PROVE  Single' /\ Fresh' /\ \A w \in Runners : Ready(w)'
    BY <1>1 DEF Calm, CompInv
  <2>1. /\ DOMAIN compute' = DOMAIN compute
        /\ \A i \in DOMAIN compute : compute'[i].job = compute[i].job
    <3>1. compute' \in Seq(ComputeJob)
      BY NextBase DEF Base, TypeOK
    <3> QED
      BY <1>0, <1>1, <3>1 DEF Calm
  <2>2. Single' /\ \A j \in Jobs : NoCompute(j) => NoCompute(j)'
    BY <2>1 DEF CompInv, Single, NoCompute
  <2>3. \A j \in Jobs : status'[j] \in {"none", "queued"} => status[j] \in {"none", "queued"}
    BY <1>1 DEF Calm
  <2>4. \A w \in Runners : hand'[w].pc = hand[w].pc /\ hand'[w].job = hand[w].job
    BY <1>1 DEF Calm, SameHands
  <2> QED
    BY <1>0, <2>2, <2>3, <2>4 DEF CompInv, Fresh, Ready, NoCompute
<1>2. ASSUME NEW w \in Runners, Tick(w)
      PROVE  CompInv'
  <2>1. /\ UNCHANGED <<status, compute>> /\ Takes(w, "select", None, 0)
        /\ past.overlapped => past'.overlapped
    BY <1>2, TickPast
  <2> QED
    BY <2>1 DEF CompInv, Single, Fresh, Ready, NoCompute, Takes, Others
<1>3. ASSUME NEW w \in Runners, Runs(w)
      PROVE  CompInv'
  <2>1. past'.overlapped = past.overlapped /\ Others(w)
    BY <1>3, RunnerPast, RunsOthers DEF Runs
  <2> SUFFICES ASSUME ~past.overlapped
               PROVE  Single' /\ Fresh' /\ \A v \in Runners : Ready(v)'
    BY <2>1 DEF CompInv
  <2>2. hand[w].pc # "idle" /\ Single /\ Fresh /\ Ready(w)
    BY <1>3 DEF CompInv, Runs, Reads, Polls, Marks, Computes, Errs, From, Off, Unlisted
  <2>3. \A v \in Runners : v # w => hand'[v].pc = "idle"
    BY <2>1, <2>2 DEF OneInv, Solo, Others
  <2> SUFFICES Single' /\ Fresh' /\ Ready(w)'
    BY <2>3 DEF Ready
  <2>4. CASE Reads(w)
    <3>1. Ready(w)'
      BY <2>2, <2>4 DEF Reads, Off, From, Takes, Moves, Ready, Fresh, NoCompute, Claimable
    <3> QED
      BY <2>2, <2>4, <3>1 DEF Reads, Single, Fresh, NoCompute
  <2>5. CASE Polls(w)
    <3>1. Ready(w)'
      BY <2>5 DEF Polls, From, Moves, Ready
    <3> QED
      BY <2>2, <2>5, <3>1 DEF Polls, Single, Fresh, NoCompute
  <2>6. CASE Marks(w)
    <3>1. Ready(w)'
      BY <1>0, <2>2, <2>6 DEF Marks, From, Off, Takes, Moves, Writes, Ready, NoCompute
    <3>2. \A j \in Jobs : status'[j] \in {"none", "queued"} => status[j] \in {"none", "queued"}
      BY <2>6, RunnerWrites
    <3> QED
      BY <2>2, <2>6, <3>1, <3>2 DEF Marks, Single, Fresh, NoCompute
  <2>7. CASE Computes(w) /\ Submits(w) /\ hand[w].pc = "submit"
    <3>1. /\ Grows /\ Len(compute') = Len(compute) + 1
          /\ compute'[Len(compute) + 1].job = hand[w].job
      BY <1>0, <2>7, SubmitGrows DEF Base
    <3>2. NoCompute(hand[w].job) /\ status[hand[w].job] \notin {"none", "queued"}
      BY <2>2, <2>7 DEF Ready
    <3>3. \A i \in DOMAIN compute' :
            \/ i = Len(compute) + 1
            \/ i \in DOMAIN compute /\ compute'[i].job = compute[i].job
      BY <1>0, <3>1 DEF Grows
    <3>4. Single'
      BY <2>2, <3>1, <3>2, <3>3 DEF Single, NoCompute
    <3>5. Fresh'
      BY <2>2, <2>7, <3>1, <3>2, <3>3 DEF Computes, Fresh, NoCompute
    <3>6. Ready(w)'
      BY <2>7 DEF Computes, Off, Takes, Ready
    <3> QED
      BY <3>4, <3>5, <3>6
  <2>8. CASE Computes(w) /\ Off(w, "release") /\ releaseCompute(w)
    <3>1. Grows /\ Len(compute') = Len(compute)
      BY <2>8, ReleaseGrows
    <3>2. /\ DOMAIN compute' = DOMAIN compute
          /\ \A i \in DOMAIN compute : compute'[i].job = compute[i].job
      BY <1>0, <3>1 DEF Grows
    <3>3. Ready(w)'
      BY <2>8 DEF Off, Takes, Ready
    <3> QED
      BY <2>2, <2>8, <3>2, <3>3 DEF Computes, Single, Fresh, NoCompute
  <2>9. CASE Errs(w)
    <3>1. Ready(w)'
      BY <2>9 DEF Errs, Off, From, Takes, Moves, Ready
    <3> QED
      BY <2>2, <2>9, <3>1 DEF Errs, Single, Fresh, NoCompute
  <2> QED
    BY <1>3, <2>4, <2>5, <2>6, <2>7, <2>8, <2>9 DEF Runs, Computes
<1>4. CASE Restart
  <2>1. /\ \A w \in Runners : hand'[w].pc = "idle"
        /\ past'.overlapped = past.overlapped
        /\ UNCHANGED <<status, compute>>
    BY <1>4 DEF Restart, Idle, Base, TypeOK, Past, rows
  <2> QED
    BY <2>1 DEF CompInv, Single, Fresh, Ready, NoCompute
<1> QED
  BY <1>1, <1>2, <1>3, <1>4, NextTable

LEMMA CompInit == Init => CompInv
BY DEF Init, CompInv, Single, Fresh, Ready, NoCompute, Idle

\* Compute is paid for once per job, whatever fails, stops or crashes in between:
\* a row leaves "queued" before its compute job is asked for and never comes back.
THEOREM OneComputeEach == Spec => []OneComputeJob
<1>1. Init => Base /\ OneInv /\ CompInv
  BY OneInit, CompInit
<1>2. Base /\ OneInv /\ CompInv /\ [Next]_vars => Base' /\ OneInv' /\ CompInv'
  BY NextBase, OneNext, CompNext
<1>3. CompInv => OneComputeJob
  BY DEF CompInv, Single, OneComputeJob
<1> QED
  BY <1>1, <1>2, <1>3, PTL DEF Spec

-----------------------------------------------------------------------------
(* An outcome that stays.                                                  *)

Undecided == {"claim", "begin", "submit", "store", "check", "mark", "poll", "sleep", "ask",
              "release", "succeed", "report"}

Open(w) ==
  /\ hand[w].pc \in Undecided => status[hand[w].job] \notin {"succeeded", "failed"}
  /\ hand[w].pc = "fail" => \/ status[hand[w].job] # "succeeded"
                            \/ hand[w].job \in past.undone

OutInv == past.overlapped \/ \A w \in Runners : Open(w)

Kept ==
  \A j \in Jobs : status[j] \in {"succeeded", "failed"} /\ ~past'.overlapped =>
    status'[j] = status[j] \/ j \in past'.late \cup past'.undone

LEMMA OutNext ==
  ASSUME Base, OneInv, OutInv, [Next]_vars
  PROVE  OutInv' /\ Kept
<1>0. /\ status \in [Jobs -> Status] /\ past \in Past
      /\ \A w \in Runners : hand[w].pc \notin {"idle", "select"} => hand[w].job \in Jobs
  BY DEF Base, TypeOK, HandOK
<1>1. CASE Calm
  <2>1. Kept
    BY <1>1 DEF Calm, Kept
  <2>2. \A w \in Runners : hand'[w].pc = hand[w].pc /\ hand'[w].job = hand[w].job
    BY <1>1 DEF Calm, SameHands
  <2>3. /\ \A j \in Jobs : status'[j] \in {"succeeded", "failed"} => status'[j] = status[j]
        /\ past'.undone = past.undone /\ past'.overlapped = past.overlapped
    BY <1>1 DEF Calm
  <2>4. OutInv'
    BY <1>0, <2>2, <2>3 DEF OutInv, Open, Undecided
  <2> QED
    BY <2>1, <2>4
<1>2. ASSUME NEW w \in Runners, Tick(w)
      PROVE  OutInv' /\ Kept
  <2>1. /\ UNCHANGED status /\ Takes(w, "select", None, 0)
        /\ past'.undone = past.undone
        /\ past.overlapped => past'.overlapped
    BY <1>2, TickPast
  <2> QED
    BY <2>1, <1>2, TickPast DEF OutInv, Open, Undecided, Takes, Others, Kept
<1>3. ASSUME NEW w \in Runners, Runs(w)
      PROVE  OutInv' /\ Kept
  <2>1. /\ past'.overlapped = past.overlapped /\ Others(w)
        /\ past.undone \subseteq past'.undone
    BY <1>3, RunnerPast, RunsOthers DEF Runs
  <2> SUFFICES ASSUME ~past.overlapped
               PROVE  OutInv' /\ Kept
    BY <2>1 DEF OutInv, Kept
  <2>2. hand[w].pc # "idle" /\ Open(w)
    BY <1>3 DEF OutInv, Runs, Reads, Polls, Marks, Computes, Errs, From, Off, Unlisted
  <2>3. \A v \in Runners : v # w => hand'[v].pc = "idle"
    BY <2>1, <2>2 DEF OneInv, Solo, Others
  <2>4. \A v \in Runners : v # w => Open(v)'
    BY <2>3 DEF Open, Undecided
  <2> SUFFICES Open(w)' /\ Kept
    BY <2>4 DEF OutInv
  <2>5. CASE Reads(w)
    <3>1. Open(w)'
      BY <2>1, <2>2, <2>5 DEF Reads, Off, From, Takes, Moves, Open, Undecided, Claimable
    <3> QED
      BY <2>5, <3>1 DEF Reads, Kept
  <2>6. CASE Polls(w)
    <3>1. Open(w)'
      BY <2>2, <2>6 DEF Polls, From, Moves, Open, Undecided
    <3> QED
      BY <2>6, <3>1 DEF Polls, Kept
  <2>7. CASE Marks(w)
    <3>1. Open(w)'
      BY <1>0, <2>2, <2>7 DEF Marks, From, Off, Takes, Moves, Writes, Open, Undecided
    <3>2. Kept
      <4> SUFFICES ASSUME NEW j \in Jobs, status[j] \in {"succeeded", "failed"},
                          status'[j] # status[j]
                   PROVE  j \in past'.undone
        BY DEF Kept
      <4>1. j = hand[w].job /\ hand[w].pc = "fail" /\ status'[j] = "failed"
        BY <2>2, <2>7, RunnerWrites DEF Open, Undecided
      <4> QED
        BY <2>1, <2>2, <4>1 DEF Open
    <3> QED
      BY <3>1, <3>2
  <2>8. CASE Computes(w)
    <3>1. Open(w)'
      BY <2>2, <2>8 DEF Computes, Off, Takes, Open, Undecided
    <3> QED
      BY <2>8, <3>1 DEF Computes, Kept
  <2>9. CASE Errs(w)
    <3>1. hand[w].pc = "publish" /\ hand'[w].pc = "fail" => hand[w].job \in past'.undone
      BY <1>0, <2>9 DEF Errs, Off, From, Past
    <3>2. /\ hand'[w].pc \in {"idle", "fail"} /\ UNCHANGED status
          /\ hand'[w].pc = "fail" => hand'[w].job = hand[w].job
      BY <2>9 DEF Errs, Off, From, Takes, Moves
    <3>3. hand'[w].pc = "fail" => hand[w].pc \in Undecided \cup {"publish"}
      <4>1. hand[w].pc \in Pcs
        BY DEF Base, TypeOK, Hand, Pcs
      <4> QED
        BY <2>9, <4>1 DEF Errs, Off, From, Takes, Moves, Undecided, Pcs, Unlisted
    <3>4. Open(w)'
      BY <2>2, <3>1, <3>2, <3>3 DEF Open, Undecided
    <3> QED
      BY <3>2, <3>4 DEF Kept
  <2> QED
    BY <1>3, <2>5, <2>6, <2>7, <2>8, <2>9 DEF Runs
<1>4. CASE Restart
  <2>1. /\ \A w \in Runners : hand'[w].pc = "idle"
        /\ UNCHANGED status
    BY <1>4 DEF Restart, Idle, rows
  <2> QED
    BY <2>1 DEF OutInv, Open, Undecided, Kept
<1> QED
  BY <1>1, <1>2, <1>3, <1>4, NextTable

\* An outcome is overwritten only by a late cancel, by an error after success, or by
\* a second runner of the job: whatever else fails, stops or starts again.
THEOREM OutcomesStay == Spec => OutcomeStays
<1>1. Init => Base /\ OneInv /\ OutInv
  BY OneInit DEF Init, OutInv, Open, Undecided, Idle
<1>2. Base /\ OneInv /\ OutInv /\ [Next]_vars => Base' /\ OneInv' /\ OutInv'
  BY NextBase, OneNext, OutNext
<1>3. Base /\ OneInv /\ OutInv /\ [Next]_vars =>
        [\A j \in Jobs : status[j] \in {"succeeded", "failed"} /\ ~past'.overlapped =>
            status'[j] = status[j] \/ j \in past'.late \cup past'.undone]_vars
  BY OutNext DEF Kept
<1> QED
  BY <1>1, <1>2, <1>3, PTL DEF Spec, OutcomeStays

-----------------------------------------------------------------------------
(* No compute job is forgotten.                                            *)

\* Where a runner is done with its compute job.
Closing == {"succeed", "publish", "report", "fail"}

Over(j) == \A i \in DOMAIN compute : compute[i].job = j => compute[i].state # "running"

Held(j) == \E w \in Runners : hand[w].job = j

Watched ==
  \A i \in DOMAIN compute : compute[i].state = "running" =>
    Held(compute[i].job) \/ compute[i].job \in past.leaked

Closed(w) ==
  hand[w].pc \in Closing => Over(hand[w].job) \/ hand[w].job \in past.leaked

RelInv == past.overlapped \/ (Watched /\ \A w \in Runners : Closed(w))

\* A runner that leaves its job has ended, or is known to have left, the compute job.
LEMMA LeftOver ==
  ASSUME Base, OneInv, CompInv, RelInv, ~past.overlapped, NEW w \in Runners,
         Runs(w), NEW j \in Jobs, j = hand[w].job, hand'[w].job # j
  PROVE  Over(j)' \/ j \in past'.leaked
<1>0. /\ past \in Past /\ HandOK(w) /\ Ready(w) /\ Closed(w) /\ Single
      /\ compute \in Seq(ComputeJob)
  BY DEF Base, TypeOK, CompInv, RelInv
<1>1. /\ past.leaked \subseteq past'.leaked
      /\ hand[w].pc \in Closing => Over(j) \/ j \in past.leaked
      /\ UNCHANGED compute => (Over(j) => Over(j)')
  BY <1>0, RunnerPast DEF Runs, Closed, Over
<1>2. CASE Reads(w)
  <2>0. hand[w].pc # "select"
    BY <1>0, NoneAssumption DEF HandOK
  <2>1. hand[w].pc = "publish" \/ Leaks(w)
    BY <2>0, <1>2 DEF Reads, Off, From, Takes, Moves, HandOK
  <2>2. CASE Leaks(w)
    BY <1>0, <2>2 DEF Leaks, Past
  <2> QED
    BY <1>1, <1>2, <2>1, <2>2 DEF Reads, Closing
<1>3. CASE Polls(w)
  BY <1>3 DEF Polls, From, Moves
<1>4. CASE Marks(w)
  <2>1. hand[w].pc \in {"report", "fail"} /\ UNCHANGED compute
    BY <1>4 DEF Marks, From, Off, Takes, Moves
  <2> QED
    BY <1>1, <2>1 DEF Closing
<1>5. CASE Computes(w)
  <2>1. hand[w].pc = "release" /\ releaseCompute(w)
    BY <1>5 DEF Computes, Off, Takes
  <2>2. /\ Grows /\ Len(compute') = Len(compute)
        /\ compute'[hand[w].compute].state # "running"
    BY <2>1, ReleaseGrows
  <2>3. /\ hand[w].compute \in DOMAIN compute
        /\ compute[hand[w].compute].job = hand[w].job
    BY <1>0, <2>1 DEF HandOK, Knows
  <2>4. \A i \in DOMAIN compute' : i \in DOMAIN compute /\ compute'[i].job = compute[i].job
    BY <1>0, <2>2 DEF Grows
  <2>5. \A i \in DOMAIN compute' : compute'[i].job = j => i = hand[w].compute
    BY <1>0, <2>3, <2>4 DEF Single
  <2> QED
    BY <2>2, <2>5 DEF Over
<1>6. CASE Errs(w)
  <2>1. UNCHANGED compute
    BY <1>6 DEF Errs
  <2>2. hand[w].pc \in {"claim", "begin", "fail"} \/ Leaks(w)
    BY <1>0, <1>6 DEF Errs, Off, From, Takes, Moves, HandOK
  <2>3. CASE Leaks(w)
    BY <1>0, <2>3 DEF Leaks, Past
  <2>4. hand[w].pc \in {"claim", "begin"} => Over(j)
    BY <1>0 DEF Ready, NoCompute, Over
  <2> QED
    BY <1>1, <2>1, <2>2, <2>3, <2>4 DEF Closing
<1> QED
  BY <1>2, <1>3, <1>4, <1>5, <1>6 DEF Runs

\* A runner that keeps its job and comes to its end.
LEMMA ClosedKept ==
  ASSUME Base, OneInv, CompInv, RelInv, ~past.overlapped, NEW w \in Runners, Runs(w)
  PROVE  Closed(w)'
<1>0. /\ past \in Past /\ HandOK(w) /\ Ready(w) /\ Closed(w) /\ Single
      /\ compute \in Seq(ComputeJob)
  BY DEF Base, TypeOK, CompInv, RelInv
<1>1. past.leaked \subseteq past'.leaked
  BY RunnerPast DEF Runs
<1>2. CASE Reads(w)
  <2>1. hand'[w].pc \in Closing => hand'[w].job = hand[w].job /\ Leaks(w)
    BY <1>2 DEF Reads, Off, From, Takes, Moves, Closing
  <2>2. Leaks(w) /\ hand[w].pc \in {"check", "sleep"} => hand[w].job \in past'.leaked
    BY <1>0, NoneAssumption DEF Leaks, Past, HandOK
  <2>3. hand'[w].pc \in Closing => hand[w].pc \in {"check", "sleep"}
    BY <1>2 DEF Reads, Off, From, Takes, Moves, Closing
  <2> QED
    BY <2>1, <2>2, <2>3 DEF Closed
<1>3. CASE Polls(w)
  <2> SUFFICES ASSUME hand'[w].pc \in Closing
               PROVE  Over(hand[w].job)
    BY <1>3 DEF Polls, From, Moves, Closed, Over
  <2>1. hand[w].pc = "ask" /\ compute[hand[w].compute].state # "running"
    BY <1>3 DEF Polls, From, Moves, Closing
  <2> QED
    BY <1>0, <2>1 DEF HandOK, Knows, Over, Single
<1>4. CASE Marks(w)
  BY <1>0, <1>4 DEF Marks, From, Off, Takes, Moves, Closed, Closing, Over
<1>5. CASE Computes(w)
  BY <1>5 DEF Computes, Off, Takes, Closed, Closing
<1>6. CASE Errs(w)
  <2> SUFFICES ASSUME hand'[w].pc \in Closing
               PROVE  Over(hand[w].job) \/ hand[w].job \in past'.leaked
    <3>1. UNCHANGED compute /\ (hand'[w].pc \in Closing => hand'[w].job = hand[w].job)
      BY <1>6 DEF Errs, From, Off, Takes, Moves, Closing
    <3> QED
      BY <3>1 DEF Closed, Over
  <2>1. \/ hand[w].pc = "begin"
        \/ past' = [past EXCEPT !.leaked = @ \cup {hand[w].job},
                                !.undone = IF hand[w].pc = "publish" THEN @ \cup {hand[w].job}
                                           ELSE @]
    BY <1>6 DEF Errs, From, Off, Takes, Moves, Closing
  <2>2. CASE hand[w].pc = "begin"
    BY <1>0, <2>2 DEF Ready, NoCompute, Over
  <2>3. CASE past' = [past EXCEPT !.leaked = @ \cup {hand[w].job},
                          !.undone = IF hand[w].pc = "publish" THEN @ \cup {hand[w].job}
                                     ELSE @]
    BY <1>0, <2>3 DEF Past
  <2> QED
    BY <2>1, <2>2, <2>3
<1> QED
  BY <1>2, <1>3, <1>4, <1>5, <1>6 DEF Runs

LEMMA RelNext ==
  ASSUME Base, OneInv, CompInv, RelInv, [Next]_vars
  PROVE  RelInv'
<1>0. /\ past \in Past /\ past' \in Past
      /\ compute \in Seq(ComputeJob) /\ compute' \in Seq(ComputeJob)
      /\ \A w \in Runners : hand[w].pc \in {"idle", "select"} => hand[w].job = None
  BY NextBase DEF Base, TypeOK, HandOK
<1>1. CASE Calm
  <2>1. /\ past'.leaked = past.leaked /\ past'.overlapped = past.overlapped
        /\ \A w \in Runners : hand'[w].pc = hand[w].pc /\ hand'[w].job = hand[w].job
    BY <1>1 DEF Calm, SameHands
  <2>2. \A i \in DOMAIN compute' :
          /\ i \in DOMAIN compute /\ compute'[i].job = compute[i].job
          /\ compute'[i].state = "running" => compute[i].state = "running"
    BY <1>0, <1>1 DEF Calm
  <2> QED
    BY <2>1, <2>2 DEF RelInv, Watched, Held, Closed, Over
<1>2. ASSUME NEW w \in Runners, Tick(w)
      PROVE  RelInv'
  <2>1. /\ UNCHANGED compute /\ Takes(w, "select", None, 0) /\ hand[w].pc = "idle"
        /\ past'.leaked = past.leaked
        /\ past.overlapped => past'.overlapped
    BY <1>2, TickPast
  <2>2. /\ hand'[w].job = hand[w].job /\ hand'[w].pc \notin Closing
        /\ \A v \in Runners : v # w => hand'[v] = hand[v]
    BY <1>0, <2>1 DEF Takes, Others, Closing
  <2> QED
    BY <2>1, <2>2 DEF RelInv, Watched, Held, Closed, Over
<1>3. ASSUME NEW w \in Runners, Runs(w)
      PROVE  RelInv'
  <2>1. /\ past'.overlapped = past.overlapped /\ Others(w)
        /\ past.leaked \subseteq past'.leaked
    BY <1>3, RunnerPast, RunsOthers DEF Runs
  <2> SUFFICES ASSUME ~past.overlapped
               PROVE  Watched' /\ \A v \in Runners : Closed(v)'
    BY <2>1 DEF RelInv
  <2>2. hand[w].pc # "idle"
    BY <1>3 DEF Runs, Reads, Polls, Marks, Computes, Errs, From, Off, Unlisted
  <2>3. \A v \in Runners : v # w => hand'[v].pc = "idle"
    BY <2>1, <2>2 DEF OneInv, Solo, Others
  <2>4. \A v \in Runners : Closed(v)'
    <3>1. Closed(w)'
      BY <1>3, ClosedKept
    <3> QED
      BY <2>3, <3>1 DEF Closed, Closing
  <2>5. ASSUME NEW i \in DOMAIN compute', compute'[i].state = "running",
               NEW j \in Jobs, j = compute'[i].job
        PROVE  Held(j)' \/ j \in past'.leaked
    <3>1. CASE hand'[w].job = j
      BY <3>1 DEF Held
    <3>2. CASE hand'[w].job # j
      <4>1. /\ i \in DOMAIN compute /\ compute[i].job = j
            /\ compute[i].state = "running"
        <5>1. CASE UNCHANGED compute
          BY <2>5, <5>1
        <5>2. CASE releaseCompute(w)
          <6>1. /\ Grows /\ Len(compute') = Len(compute)
                /\ compute'[hand[w].compute].state # "running"
                /\ \A k \in DOMAIN compute : k # hand[w].compute => compute'[k] = compute[k]
            BY <5>2, ReleaseGrows
          <6> QED
            BY <1>0, <2>5, <6>1
        <5>3. CASE /\ Submits(w) /\ hand[w].pc = "submit"
                   /\ Takes(w, "store", hand[w].job, Len(compute) + 1)
          <6>1. hand'[w].job = hand[w].job /\ hand[w].job \in Jobs
            BY <5>3 DEF Takes, Base, HandOK
          <6>2. compute' = Append(compute, [job |-> hand[w].job, state |-> "running"])
            BY <5>3 DEF Submits
          <6>3. \/ i = Len(compute) + 1 /\ compute'[i].job = hand[w].job
                \/ i \in DOMAIN compute /\ compute'[i] = compute[i]
            BY <1>0, <6>2
          <6> QED
            BY <2>5, <3>2, <6>1, <6>3
        <5> QED
          BY <1>3, <5>1, <5>2, <5>3 DEF Runs, Reads, Polls, Marks, Computes, Errs
      <4>2. Held(j) \/ j \in past.leaked
        BY <4>1 DEF RelInv, Watched
      <4>3. CASE j = hand[w].job
        BY <1>3, <2>5, <3>2, <4>3, LeftOver DEF Over
      <4>4. CASE j # hand[w].job
        BY <2>1, <4>2, <4>4 DEF Held, Others
      <4> QED
        BY <4>3, <4>4
    <3> QED
      BY <3>1, <3>2
  <2>6. Watched'
    <3>1. ASSUME NEW i \in DOMAIN compute'
          PROVE  compute'[i].job \in Jobs
      <4>1. compute'[i] \in ComputeJob
        BY <1>0
      <4> QED
        BY <4>1 DEF ComputeJob
    <3> QED
      BY <2>5, <3>1 DEF Watched, Held
  <2> QED
    BY <2>4, <2>6
<1>4. CASE Restart
  <2>1. /\ \A w \in Runners : hand'[w].pc = "idle"
        /\ past'.overlapped = past.overlapped
        /\ past'.leaked = past.leaked \cup InHand
        /\ UNCHANGED compute
    <3>1. /\ hand' = [w \in Runners |-> Idle] /\ UNCHANGED compute
          /\ past' = [past EXCEPT !.stranded = @ \cup InHand, !.leaked = @ \cup InHand]
      BY <1>4 DEF Restart
    <3>2. past'.overlapped = past.overlapped /\ past'.leaked = past.leaked \cup InHand
      BY <1>0, <3>1 DEF Past
    <3> QED
      BY <3>1, <3>2 DEF Idle
  <2>2. \A j \in Jobs : Held(j) => j \in InHand
    BY DEF Held, InHand, Holding
  <2>3. ASSUME NEW i \in DOMAIN compute
        PROVE  compute[i].job \in Jobs
    <3>1. compute[i] \in ComputeJob
      BY <1>0
    <3> QED
      BY <3>1 DEF ComputeJob
  <2> QED
    BY <2>1, <2>2, <2>3 DEF RelInv, Watched, Closed, Closing
<1> QED
  BY <1>1, <1>2, <1>3, <1>4, NextTable

LEMMA RelInit == Init => RelInv
BY DEF Init, RelInv, Watched, Closed, Closing, Idle

\* A running compute job is in a runner's hands, or the runner was cut off or ended
\* without releasing it.
THEOREM NoComputeForgotten == Spec => []ComputeReleased
<1>1. Init => Base /\ OneInv /\ CompInv /\ RelInv
  BY OneInit, CompInit, RelInit
<1>2. Base /\ OneInv /\ CompInv /\ RelInv /\ [Next]_vars =>
        Base' /\ OneInv' /\ CompInv' /\ RelInv'
  BY NextBase, OneNext, CompNext, RelNext
<1>3. RelInv => ComputeReleased
  BY DEF RelInv, Watched, Held, ComputeReleased, Holding
<1> QED
  BY <1>1, <1>2, <1>3, PTL DEF Spec

=============================================================================
