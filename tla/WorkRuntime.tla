----------------------------- MODULE WorkRuntime -----------------------------
(***************************************************************************)
(* The Phase 27 Work Runtime (services/work): work items are queued, a     *)
(* scheduler tick leases them to workers, workers answer, a verifier       *)
(* compares the answers and an accountant bills the payer.                 *)
(*                                                                         *)
(* The service is a single Node.js process over PostgreSQL and opens no    *)
(* transaction, so one SQL statement is one atomic step and everything     *)
(* else interleaves between two awaits: each timer tick, each HTTP request *)
(* and each billing is a process with a program counter and the local      *)
(* variables it carries from one statement to the next.  Statements that   *)
(* only write the activity log are left out, except the one billing reads  *)
(* back.                                                                   *)
(***************************************************************************)
EXTENDS Integers, FiniteSets

CONSTANTS
  Items,      \* the work items clients may submit
  Workers,    \* the workers that may register
  Hashes,     \* the payload hashes workers may answer with
  Rows,       \* the rows of work_results in use at once (a bound)
  Ticks,      \* timer callbacks in flight; setInterval does not await them
  Handlers,   \* HTTP requests in flight
  Billers,    \* billings in flight at once (a bound)
  None,       \* the SQL NULL
  Replicas,   \* [Items -> Nat]: verification.replicas of each item
  Fits,       \* the <<item, worker>> pairs that match in algorithm, cpu, memory, gpu
  Local,      \* the workers whose location is "local"
  Cap,        \* WORKER_DEFAULT_CONCURRENCY_CAP
  InitRep,    \* reputation of a new worker, in tenths
  RepFloor,   \* REPUTATION_FLOOR, in tenths
  Decay,      \* REPUTATION_DECAY_MALICIOUS, in tenths
  MaxAssign,  \* schedulerTick's maxAssign
  Ops,        \* the routes the environment calls (a bound)
  MaxAnswers, \* submitted rows of one item beyond which no answer arrives (a bound)
  MaxFaults   \* crashes, failed statements and lost replies (a bound)

ASSUME SetsAssumption ==
  /\ IsFiniteSet(Rows) /\ IsFiniteSet(Ticks) /\ IsFiniteSet(Items) /\ IsFiniteSet(Billers)
  /\ Ticks # {}
  /\ None \notin Items \cup Workers \cup Hashes \cup Rows
ASSUME ReplicasAssumption == Replicas \in [Items -> Nat \ {0}]
ASSUME NumbersAssumption ==
  /\ Cap \in Nat /\ InitRep \in Nat /\ RepFloor \in Nat /\ Decay \in Nat
  /\ MaxAssign \in Nat \ {0} /\ MaxAnswers \in Nat /\ MaxFaults \in Nat

VARIABLES
  item,    \* work_items
  worker,  \* workers
  result,  \* work_results: one row per claim
  audit,   \* work_audit: the items with a "work.billing.emitted" row
  tick,    \* the timer callbacks
  hand,    \* the request handlers
  bill,    \* the billings, which no request awaits
  overlaps, \* a history: billings of each item that began beside another of it
  ledger,  \* usage events the billing service has accepted (external)
  faults

vars == <<item, worker, result, audit, tick, hand, bill, overlaps, ledger, faults>>

-----------------------------------------------------------------------------
ItemStatus   == {"none", "queued", "running", "verified", "failed", "disputed"}
WorkerStatus == {"none", "active", "suspended", "offline"}
Reputation   == 0 .. InitRep

ItemRow   == [status: ItemStatus, hash: Hashes \cup {None},
              by: Workers \cup {None}, age: Nat]
WorkerRow == [status: WorkerStatus, rep: Reputation,
              beat: {"never", "fresh", "stale"}]
ResultRow == [status: {"free", "claimed", "submitted", "expired"},
              work: Items \cup {None}, by: Workers \cup {None},
              hash: Hashes \cup {None}, lease: {"live", "lapsed"},
              via: {"tick", "manual"}]
TickProc  == [pc: {"idle", "requeue", "reckon", "punish", "list", "look",
                   "pick", "claim", "run", "sweep"},
              todo: SUBSET Rows, row: Rows \cup {None},
              list: SUBSET Items, work: Items \cup {None},
              seen: SUBSET [by: Workers, rep: Reputation],
              by: Workers \cup {None}, rep: Reputation, stat: WorkerStatus]
HandProc  == [pc: {"idle", "store", "count", "primary", "verify", "reckon",
                   "punish", "dispute", "cancel", "beat", "extend", "claim", "run"},
              work: Items \cup {None}, by: Workers \cup {None},
              row: Rows \cup {None}, hash: Hashes \cup {None},
              todo: SUBSET Rows, rep: Reputation, stat: WorkerStatus]
BillProc  == [pc: {"idle", "item", "audit", "post", "log"}, work: Items \cup {None}]

TypeOK ==
  /\ item \in [Items -> ItemRow]
  /\ worker \in [Workers -> WorkerRow]
  /\ result \in [Rows -> ResultRow]
  /\ audit \in [Items -> BOOLEAN]
  /\ tick \in [Ticks -> TickProc]
  /\ hand \in [Handlers -> HandProc]
  /\ bill \in [Billers -> BillProc]
  /\ overlaps \in [Items -> Nat]
  /\ ledger \in [Items -> Nat]
  /\ faults \in Nat

IdleTick == [pc |-> "idle", todo |-> {}, row |-> None, list |-> {},
             work |-> None, seen |-> {}, by |-> None, rep |-> 0, stat |-> "none"]
IdleHand == [pc |-> "idle", work |-> None, by |-> None, row |-> None,
             hash |-> None, todo |-> {}, rep |-> 0, stat |-> "none"]
IdleBill == [pc |-> "idle", work |-> None]

Init ==
  /\ item = [i \in Items |-> [status |-> "none", hash |-> None, by |-> None, age |-> 0]]
  /\ worker = [w \in Workers |-> [status |-> "none", rep |-> InitRep, beat |-> "never"]]
  /\ result = [r \in Rows |-> [status |-> "free", work |-> None, by |-> None,
                               hash |-> None, lease |-> "live", via |-> "tick"]]
  /\ audit = [i \in Items |-> FALSE]
  /\ tick = [t \in Ticks |-> IdleTick]
  /\ hand = [h \in Handlers |-> IdleHand]
  /\ bill = [b \in Billers |-> IdleBill]
  /\ overlaps = [i \in Items |-> 0]
  /\ ledger = [i \in Items |-> 0]
  /\ faults = 0

-----------------------------------------------------------------------------
(* Queries.                                                                *)

RowsIn(s)    == {r \in Rows : result[r].status = s}
Claimed(i)   == {r \in RowsIn("claimed") : result[r].work = i}
Submitted(i) == {r \in RowsIn("submitted") : result[r].work = i}
Claims(w)    == {r \in RowsIn("claimed") : result[r].by = w}

\* An expired row is read by no query: once no process holds its id it can
\* stand for a new one.
Spare == {r \in RowsIn("free") \cup RowsIn("expired") :
            /\ \A t \in Ticks : r \notin tick[t].todo
            /\ \A h \in Handlers : r # hand[h].row}

\* What assignItemToWorker inserts.
ClaimRow(i, w, via) ==
  /\ Spare # {}
  /\ result' = [result EXCEPT ![CHOOSE r \in Spare : TRUE] =
                  [status |-> "claimed", work |-> i, by |-> w, hash |-> None,
                   lease |-> "live", via |-> via]]

\* Mutants of Penalise: the Math.max(0, ...) is missing; the value wraps.
PenaliseUnclamped(w, rep, stat) ==
  worker' = [worker EXCEPT ![w].rep = rep - Decay,
                           ![w].status = IF rep - Decay < RepFloor THEN "suspended" ELSE stat]
PenaliseWraps(w, rep, stat) ==
  worker' = [worker EXCEPT ![w].rep = IF rep >= Decay THEN rep - Decay ELSE InitRep,
                           ![w].status = "suspended"]

\* The reputation update of the lease sweep and of the verifier: an absolute
\* value computed from a row read earlier.
Penalise(w, rep, stat) ==
  LET new == IF rep > Decay THEN rep - Decay ELSE 0
  IN  worker' = [worker EXCEPT ![w].rep = new,
                               ![w].status = IF new < RepFloor THEN "suspended" ELSE stat]

-----------------------------------------------------------------------------
(* The assignment loop: schedulerTick, then markStaleWorkersOffline.       *)

TickAt(t, pc) == tick[t].pc = pc
TickGoes(t, rec) == tick' = [tick EXCEPT ![t] = rec]

\* Mutants of Lapsed: the status filter is missing; workers still active are spared.
LapsedAnyStatus == {r \in Rows : result[r].lease = "lapsed"}
LapsedOfInactive == {r \in RowsIn("claimed") :
                       result[r].lease = "lapsed" /\ worker[result[r].by].status # "active"}

Lapsed == {r \in RowsIn("claimed") : result[r].lease = "lapsed"}

\* UPDATE ... SET expired WHERE claimed AND lease in the past, RETURNING.
TickExpire(t) ==
  /\ TickAt(t, "idle")
  /\ result' = [r \in Rows |-> IF r \in Lapsed THEN [result[r] EXCEPT !.status = "expired"]
                                              ELSE result[r]]
  /\ TickGoes(t, [IdleTick EXCEPT !.pc = IF Lapsed = {} THEN "list" ELSE "requeue",
                                  !.todo = Lapsed])
  /\ UNCHANGED <<item, worker, audit, hand, bill, overlaps, ledger, faults>>

TickRequeue(t) ==
  /\ TickAt(t, "requeue")
  /\ \E r \in tick[t].todo :
       /\ item' = IF item[result[r].work].status = "running"
                  THEN [item EXCEPT ![result[r].work].status = "queued"]
                  ELSE item
       /\ TickGoes(t, [tick[t] EXCEPT !.pc = "reckon", !.row = r])
  /\ UNCHANGED <<worker, result, audit, hand, bill, overlaps, ledger, faults>>

TickReckon(t) ==
  /\ TickAt(t, "reckon")
  /\ LET w == result[tick[t].row].by
     IN  TickGoes(t, [tick[t] EXCEPT !.pc = "punish", !.by = w, !.rep = worker[w].rep,
                                     !.stat = worker[w].status])
  /\ UNCHANGED <<item, worker, result, audit, hand, bill, overlaps, ledger, faults>>

\* Mutant of TickPunish: the loop ends after its first row.
TickPunishOnce(t) ==
  /\ TickAt(t, "punish")
  /\ Penalise(tick[t].by, tick[t].rep, tick[t].stat)
  /\ TickGoes(t, [IdleTick EXCEPT !.pc = "list"])
  /\ UNCHANGED <<item, result, audit, hand, bill, overlaps, ledger, faults>>

TickPunish(t) ==
  /\ TickAt(t, "punish")
  /\ Penalise(tick[t].by, tick[t].rep, tick[t].stat)
  /\ LET rest == tick[t].todo \ {tick[t].row}
     IN  TickGoes(t, [IdleTick EXCEPT !.pc = IF rest = {} THEN "list" ELSE "requeue",
                                      !.todo = rest])
  /\ UNCHANGED <<item, result, audit, hand, bill, overlaps, ledger, faults>>

\* The queued items, oldest first, at most MaxAssign of them.
Older(i, j) == item[i].age < item[j].age

\* Mutant of OldestQueued: running items are listed too.
OldestOpen == {i \in Items : item[i].status \in {"queued", "running"}}

OldestQueued ==
  LET queued == {i \in Items : item[i].status = "queued"}
  IN  {i \in queued : Cardinality({j \in queued : Older(j, i)}) < MaxAssign}

TickList(t) ==
  /\ TickAt(t, "list")
  /\ TickGoes(t, [IdleTick EXCEPT !.pc = IF OldestQueued = {} THEN "sweep" ELSE "look",
                                  !.list = OldestQueued])
  /\ UNCHANGED <<item, worker, result, audit, hand, bill, overlaps, ledger, faults>>

\* pickWorkerFor reads the active workers first ...
TickLook(t) ==
  /\ TickAt(t, "look")
  /\ \E i \in tick[t].list :
       /\ \A j \in tick[t].list \ {i} : Older(i, j)
       /\ TickGoes(t, [tick[t] EXCEPT !.pc = "pick", !.work = i,
            !.seen = {[by |-> w, rep |-> worker[w].rep] :
                        w \in {v \in Workers : /\ worker[v].status = "active"
                                               /\ worker[v].rep >= RepFloor
                                               /\ <<i, v>> \in Fits}}])
  /\ UNCHANGED <<item, worker, result, audit, hand, bill, overlaps, ledger, faults>>

\* Mutants of HasRoom: off by one, up and down.
HasRoomLoose(w) == Cardinality(Claims(w)) <= Cap
HasRoomTight(w) == Cardinality(Claims(w)) + 1 < Cap

HasRoom(w) == Cardinality(Claims(w)) < Cap

\* ... and counts their claims next; the score is in halves of a point.
Score(c) == 2 * c.rep - 5 * Cardinality(Claims(c.by)) - (IF c.by \in Local THEN 0 ELSE 2)

\* The tick has dealt with its item and takes the next one of its list.
Onward(t) ==
  LET rest == tick[t].list \ {tick[t].work}
  IN  TickGoes(t, [IdleTick EXCEPT !.pc = IF rest = {} THEN "sweep" ELSE "look",
                                   !.list = rest])

TickPick(t) ==
  /\ TickAt(t, "pick")
  /\ LET eligible == {c \in tick[t].seen : HasRoom(c.by)}
     IN  \/ eligible = {} /\ Onward(t)
         \/ \E c \in eligible :
              /\ \A d \in eligible : Score(c) >= Score(d)
              /\ TickGoes(t, [tick[t] EXCEPT !.pc = "claim", !.by = c.by, !.seen = {}])
  /\ UNCHANGED <<item, worker, result, audit, hand, bill, overlaps, ledger, faults>>

TickClaim(t) ==
  /\ TickAt(t, "claim")
  /\ ClaimRow(tick[t].work, tick[t].by, "tick")
  /\ TickGoes(t, [tick[t] EXCEPT !.pc = "run"])
  /\ UNCHANGED <<item, worker, audit, hand, bill, overlaps, ledger, faults>>

TickRun(t) ==
  /\ TickAt(t, "run")
  /\ item' = [item EXCEPT ![tick[t].work].status = "running"]
  /\ Onward(t)
  /\ UNCHANGED <<worker, result, audit, hand, bill, overlaps, ledger, faults>>

\* A worker that never sent a heartbeat has a NULL stamp and is not matched.
TickSweep(t) ==
  /\ TickAt(t, "sweep")
  /\ worker' = [w \in Workers |->
       IF worker[w].status = "active" /\ worker[w].beat = "stale"
       THEN [worker[w] EXCEPT !.status = "offline"] ELSE worker[w]]
  /\ TickGoes(t, IdleTick)
  /\ UNCHANGED <<item, result, audit, hand, bill, overlaps, ledger, faults>>

\* A statement of schedulerTick throws: caught, and the sweep still runs.
TickFault(t) ==
  /\ tick[t].pc # "idle"
  /\ faults < MaxFaults
  /\ TickGoes(t, [IdleTick EXCEPT !.pc = IF tick[t].pc = "sweep" THEN "idle" ELSE "sweep"])
  /\ faults' = faults + 1
  /\ UNCHANGED <<item, worker, result, audit, hand, bill, overlaps, ledger>>

TickStep(t) ==
  \/ TickExpire(t) \/ TickRequeue(t) \/ TickReckon(t) \/ TickPunish(t)
  \/ TickList(t) \/ TickLook(t) \/ TickPick(t) \/ TickClaim(t) \/ TickRun(t)
  \/ TickSweep(t)

-----------------------------------------------------------------------------
(* Results: submitResult and finalizeVerification.                         *)

HandAt(h, pc) == hand[h].pc = pc
HandGoes(h, rec) == hand' = [hand EXCEPT ![h] = rec]
Begin(h, op) == HandAt(h, "idle") /\ op \in Ops

\* A request with no matching claimed row returns null and changes nothing.
ResultRequest(h) ==
  /\ Begin(h, "result")
  /\ \E r \in RowsIn("claimed"), x \in Hashes :
       /\ Cardinality(Submitted(result[r].work)) < MaxAnswers
       /\ HandGoes(h, [IdleHand EXCEPT !.pc = "store", !.work = result[r].work,
                                       !.row = r, !.hash = x])
  /\ UNCHANGED <<item, worker, result, audit, tick, bill, overlaps, ledger, faults>>

\* The UPDATE names the row by id only: it may have expired meanwhile, or
\* hold the answer of a duplicate request.
StoreResult(h) ==
  /\ HandAt(h, "store")
  /\ result' = [result EXCEPT ![hand[h].row].status = "submitted",
                              ![hand[h].row].hash = hand[h].hash]
  /\ HandGoes(h, [IdleHand EXCEPT !.pc = "count", !.work = hand[h].work])
  /\ UNCHANGED <<item, worker, audit, tick, bill, overlaps, ledger, faults>>

\* decideOutcome: None for a dispute, else a most frequent hash (which one of
\* several depends on the order the rows come in).
Votes(S, x) == Cardinality({r \in S : result[r].hash = x})
Outcomes(S) ==
  IF Cardinality(S) >= 3 /\ \A x \in Hashes : Votes(S, x) <= 1
  THEN {None}
  ELSE {x \in Hashes : Votes(S, x) > 0 /\ \A y \in Hashes : Votes(S, x) >= Votes(S, y)}

\* Mutant of Enough: one answer short.
EnoughEarly(i) == Cardinality(Submitted(i)) + 1 >= Replicas[i]

Enough(i) == Cardinality(Submitted(i)) >= Replicas[i]

CountSubmissions(h) ==
  /\ HandAt(h, "count")
  /\ LET i == hand[h].work
     IN  \/ ~Enough(i) /\ HandGoes(h, IdleHand)
         \/ /\ Enough(i)
            /\ \E x \in Outcomes(Submitted(i)) :
                 HandGoes(h, [hand[h] EXCEPT !.pc = IF x = None THEN "dispute" ELSE "primary",
                                             !.hash = x])
  /\ UNCHANGED <<item, worker, result, audit, tick, bill, overlaps, ledger, faults>>

\* The rows are read again; the decided hash may have been overwritten since.
ReadPrimary(h) ==
  /\ HandAt(h, "primary")
  /\ LET S     == Submitted(hand[h].work)
         agree == {r \in S : result[r].hash = hand[h].hash}
     IN  \E p \in (IF agree # {} THEN agree ELSE S) :
           HandGoes(h, [hand[h] EXCEPT !.pc = "verify", !.by = result[p].by,
                                       !.todo = S \ agree])
  /\ UNCHANGED <<item, worker, result, audit, tick, bill, overlaps, ledger, faults>>

\* The next minority row to punish; after the last one the route starts the
\* billing, which it does not await, and answers.
Busy(i) == {b \in Billers : bill[b] # IdleBill /\ bill[b].work = i}
Billing(b, i) ==
  /\ bill[b] = IdleBill
  /\ bill' = [bill EXCEPT ![b] = [pc |-> "item", work |-> i]]
  /\ overlaps' = [overlaps EXCEPT ![i] = IF Busy(i) = {} THEN @ ELSE @ + 1]
AfterVerdict(h, todo) ==
  \/ /\ todo # {}
     /\ HandGoes(h, [IdleHand EXCEPT !.pc = "reckon", !.work = hand[h].work, !.todo = todo])
     /\ UNCHANGED <<bill, overlaps>>
  \/ /\ todo = {}
     /\ HandGoes(h, IdleHand)
     /\ \E b \in Billers : Billing(b, hand[h].work)

\* Mutant of WriteVerified: completed_by is not written.
WriteVerifiedUncredited(h) ==
  /\ HandAt(h, "verify")
  /\ item' = [item EXCEPT ![hand[h].work].status = "verified",
                          ![hand[h].work].hash = hand[h].hash]
  /\ AfterVerdict(h, hand[h].todo)
  /\ UNCHANGED <<worker, result, audit, tick, ledger, faults>>

WriteVerified(h) ==
  /\ HandAt(h, "verify")
  /\ item' = [item EXCEPT ![hand[h].work].status = "verified",
                          ![hand[h].work].hash = hand[h].hash,
                          ![hand[h].work].by = hand[h].by]
  /\ AfterVerdict(h, hand[h].todo)
  /\ UNCHANGED <<worker, result, audit, tick, ledger, faults>>

Reckon(h) ==
  /\ HandAt(h, "reckon")
  /\ \E r \in hand[h].todo :
       LET w == result[r].by
       IN  HandGoes(h, [hand[h] EXCEPT !.pc = "punish", !.row = r, !.by = w,
                                       !.rep = worker[w].rep, !.stat = worker[w].status])
  /\ UNCHANGED <<item, worker, result, audit, tick, bill, overlaps, ledger, faults>>

Punish(h) ==
  /\ HandAt(h, "punish")
  /\ Penalise(hand[h].by, hand[h].rep, hand[h].stat)
  /\ AfterVerdict(h, hand[h].todo \ {hand[h].row})
  /\ UNCHANGED <<item, result, audit, tick, ledger, faults>>

\* Shared by the verifier and by disputeWorkItem: an unconditional UPDATE.
WriteDisputed(h) ==
  /\ HandAt(h, "dispute")
  /\ item' = [item EXCEPT ![hand[h].work].status = "disputed"]
  /\ HandGoes(h, IdleHand)
  /\ UNCHANGED <<worker, result, audit, tick, bill, overlaps, ledger, faults>>

-----------------------------------------------------------------------------
(* Billing: billVerifiedWorkItem, which outlives the request it began in.  *)

BillAt(b, pc) == bill[b].pc = pc
BillGoes(b, rec) == bill' = [bill EXCEPT ![b] = rec]
BillTo(b, pc) == BillGoes(b, [bill[b] EXCEPT !.pc = pc])

BillItem(b) ==
  /\ BillAt(b, "item")
  /\ IF item[bill[b].work].status = "verified" THEN BillTo(b, "audit") ELSE BillGoes(b, IdleBill)
  /\ UNCHANGED <<item, worker, result, audit, tick, hand, overlaps, ledger, faults>>

\* Mutant of BillAudit: an earlier record is ignored.
BillAuditBlind(b) ==
  /\ BillAt(b, "audit")
  /\ BillTo(b, "post")
  /\ UNCHANGED <<item, worker, result, audit, tick, hand, overlaps, ledger, faults>>

BillAudit(b) ==
  /\ BillAt(b, "audit")
  /\ IF audit[bill[b].work] THEN BillGoes(b, IdleBill) ELSE BillTo(b, "post")
  /\ UNCHANGED <<item, worker, result, audit, tick, hand, overlaps, ledger, faults>>

\* The POST is accepted and answered, or refused.
PostUsage(b) ==
  /\ BillAt(b, "post")
  /\ \/ /\ ledger' = [ledger EXCEPT ![bill[b].work] = @ + 1]
        /\ BillTo(b, "log")
     \/ BillGoes(b, IdleBill) /\ UNCHANGED ledger
  /\ UNCHANGED <<item, worker, result, audit, tick, hand, overlaps, faults>>

\* The billing service accepts the event, but the 3 s timeout beats its answer.
PostTimesOut(b) ==
  /\ BillAt(b, "post")
  /\ faults < MaxFaults
  /\ ledger' = [ledger EXCEPT ![bill[b].work] = @ + 1]
  /\ BillGoes(b, IdleBill)
  /\ faults' = faults + 1
  /\ UNCHANGED <<item, worker, result, audit, tick, hand, overlaps>>

LogBilling(b) ==
  /\ BillAt(b, "log")
  /\ audit' = [audit EXCEPT ![bill[b].work] = TRUE]
  /\ BillGoes(b, IdleBill)
  /\ UNCHANGED <<item, worker, result, tick, hand, overlaps, ledger, faults>>

\* A statement of a billing throws: the route's catch logs it.
BillFault(b) ==
  /\ ~BillAt(b, "idle")
  /\ faults < MaxFaults
  /\ BillGoes(b, IdleBill)
  /\ faults' = faults + 1
  /\ UNCHANGED <<item, worker, result, audit, tick, hand, overlaps, ledger>>

BillStep(b) == BillItem(b) \/ BillAudit(b) \/ PostUsage(b) \/ LogBilling(b)

-----------------------------------------------------------------------------
(* The other routes.                                                       *)

SubmitWorkItem(i) ==
  /\ "submit" \in Ops
  /\ item[i].status = "none"
  /\ item' = [item EXCEPT ![i].status = "queued",
                          ![i].age = Cardinality({j \in Items : item[j].status # "none"})]
  /\ UNCHANGED <<worker, result, audit, tick, hand, bill, overlaps, ledger, faults>>

CancelRead(h) ==
  /\ Begin(h, "cancel")
  /\ \E i \in Items :
       /\ item[i].status \in {"queued", "running"}
       /\ HandGoes(h, [IdleHand EXCEPT !.pc = "cancel", !.work = i])
  /\ UNCHANGED <<item, worker, result, audit, tick, bill, overlaps, ledger, faults>>

CancelWrite(h) ==
  /\ HandAt(h, "cancel")
  /\ item' = [item EXCEPT ![hand[h].work].status = "failed"]
  /\ HandGoes(h, IdleHand)
  /\ UNCHANGED <<worker, result, audit, tick, bill, overlaps, ledger, faults>>

\* Verified is refused; disputed and failed are answered without a write.
DisputeRead(h) ==
  /\ Begin(h, "dispute")
  /\ \E i \in Items :
       /\ item[i].status \in {"queued", "running"}
       /\ HandGoes(h, [IdleHand EXCEPT !.pc = "dispute", !.work = i])
  /\ UNCHANGED <<item, worker, result, audit, tick, bill, overlaps, ledger, faults>>

RegisterWorker(w) ==
  /\ "register" \in Ops
  /\ worker[w].status = "none"
  /\ worker' = [worker EXCEPT ![w].status = "active"]
  /\ UNCHANGED <<item, result, audit, tick, hand, bill, overlaps, ledger, faults>>

BeatRead(h) ==
  /\ Begin(h, "beat")
  /\ \E w \in Workers :
       /\ worker[w].status \in {"active", "offline"}
       /\ HandGoes(h, [IdleHand EXCEPT !.pc = "beat", !.by = w])
  /\ UNCHANGED <<item, worker, result, audit, tick, bill, overlaps, ledger, faults>>

BeatWrite(h) ==
  /\ HandAt(h, "beat")
  /\ worker' = [worker EXCEPT ![hand[h].by].status = "active",
                              ![hand[h].by].beat = "fresh"]
  /\ HandGoes(h, [hand[h] EXCEPT !.pc = "extend"])
  /\ UNCHANGED <<item, result, audit, tick, bill, overlaps, ledger, faults>>

BeatExtend(h) ==
  /\ HandAt(h, "extend")
  /\ result' = [r \in Rows |-> IF r \in Claims(hand[h].by)
                               THEN [result[r] EXCEPT !.lease = "live"] ELSE result[r]]
  /\ HandGoes(h, IdleHand)
  /\ UNCHANGED <<item, worker, audit, tick, bill, overlaps, ledger, faults>>

\* manualAssign checks neither the worker's status nor its load.
ManualRead(h) ==
  /\ Begin(h, "assign")
  /\ \E i \in Items, w \in Workers :
       /\ item[i].status = "queued" /\ worker[w].status # "none"
       /\ HandGoes(h, [IdleHand EXCEPT !.pc = "claim", !.work = i, !.by = w])
  /\ UNCHANGED <<item, worker, result, audit, tick, bill, overlaps, ledger, faults>>

ManualClaim(h) ==
  /\ HandAt(h, "claim")
  /\ ClaimRow(hand[h].work, hand[h].by, "manual")
  /\ HandGoes(h, [hand[h] EXCEPT !.pc = "run"])
  /\ UNCHANGED <<item, worker, audit, tick, bill, overlaps, ledger, faults>>

ManualRun(h) ==
  /\ HandAt(h, "run")
  /\ item' = [item EXCEPT ![hand[h].work].status = "running"]
  /\ HandGoes(h, IdleHand)
  /\ UNCHANGED <<worker, result, audit, tick, bill, overlaps, ledger, faults>>

\* A statement of a handler throws: the route answers 500.
HandFault(h) ==
  /\ hand[h].pc # "idle"
  /\ faults < MaxFaults
  /\ HandGoes(h, IdleHand)
  /\ faults' = faults + 1
  /\ UNCHANGED <<item, worker, result, audit, tick, bill, overlaps, ledger>>

Request(h) ==
  \/ ResultRequest(h) \/ CancelRead(h) \/ DisputeRead(h) \/ BeatRead(h) \/ ManualRead(h)

HandStep(h) ==
  \/ StoreResult(h) \/ CountSubmissions(h) \/ ReadPrimary(h) \/ WriteVerified(h)
  \/ Reckon(h) \/ Punish(h) \/ WriteDisputed(h)
  \/ CancelWrite(h) \/ BeatWrite(h) \/ BeatExtend(h) \/ ManualClaim(h) \/ ManualRun(h)

-----------------------------------------------------------------------------
(* The clock and the machine.                                              *)

LeaseLapses(r) ==
  /\ result[r].status = "claimed" /\ result[r].lease = "live"
  /\ result' = [result EXCEPT ![r].lease = "lapsed"]
  /\ UNCHANGED <<item, worker, audit, tick, hand, bill, overlaps, ledger, faults>>

BeatGrowsStale(w) ==
  /\ worker[w].beat = "fresh"
  /\ worker' = [worker EXCEPT ![w].beat = "stale"]
  /\ UNCHANGED <<item, result, audit, tick, hand, bill, overlaps, ledger, faults>>

\* The process dies and restarts: the tables stay, every local is gone.
Crash ==
  /\ faults < MaxFaults
  /\ tick' = [t \in Ticks |-> IdleTick]
  /\ hand' = [h \in Handlers |-> IdleHand]
  /\ bill' = [b \in Billers |-> IdleBill]
  /\ faults' = faults + 1
  /\ UNCHANGED <<item, worker, result, audit, overlaps, ledger>>

Next ==
  \/ \E t \in Ticks : TickStep(t) \/ TickFault(t)
  \/ \E h \in Handlers : Request(h) \/ HandStep(h) \/ HandFault(h)
  \/ \E b \in Billers : BillStep(b) \/ PostTimesOut(b) \/ BillFault(b)
  \/ \E i \in Items : SubmitWorkItem(i)
  \/ \E w \in Workers : RegisterWorker(w) \/ BeatGrowsStale(w)
  \/ \E r \in Rows : LeaseLapses(r)
  \/ Crash

Spec == Init /\ [][Next]_vars

\* setInterval fires for ever; a request or a billing once begun runs to its end.
FairSpec == /\ Spec
            /\ \A t \in Ticks : WF_vars(TickStep(t))
            /\ \A h \in Handlers : WF_vars(HandStep(h))
            /\ \A b \in Billers : WF_vars(BillStep(b))

-----------------------------------------------------------------------------
(* What the runtime guarantees.                                            *)

\* What the references held in rows and in local variables point to: the
\* strengthening that makes TypeOK inductive.
Taken == {r \in Rows : result[r].status # "free"}
RowsOK ==
  \A r \in Taken : result[r].work \in Items /\ result[r].by \in Workers
TickOK(p) ==
  /\ p.todo \subseteq Taken
  /\ p.pc \in {"reckon", "punish"} => p.row \in p.todo
  /\ p.pc \in {"punish", "claim"} => p.by \in Workers
  /\ p.pc \in {"pick", "claim", "run"} => p.work \in Items
HandOK(p) ==
  /\ p.todo \subseteq RowsIn("submitted")
  /\ p.pc \notin {"idle", "beat", "extend"} => p.work \in Items
  /\ p.pc = "store" => /\ p.row \in Taken /\ p.hash \in Hashes
                       /\ result[p.row].work = p.work
  /\ p.pc \in {"primary", "verify"} => p.hash \in Hashes
  /\ p.pc \in {"verify", "punish", "beat", "extend", "claim"} => p.by \in Workers
WellFormed ==
  /\ TypeOK /\ RowsOK
  /\ \A t \in Ticks : TickOK(tick[t])
  /\ \A h \in Handlers : HandOK(hand[h])
  /\ \A b \in Billers : bill[b] # IdleBill => bill[b].work \in Items

\* A verdict stands on enough answers: a work item that carries a result hash
\* has at least `replicas` submitted rows, and its completed_by is a worker
\* that handed one in - also while a verifier that has counted is still about
\* to write, and whatever sweeps, late answers, cancellations and crashes come
\* in between (submitResult, finalizeVerification).
HasQuorum(i)   == Cardinality(Submitted(i)) >= Replicas[i]
Answered(i, w) == \E r \in Submitted(i) : result[r].by = w
Backed(p) ==
  /\ p.pc \in {"primary", "verify"} => HasQuorum(p.work)
  /\ p.pc = "verify" => Answered(p.work, p.by)
  /\ p.pc \in {"reckon", "punish"} => item[p.work].hash # None
VerdictHasQuorum ==
  /\ \A i \in Items : item[i].hash # None => HasQuorum(i) /\ Answered(i, item[i].by)
  /\ \A h \in Handlers : Backed(hand[h])
  /\ \A b \in Billers : bill[b] # IdleBill => item[bill[b].work].hash # None

\* The scheduler never overloads a worker by more than the number of ticks in
\* flight: the claims it made and the one each tick has decided but not yet
\* inserted stay within Cap + |Ticks| - 1, so within Cap when ticks do not
\* overlap (pickWorkerFor counts, assignItemToWorker inserts later).
TickClaims(w) == {r \in Claims(w) : result[r].via = "tick"}
Pending(w)    == {t \in Ticks : tick[t].pc = "claim" /\ tick[t].by = w}
SchedulerCap ==
  \A w \in Workers :
    Cardinality(TickClaims(w)) + Cardinality(Pending(w)) <= Cap + Cardinality(Ticks) - 1

\* How often a payer can be charged for one item: once, once more for each billing
\* that began beside another of the item, as both may read the audit before one
\* writes it, and once more for each fault, which may lose what a billing was about
\* to write (billVerifiedWorkItem).  Billings outlive their requests: they overlap
\* also when the requests do not.
ChargesBounded ==
  \A i \in Items : ledger[i] <= 1 + overlaps[i] + faults

\* accountant.ts says that the usage event of an item is emitted exactly once.
BilledOnce == \A i \in Items : ledger[i] <= 1

\* verifier.ts says that a verified work item cannot be re-opened.
VerifiedIsFinal ==
  [][\A i \in Items : item[i].status = "verified" => item'[i].status = "verified"]_vars

\* A worker whose reputation fell below the floor never rises above it again,
\* although two penalties may overwrite each other with stale values: with a
\* decay that takes a new worker below the floor, as configured by default,
\* one failure excludes it from scheduling for good.
DecayIsFinal ==
  [][InitRep - Decay < RepFloor =>
       \A w \in Workers : worker[w].rep < RepFloor => worker'[w].rep < RepFloor]_vars

\* With one scheduler that finishes its tick before the next and no manual
\* assignment, an item is never leased twice at once, a claim that the tick is
\* about to insert included.
OneClaim ==
  \A i \in Items :
    Cardinality(Claimed(i))
      + Cardinality({t \in Ticks : tick[t].pc = "claim" /\ tick[t].work = i}) <= 1

\* ... and while nothing crashes, an item marked running is held by a worker,
\* has been answered, or is about to be put back in the queue by the tick that
\* expired its lease: it is never forgotten in "running".
ToRequeue(t) == IF tick[t].pc = "requeue" THEN tick[t].todo
                                           ELSE tick[t].todo \ {tick[t].row}
NoOrphan ==
  \A i \in Items : item[i].status = "running" =>
    \/ Claimed(i) \cup Submitted(i) # {}
    \/ \E t \in Ticks : \E r \in ToRequeue(t) : result[r].work = i

\* Every lapsed lease is swept unless a heartbeat or an answer saves it.
LapsedIsSwept ==
  \A r \in Rows : (result[r].status = "claimed" /\ result[r].lease = "lapsed")
                    ~> ~(result[r].status = "claimed" /\ result[r].lease = "lapsed")

\* A queued item some worker can take does not wait for ever: it leaves the
\* queue, or at some later moment no worker can take it.
CanTake(w, i) ==
  /\ worker[w].status = "active" /\ worker[w].rep >= RepFloor
  /\ <<i, w>> \in Fits /\ Cardinality(Claims(w)) < Cap
QueueServed ==
  \A i \in Items :
    (item[i].status = "queued" /\ \E w \in Workers : CanTake(w, i))
      ~> ~(item[i].status = "queued" /\ \E w \in Workers : CanTake(w, i))

=============================================================================
