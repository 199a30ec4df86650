-------------------------- MODULE WorkRuntimeProofs --------------------------
(***************************************************************************)
(* Theorems about WorkRuntime for all values of its constants: type        *)
(* correctness, the quorum behind every verdict, the load of a worker, the *)
(* decay of reputation, how often a payer is charged, and that it keeps    *)
(* WorkPromise; and, with one scheduler and no manual assignment, that an  *)
(* item has one lease at a time and is not forgotten.                      *)
(***************************************************************************)
EXTENDS WorkRefinement, FiniteSetTheorems, FunctionTheorems, TLAPS

LEMMA InitWellFormed == Init => WellFormed
<1> SUFFICES ASSUME Init PROVE WellFormed
  OBVIOUS
<1>1. TypeOK
  BY NumbersAssumption
  DEF Init, TypeOK, IdleTick, IdleHand, IdleBill, ItemRow, WorkerRow, ResultRow, TickProc,
      HandProc, BillProc, ItemStatus, WorkerStatus, Reputation
<1>2. RowsOK
  BY DEF Init, RowsOK, Taken
<1>3. /\ \A t \in Ticks : TickOK(tick[t])
      /\ \A h \in Handlers : HandOK(hand[h])
      /\ \A b \in Billers : bill[b] = IdleBill
  BY DEF Init, TickOK, HandOK, IdleTick, IdleHand
<1> QED
  BY <1>1, <1>2, <1>3 DEF WellFormed

-----------------------------------------------------------------------------
(* A step of one process that leaves work_results alone.                   *)

LEMMA TickMoves ==
  ASSUME WellFormed, NEW t \in Ticks, NEW p, p \in TickProc, TickOK(p), TickGoes(t, p),
         item' \in [Items -> ItemRow], worker' \in [Workers -> WorkerRow], faults' \in Nat,
         UNCHANGED <<result, audit, hand, bill, overlaps, ledger>>
  PROVE  WellFormed'
<1>1. TypeOK'
  BY DEF WellFormed, TypeOK, TickGoes
<1>2. RowsOK' /\ \A h \in Handlers : HandOK(hand[h])'
  BY DEF WellFormed, RowsOK, Taken, RowsIn, HandOK
<1>3. \A u \in Ticks : TickOK(tick[u])'
  BY DEF WellFormed, TypeOK, TickGoes, TickOK, Taken
<1> QED
  BY <1>1, <1>2, <1>3 DEF WellFormed

\* What WellFormed says of the billings.
BillsFit ==
  /\ bill \in [Billers -> BillProc] /\ overlaps \in [Items -> Nat]
  /\ \A b \in Billers : bill[b] # IdleBill => bill[b].work \in Items

LEMMA HandMoves ==
  ASSUME WellFormed, NEW h \in Handlers, NEW p, p \in HandProc, HandOK(p), HandGoes(h, p),
         item' \in [Items -> ItemRow], worker' \in [Workers -> WorkerRow], faults' \in Nat,
         BillsFit', UNCHANGED <<result, audit, tick, ledger>>
  PROVE  WellFormed'
<1>1. TypeOK'
  BY DEF WellFormed, TypeOK, HandGoes, BillsFit
<1>2. RowsOK' /\ \A t \in Ticks : TickOK(tick[t])'
  BY DEF WellFormed, RowsOK, Taken, TickOK
<1>3. \A g \in Handlers : HandOK(hand[g])'
  BY DEF WellFormed, TypeOK, HandGoes, HandOK, Taken, RowsIn
<1> QED
  BY <1>1, <1>2, <1>3 DEF WellFormed, BillsFit

LEMMA BillsStill == WellFormed /\ UNCHANGED <<bill, overlaps>> => BillsFit'
BY DEF WellFormed, TypeOK, BillsFit

-----------------------------------------------------------------------------
(* A step that rewrites work_results.                                      *)

\* What every such step keeps: the rows in use stay in use, submitted ones stay
\* submitted, and a row some process holds keeps its item.
RowsKept ==
  /\ result' \in [Rows -> ResultRow]
  /\ RowsOK'
  /\ Taken \subseteq Taken'
  /\ RowsIn("submitted") \subseteq RowsIn("submitted")'
  /\ \A r \in Rows \ Spare : result'[r].work = result[r].work

LEMMA TicksKept ==
  ASSUME WellFormed, RowsKept, NEW t \in Ticks, NEW p, TickOK(p), TickGoes(t, p)
  PROVE  \A u \in Ticks : TickOK(tick[u])'
BY DEF WellFormed, TypeOK, RowsKept, TickGoes, TickOK

LEMMA KeptByHands ==
  ASSUME WellFormed, RowsKept, NEW h \in Handlers
  PROVE  HandOK(hand[h]) /\ (hand'[h] = hand[h] => HandOK(hand[h])')
<1>1. HandOK(hand[h])
  BY DEF WellFormed
<1>2. ASSUME hand[h].pc = "store" PROVE result'[hand[h].row].work = hand[h].work
  BY <1>1, <1>2 DEF RowsKept, HandOK, Spare, Taken
<1> QED
  BY <1>1, <1>2 DEF RowsKept, HandOK

LEMMA ClaimKeepsRows ==
  ASSUME WellFormed, NEW i \in Items, NEW w \in Workers, NEW via \in {"tick", "manual"},
         ClaimRow(i, w, via)
  PROVE  RowsKept
<1> DEFINE r == CHOOSE q \in Spare : TRUE
<1>1. r \in Spare /\ r \in Rows
  BY DEF ClaimRow, Spare, RowsIn
<1>2. result' = [result EXCEPT ![r] = [status |-> "claimed", work |-> i, by |-> w,
                                       hash |-> None, lease |-> "live", via |-> via]]
  BY DEF ClaimRow
<1> HIDE DEF r
<1>3. result' \in [Rows -> ResultRow]
  BY <1>1, <1>2 DEF WellFormed, TypeOK, ResultRow
<1>4. RowsOK' /\ Taken \subseteq Taken'
  BY <1>1, <1>2 DEF WellFormed, TypeOK, RowsOK, Taken
<1>5. RowsIn("submitted") \subseteq RowsIn("submitted")'
  BY <1>1, <1>2 DEF WellFormed, TypeOK, RowsIn, Spare
<1> QED
  BY <1>1, <1>2, <1>3, <1>4, <1>5 DEF RowsKept, WellFormed, TypeOK

LEMMA RewriteKeepsRows ==
  ASSUME WellFormed, NEW S \in SUBSET Rows, NEW f, result' = [r \in Rows |-> IF r \in S THEN f[r] ELSE result[r]],
         \A r \in S : /\ f[r] \in ResultRow /\ f[r].status # "free"
                      /\ f[r].work = result[r].work /\ f[r].by = result[r].by
                      /\ r \in Taken
                      /\ result[r].status = "submitted" => f[r].status = "submitted"
  PROVE  RowsKept
<1>1. result' \in [Rows -> ResultRow]
  BY DEF WellFormed, TypeOK
<1>2. RowsOK' /\ Taken \subseteq Taken'
  BY DEF WellFormed, TypeOK, RowsOK, Taken
<1>3. RowsIn("submitted") \subseteq RowsIn("submitted")'
  BY DEF WellFormed, TypeOK, RowsIn
<1> QED
  BY <1>1, <1>2, <1>3 DEF RowsKept

LEMMA PenaliseTyped ==
  ASSUME WellFormed, NEW w \in Workers, NEW rep \in Reputation, NEW stat \in WorkerStatus,
         Penalise(w, rep, stat)
  PROVE  worker' \in [Workers -> WorkerRow]
<1> DEFINE new == IF rep > Decay THEN rep - Decay ELSE 0
           down == IF new < RepFloor THEN "suspended" ELSE stat
<1>1. new \in Reputation /\ down \in WorkerStatus
  BY NumbersAssumption DEF Reputation, WorkerStatus
<1>2. worker' = [worker EXCEPT ![w].rep = new, ![w].status = down]
  BY DEF Penalise
<1> HIDE DEF new, down
<1> QED
  BY <1>1, <1>2 DEF WellFormed, TypeOK, WorkerRow

-----------------------------------------------------------------------------
(* The assignment loop.                                                    *)

LEMMA IdleTickTodo ==
  ASSUME NEW pc \in {"list", "requeue"}, NEW todo \in SUBSET Rows, todo \subseteq Taken
  PROVE  LET p == [IdleTick EXCEPT !.pc = pc, !.todo = todo] IN p \in TickProc /\ TickOK(p)
<1>1. 0 \in Reputation /\ "none" \in WorkerStatus
  BY NumbersAssumption DEF Reputation, WorkerStatus
<1> QED
  BY <1>1 DEF TickProc, IdleTick, TickOK

LEMMA IdleTickList ==
  ASSUME NEW pc \in {"look", "sweep"}, NEW list \in SUBSET Items
  PROVE  LET p == [IdleTick EXCEPT !.pc = pc, !.list = list] IN p \in TickProc /\ TickOK(p)
<1>1. 0 \in Reputation /\ "none" \in WorkerStatus
  BY NumbersAssumption DEF Reputation, WorkerStatus
<1> QED
  BY <1>1 DEF TickProc, IdleTick, TickOK

LEMMA TickWellFormed ==
  ASSUME WellFormed, NEW t \in Ticks, TickStep(t) \/ TickFault(t)
  PROVE  WellFormed'
<1> USE DEF TickAt
<1>t. /\ TypeOK /\ tick[t] \in TickProc /\ TickOK(tick[t]) /\ IdleTick \in TickProc
      /\ \A r \in Taken : result[r].by \in Workers /\ result[r].work \in Items
  BY NumbersAssumption DEF WellFormed, TypeOK, RowsOK, IdleTick, TickProc, Reputation, WorkerStatus
<1>1. CASE TickExpire(t)
  <2> DEFINE p == [IdleTick EXCEPT !.pc = IF Lapsed = {} THEN "list" ELSE "requeue", !.todo = Lapsed]
             f == [r \in Rows |-> [result[r] EXCEPT !.status = "expired"]]
  <2>1. \A r \in Lapsed : /\ f[r] \in ResultRow /\ f[r].status = "expired" /\ r \in Taken
                          /\ f[r].work = result[r].work /\ f[r].by = result[r].by
                          /\ result[r].status = "claimed"
    BY <1>t DEF Lapsed, RowsIn, Taken, TypeOK, ResultRow
  <2>2. Lapsed \in SUBSET Rows /\ result' = [r \in Rows |-> IF r \in Lapsed THEN f[r] ELSE result[r]]
    BY <1>1 DEF TickExpire, Lapsed, RowsIn
  <2>3. RowsKept
    <3> HIDE DEF f
    <3> QED BY <2>1, <2>2, RewriteKeepsRows
  <2>4. p \in TickProc /\ TickOK(p) /\ TickGoes(t, p)
    BY <1>1, <2>1, <2>2, IdleTickTodo DEF TickExpire
  <2> HIDE DEF p, f
  <2>5. TypeOK'
    BY <1>1, <1>t, <2>3, <2>4 DEF TickExpire, TypeOK, RowsKept, TickGoes
  <2>7. \A u \in Ticks : TickOK(tick[u])'
    BY <1>t, <2>3, <2>4, TicksKept
  <2>8. \A h \in Handlers : HandOK(hand[h])'
    BY <1>1, <2>3, KeptByHands DEF TickExpire
  <2> QED
    BY <1>1, <2>3, <2>5, <2>7, <2>8 DEF WellFormed, RowsKept, TickExpire
<1>2. CASE TickRequeue(t)
  <2> PICK r \in tick[t].todo :
        /\ item' = IF item[result[r].work].status = "running"
                   THEN [item EXCEPT ![result[r].work].status = "queued"] ELSE item
        /\ TickGoes(t, [tick[t] EXCEPT !.pc = "reckon", !.row = r])
    BY <1>2 DEF TickRequeue
  <2> DEFINE p == [tick[t] EXCEPT !.pc = "reckon", !.row = r]
  <2>1. r \in Taken /\ p \in TickProc /\ TickOK(p)
    BY <1>t DEF TickProc, TickOK, Taken
  <2>2. item' \in [Items -> ItemRow]
    <3> DEFINE i == result[r].work
    <3>1. i \in Items /\ "queued" \in ItemStatus
      BY <1>t, <2>1 DEF ItemStatus
    <3> HIDE DEF i
    <3>2. [item EXCEPT ![i].status = "queued"] \in [Items -> ItemRow]
      BY <1>t, <3>1 DEF TypeOK, ItemRow
    <3> QED
      BY <1>t, <3>2 DEF TypeOK, i
  <2> HIDE DEF p
  <2> QED
    BY <1>2, <1>t, <2>1, <2>2, TickMoves DEF TickRequeue, TypeOK, p
<1>3. CASE TickReckon(t)
  <2> DEFINE w == result[tick[t].row].by
             p == [tick[t] EXCEPT !.pc = "punish", !.by = w, !.rep = worker[w].rep,
                                  !.stat = worker[w].status]
  <2>1. w \in Workers
    BY <1>3, <1>t DEF TickReckon, TickOK
  <2>2. p \in TickProc /\ TickOK(p)
    BY <1>3, <1>t, <2>1 DEF TickReckon, TypeOK, TickProc, TickOK, WorkerRow
  <2>3. TickGoes(t, p)
    BY <1>3 DEF TickReckon
  <2> HIDE DEF p, w
  <2> QED
    BY <1>3, <1>t, <2>2, <2>3, TickMoves DEF TickReckon, TypeOK
<1>4. CASE TickPunish(t)
  <2> DEFINE rest == tick[t].todo \ {tick[t].row}
             p == [IdleTick EXCEPT !.pc = IF rest = {} THEN "list" ELSE "requeue", !.todo = rest]
  <2>1. worker' \in [Workers -> WorkerRow]
    BY <1>4, <1>t, PenaliseTyped DEF TickPunish, TickProc, TickOK
  <2>2. p \in TickProc /\ TickOK(p) /\ TickGoes(t, p)
    BY <1>4, <1>t DEF TickPunish, TickProc, TickOK, IdleTick
  <2> HIDE DEF p
  <2> QED
    BY <1>4, <1>t, <2>1, <2>2, TickMoves DEF TickPunish, TypeOK
<1>5. CASE TickList(t)
  <2> DEFINE p == [IdleTick EXCEPT !.pc = IF OldestQueued = {} THEN "sweep" ELSE "look",
                                   !.list = OldestQueued]
  <2>1. OldestQueued \subseteq Items
    BY DEF OldestQueued
  <2>2. p \in TickProc /\ TickOK(p) /\ TickGoes(t, p)
    BY <1>5, <2>1, IdleTickList DEF TickList
  <2> HIDE DEF p
  <2> QED
    BY <1>5, <1>t, <2>2, TickMoves DEF TickList, TypeOK
<1>6. CASE TickLook(t)
  <2> DEFINE S(i) == {[by |-> w, rep |-> worker[w].rep] :
                        w \in {v \in Workers : /\ worker[v].status = "active"
                                               /\ worker[v].rep >= RepFloor
                                               /\ <<i, v>> \in Fits}}
             p(i) == [tick[t] EXCEPT !.pc = "pick", !.work = i, !.seen = S(i)]
  <2> PICK i \in tick[t].list : TickGoes(t, p(i))
    BY <1>6 DEF TickLook
  <2>1. S(i) \in SUBSET [by: Workers, rep: Reputation] /\ i \in Items
    <3>1. \A w \in Workers : [by |-> w, rep |-> worker[w].rep] \in [by: Workers, rep: Reputation]
      BY <1>t DEF TypeOK, WorkerRow
    <3>2. S(i) \in SUBSET [by: Workers, rep: Reputation]
      <4> SUFFICES ASSUME NEW c \in S(i) PROVE c \in [by: Workers, rep: Reputation]
        OBVIOUS
      <4> QED
        BY <3>1
    <3>3. i \in Items
      BY <1>t DEF TickProc
    <3> QED
      BY <3>2, <3>3
  <2> HIDE DEF S
  <2>2. p(i) \in TickProc /\ TickOK(p(i))
    BY <1>t, <2>1 DEF TickProc, TickOK
  <2> HIDE DEF p
  <2> QED
    BY <1>6, <1>t, <2>2, TickMoves DEF TickLook, TypeOK
<1>on. ASSUME Onward(t), item' \in [Items -> ItemRow],
              UNCHANGED <<worker, result, audit, hand, bill, overlaps, ledger, faults>>
       PROVE  WellFormed'
  <2> DEFINE rest == tick[t].list \ {tick[t].work}
             p == [IdleTick EXCEPT !.pc = IF rest = {} THEN "sweep" ELSE "look", !.list = rest]
  <2>1. p \in TickProc /\ TickOK(p) /\ TickGoes(t, p)
    <3>1. rest \in SUBSET Items
      BY <1>t DEF TickProc
    <3> QED
      BY <1>on, <3>1, IdleTickList DEF Onward
  <2> HIDE DEF p
  <2> QED
    BY <1>on, <1>t, <2>1, TickMoves DEF TypeOK
<1>7. CASE TickPick(t)
  <2>1. CASE Onward(t)
    BY <1>7, <1>t, <1>on, <2>1 DEF TickPick, TypeOK
  <2>2. CASE \E c \in tick[t].seen :
               TickGoes(t, [tick[t] EXCEPT !.pc = "claim", !.by = c.by, !.seen = {}])
    <3> DEFINE p(c) == [tick[t] EXCEPT !.pc = "claim", !.by = c.by, !.seen = {}]
    <3> PICK c \in tick[t].seen : TickGoes(t, p(c))
      BY <2>2
    <3>1. p(c) \in TickProc /\ TickOK(p(c))
      BY <1>7, <1>t DEF TickPick, TickProc, TickOK
    <3> HIDE DEF p
    <3> QED
      BY <1>7, <1>t, <3>1, TickMoves DEF TickPick, TypeOK
  <2> QED
    BY <1>7, <2>1, <2>2 DEF TickPick
<1>8. CASE TickClaim(t)
  <2> DEFINE p == [tick[t] EXCEPT !.pc = "run"]
  <2>1. RowsKept
    BY <1>8, <1>t, ClaimKeepsRows DEF TickClaim, TickOK
  <2>2. p \in TickProc /\ TickOK(p) /\ TickGoes(t, p)
    BY <1>8, <1>t DEF TickClaim, TickProc, TickOK
  <2> HIDE DEF p
  <2>3. TypeOK'
    BY <1>8, <1>t, <2>1, <2>2 DEF TickClaim, TypeOK, RowsKept, TickGoes
  <2>5. \A u \in Ticks : TickOK(tick[u])'
    BY <1>t, <2>1, <2>2, TicksKept
  <2>6. \A h \in Handlers : HandOK(hand[h])'
    BY <1>8, <2>1, KeptByHands DEF TickClaim
  <2> QED
    BY <1>8, <2>1, <2>3, <2>5, <2>6 DEF WellFormed, RowsKept, TickClaim
<1>9. CASE TickRun(t)
  <2>1. item' \in [Items -> ItemRow]
    BY <1>9, <1>t DEF TickRun, TypeOK, ItemRow, ItemStatus
  <2> QED
    BY <1>9, <1>on, <2>1 DEF TickRun
<1>10. CASE TickSweep(t)
  <2>1. worker' \in [Workers -> WorkerRow]
    BY <1>10, <1>t DEF TickSweep, TypeOK, WorkerRow, WorkerStatus
  <2>2. TickOK(IdleTick) /\ TickGoes(t, IdleTick)
    BY <1>10 DEF TickSweep, TickOK, IdleTick
  <2> QED
    BY <1>10, <1>t, <2>1, <2>2, TickMoves DEF TickSweep, TypeOK
<1>11. CASE TickFault(t)
  <2> DEFINE p == [IdleTick EXCEPT !.pc = IF tick[t].pc = "sweep" THEN "idle" ELSE "sweep"]
  <2>1. p \in TickProc /\ TickOK(p) /\ TickGoes(t, p)
    BY <1>11, <1>t DEF TickFault, TickProc, TickOK, IdleTick
  <2> HIDE DEF p
  <2> QED
    BY <1>11, <1>t, <2>1, TickMoves DEF TickFault, TypeOK
<1> QED
  BY <1>1, <1>2, <1>3, <1>4, <1>5, <1>6, <1>7, <1>8, <1>9, <1>10, <1>11 DEF TickStep

-----------------------------------------------------------------------------
(* The request handlers.                                                   *)

LEMMA IdleHandFits == IdleHand \in HandProc /\ (WellFormed => HandOK(IdleHand))
BY NumbersAssumption DEF IdleHand, HandProc, HandOK, Reputation, WorkerStatus

\* After a verdict a request punishes the next worker, or starts a billing and ends.
LEMMA AfterVerdictGoes ==
  ASSUME NEW h \in Handlers, NEW todo, AfterVerdict(h, todo)
  PROVE  \/ /\ HandGoes(h, [IdleHand EXCEPT !.pc = "reckon", !.work = hand[h].work,
                                            !.todo = todo])
            /\ UNCHANGED <<bill, overlaps>>
         \/ HandGoes(h, IdleHand) /\ \E b \in Billers : Billing(b, hand[h].work)
BY DEF AfterVerdict

LEMMA BillingFits ==
  ASSUME WellFormed, NEW b \in Billers, NEW i \in Items, Billing(b, i)
  PROVE  BillsFit'
<1> DEFINE p == [pc |-> "item", work |-> i]
           n == IF Busy(i) = {} THEN overlaps[i] ELSE overlaps[i] + 1
<1>1. p \in BillProc /\ n \in Nat
  BY DEF BillProc, WellFormed, TypeOK
<1>2. bill' = [bill EXCEPT ![b] = p] /\ overlaps' = [overlaps EXCEPT ![i] = n]
  BY DEF Billing
<1>3. p.work \in Items
  OBVIOUS
<1> HIDE DEF p, n
<1>4. bill' \in [Billers -> BillProc] /\ overlaps' \in [Items -> Nat]
  BY <1>1, <1>2 DEF WellFormed, TypeOK
<1>5. \A c \in Billers : bill'[c] # IdleBill => bill'[c].work \in Items
  BY <1>2, <1>3 DEF WellFormed, TypeOK
<1> QED
  BY <1>4, <1>5 DEF BillsFit

LEMMA AfterVerdictFits ==
  ASSUME WellFormed, NEW h \in Handlers, hand[h].work \in Items,
         NEW todo \in SUBSET RowsIn("submitted"), AfterVerdict(h, todo)
  PROVE  BillsFit' /\ \E p \in HandProc : HandOK(p) /\ HandGoes(h, p)
<1>1. IdleHand \in HandProc /\ HandOK(IdleHand) /\ todo \subseteq Rows
  BY IdleHandFits DEF RowsIn
<1> DEFINE p == [IdleHand EXCEPT !.pc = "reckon", !.work = hand[h].work, !.todo = todo]
<1>2. CASE HandGoes(h, p) /\ UNCHANGED <<bill, overlaps>>
  <2>1. p \in HandProc /\ HandOK(p)
    BY <1>1 DEF HandProc, HandOK, IdleHand
  <2> HIDE DEF p
  <2> QED
    BY <1>2, <2>1, BillsStill
<1>3. CASE HandGoes(h, IdleHand) /\ \E b \in Billers : Billing(b, hand[h].work)
  BY <1>1, <1>3, BillingFits
<1> QED
  BY <1>2, <1>3, AfterVerdictGoes

LEMMA HandStill ==
  ASSUME WellFormed, NEW h \in Handlers, NEW p, p \in HandProc, HandOK(p), HandGoes(h, p),
         UNCHANGED <<item, worker, result, audit, tick, bill, overlaps, ledger, faults>>
  PROVE  WellFormed'
BY HandMoves, BillsStill DEF WellFormed, TypeOK

LEMMA SetStatusTyped ==
  ASSUME WellFormed, NEW i \in Items, NEW s \in ItemStatus, item' = [item EXCEPT ![i].status = s]
  PROVE  item' \in [Items -> ItemRow]
BY DEF WellFormed, TypeOK, ItemRow

\* Requests: the first statement of each route.
LEMMA RequestWellFormed ==
  ASSUME WellFormed, NEW h \in Handlers, Request(h)
  PROVE  WellFormed'
<1>i. IdleHand \in HandProc /\ TypeOK /\ RowsOK
  BY IdleHandFits DEF WellFormed
<1>1. CASE ResultRequest(h)
  <2> PICK r \in RowsIn("claimed"), x \in Hashes :
        HandGoes(h, [IdleHand EXCEPT !.pc = "store", !.work = result[r].work, !.row = r, !.hash = x])
    BY <1>1 DEF ResultRequest
  <2> DEFINE p == [IdleHand EXCEPT !.pc = "store", !.work = result[r].work, !.row = r, !.hash = x]
  <2>1. r \in Taken /\ r \in Rows /\ result[r].work \in Items
    BY <1>i DEF RowsIn, Taken, RowsOK
  <2>2. p \in HandProc /\ HandOK(p)
    BY <1>i, <2>1 DEF HandProc, HandOK, IdleHand
  <2> HIDE DEF p
  <2> QED
    BY <1>1, <2>2, HandStill DEF ResultRequest, p
<1>2. CASE CancelRead(h) \/ DisputeRead(h)
  <2> PICK i \in Items, pc \in {"cancel", "dispute"} :
        HandGoes(h, [IdleHand EXCEPT !.pc = pc, !.work = i])
    BY <1>2 DEF CancelRead, DisputeRead
  <2> DEFINE p == [IdleHand EXCEPT !.pc = pc, !.work = i]
  <2>1. p \in HandProc /\ HandOK(p)
    BY <1>i DEF HandProc, HandOK, IdleHand
  <2> HIDE DEF p
  <2> QED
    BY <1>2, <2>1, HandStill DEF CancelRead, DisputeRead, p
<1>3. CASE BeatRead(h)
  <2> PICK w \in Workers : HandGoes(h, [IdleHand EXCEPT !.pc = "beat", !.by = w])
    BY <1>3 DEF BeatRead
  <2> DEFINE p == [IdleHand EXCEPT !.pc = "beat", !.by = w]
  <2>1. p \in HandProc /\ HandOK(p)
    BY <1>i DEF HandProc, HandOK, IdleHand
  <2> HIDE DEF p
  <2> QED
    BY <1>3, <2>1, HandStill DEF BeatRead, p
<1>4. CASE ManualRead(h)
  <2> PICK i \in Items, w \in Workers :
        HandGoes(h, [IdleHand EXCEPT !.pc = "claim", !.work = i, !.by = w])
    BY <1>4 DEF ManualRead
  <2> DEFINE p == [IdleHand EXCEPT !.pc = "claim", !.work = i, !.by = w]
  <2>1. p \in HandProc /\ HandOK(p)
    BY <1>i DEF HandProc, HandOK, IdleHand
  <2> HIDE DEF p
  <2> QED
    BY <1>4, <2>1, HandStill DEF ManualRead, p
<1> QED
  BY <1>1, <1>2, <1>3, <1>4 DEF Request

LEMMA HandWellFormed ==
  ASSUME WellFormed, NEW h \in Handlers, HandStep(h) \/ HandFault(h)
  PROVE  WellFormed'
<1> USE DEF HandAt
<1>h. /\ TypeOK /\ hand[h] \in HandProc /\ HandOK(hand[h]) /\ IdleHand \in HandProc
      /\ HandOK(IdleHand)
      /\ \A r \in Taken : result[r].by \in Workers /\ result[r].work \in Items
      /\ RowsIn("submitted") \subseteq Taken
  BY IdleHandFits DEF WellFormed, TypeOK, RowsOK, RowsIn, Taken
<1>g. ASSUME RowsKept, NEW p, p \in HandProc, HandGoes(h, p), HandOK(hand[h])',
             UNCHANGED <<item, worker, audit, tick, bill, overlaps, ledger, faults>>
      PROVE  WellFormed'
  <2>1. TypeOK'
    BY <1>g, <1>h DEF TypeOK, RowsKept, HandGoes
  <2>2. \A g \in Handlers : HandOK(hand[g])'
    <3> SUFFICES ASSUME NEW g \in Handlers PROVE HandOK(hand[g])'
      OBVIOUS
    <3>1. CASE g = h
      BY <1>g, <3>1
    <3>2. CASE g # h
      <4>1. hand'[g] = hand[g]
        BY <1>g, <1>h, <3>2 DEF HandGoes, TypeOK
      <4> QED
        BY <1>g, <4>1, KeptByHands
    <3> QED
      BY <3>1, <3>2
  <2>3. \A t \in Ticks : TickOK(tick[t])'
    BY <1>g DEF WellFormed, TickOK, RowsKept
  <2> QED
    BY <1>g, <2>1, <2>2, <2>3 DEF WellFormed, RowsKept
<1>1. CASE StoreResult(h)
  <2> DEFINE q == hand[h].row
             x == hand[h].hash
             new == [result[q] EXCEPT !.status = "submitted", !.hash = x]
             f == [r \in Rows |-> new]
             p == [IdleHand EXCEPT !.pc = "count", !.work = hand[h].work]
  <2>1. q \in Taken /\ q \in Rows /\ x \in Hashes /\ hand[h].work \in Items
    BY <1>1, <1>h DEF StoreResult, HandOK, Taken
  <2>2. p \in HandProc /\ HandGoes(h, p)
    BY <1>1, <1>h, <2>1 DEF StoreResult, HandProc, IdleHand
  <2>3. HandOK(hand[h])'
    BY <1>h, <2>1, <2>2 DEF HandOK, IdleHand, HandGoes, TypeOK
  <2>4. result' = [result EXCEPT ![q].status = "submitted", ![q].hash = x]
    BY <1>1 DEF StoreResult
  <2> HIDE DEF q, x
  <2>5. /\ new \in ResultRow /\ new.status = "submitted"
        /\ new.work = result[q].work /\ new.by = result[q].by
    BY <1>h, <2>1 DEF TypeOK, ResultRow
  <2>6. result' = [r \in Rows |-> IF r \in {q} THEN new ELSE result[r]]
    BY <1>h, <2>1, <2>4 DEF TypeOK, ResultRow
  <2> HIDE DEF new, p
  <2>7. RowsKept
    <3>1. f[q] = new /\ result' = [r \in Rows |-> IF r \in {q} THEN f[r] ELSE result[r]]
      BY <2>1, <2>6
    <3> HIDE DEF f
    <3>2. \A r \in {q} : /\ f[r] \in ResultRow /\ f[r].status = "submitted" /\ r \in Taken
                         /\ f[r].work = result[r].work /\ f[r].by = result[r].by
      BY <2>1, <2>5, <3>1
    <3>3. {q} \in SUBSET Rows
      BY <2>1
    <3> QED
      BY <3>1, <3>2, <3>3, RewriteKeepsRows
  <2> QED
    BY <1>1, <1>g, <2>2, <2>3, <2>7 DEF StoreResult
<1>2. CASE CountSubmissions(h)
  <2>1. CASE HandGoes(h, IdleHand)
    BY <1>2, <1>h, <2>1, HandStill DEF CountSubmissions
  <2>2. CASE \E x \in Outcomes(Submitted(hand[h].work)) :
               HandGoes(h, [hand[h] EXCEPT !.pc = IF x = None THEN "dispute" ELSE "primary",
                                           !.hash = x])
    <3> PICK x \in Outcomes(Submitted(hand[h].work)) :
          HandGoes(h, [hand[h] EXCEPT !.pc = IF x = None THEN "dispute" ELSE "primary", !.hash = x])
      BY <2>2
    <3> DEFINE pc == IF x = None THEN "dispute" ELSE "primary"
               p == [hand[h] EXCEPT !.pc = pc, !.hash = x]
    <3>1. /\ x \in Hashes \cup {None} /\ pc \in {"dispute", "primary"}
          /\ pc = "primary" => x \in Hashes
      BY DEF Outcomes
    <3>p. HandGoes(h, p)
      OBVIOUS
    <3> HIDE DEF pc
    <3>2. p \in HandProc /\ HandOK(p)
      BY <1>2, <1>h, <3>1 DEF CountSubmissions, HandProc, HandOK
    <3> HIDE DEF p
    <3> QED
      BY <1>2, <3>2, <3>p, HandStill DEF CountSubmissions
  <2> QED
    BY <1>2, <2>1, <2>2 DEF CountSubmissions
<1>3. CASE ReadPrimary(h)
  <2> DEFINE S == Submitted(hand[h].work)
             agree == {r \in S : result[r].hash = hand[h].hash}
             p(q) == [hand[h] EXCEPT !.pc = "verify", !.by = result[q].by, !.todo = S \ agree]
  <2> PICK q \in S : HandGoes(h, p(q))
    BY <1>3 DEF ReadPrimary
  <2>1. result[q].by \in Workers /\ S \ agree \subseteq RowsIn("submitted")
    BY <1>h DEF Submitted
  <2>2. RowsIn("submitted") \subseteq Rows
    BY DEF RowsIn
  <2> HIDE DEF S, agree
  <2>3. p(q) \in HandProc /\ HandOK(p(q))
    BY <1>3, <1>h, <2>1, <2>2 DEF ReadPrimary, HandProc, HandOK
  <2> HIDE DEF p
  <2> QED
    BY <1>3, <2>3, HandStill DEF ReadPrimary
<1>4. CASE WriteVerified(h)
  <2> DEFINE i == hand[h].work
             x == hand[h].hash
             w == hand[h].by
  <2>1. i \in Items /\ x \in Hashes /\ w \in Workers /\ hand[h].todo \subseteq RowsIn("submitted")
    BY <1>4, <1>h DEF WriteVerified, HandOK
  <2>2. BillsFit' /\ \E p \in HandProc : HandOK(p) /\ HandGoes(h, p)
    BY <1>4, <2>1, AfterVerdictFits DEF WriteVerified
  <2>3. item' = [item EXCEPT ![i].status = "verified", ![i].hash = x, ![i].by = w]
    BY <1>4 DEF WriteVerified
  <2> HIDE DEF i, x, w
  <2>4. item' \in [Items -> ItemRow]
    <3> DEFINE new == [item[i] EXCEPT !.status = "verified", !.hash = x, !.by = w]
    <3>1. new \in ItemRow
      <4>1. item[i] \in ItemRow /\ "verified" \in ItemStatus
        BY <1>h, <2>1 DEF TypeOK, ItemStatus
      <4> QED
        BY <2>1, <4>1 DEF ItemRow
    <3>2. item' = [item EXCEPT ![i] = new]
      BY <1>h, <2>1, <2>3 DEF TypeOK, ItemRow
    <3> HIDE DEF new
    <3> QED
      BY <1>h, <3>1, <3>2 DEF TypeOK
  <2> QED
    BY <1>4, <1>h, <2>2, <2>4, HandMoves DEF WriteVerified, TypeOK
<1>5. CASE Reckon(h)
  <2> DEFINE p(r) == [hand[h] EXCEPT !.pc = "punish", !.row = r, !.by = result[r].by,
                        !.rep = worker[result[r].by].rep, !.stat = worker[result[r].by].status]
  <2> PICK r \in hand[h].todo : HandGoes(h, p(r))
    BY <1>5 DEF Reckon
  <2>1. r \in Rows /\ result[r].by \in Workers
    BY <1>h DEF HandOK, Taken
  <2>2. p(r) \in HandProc /\ HandOK(p(r))
    BY <1>5, <1>h, <2>1 DEF Reckon, HandProc, HandOK, TypeOK, WorkerRow
  <2> HIDE DEF p
  <2> QED
    BY <1>5, <2>2, HandStill DEF Reckon
<1>6. CASE Punish(h)
  <2> DEFINE rest == hand[h].todo \ {hand[h].row}
  <2>1. worker' \in [Workers -> WorkerRow]
    BY <1>6, <1>h, PenaliseTyped DEF Punish, HandProc, HandOK
  <2>2. hand[h].work \in Items /\ rest \subseteq RowsIn("submitted")
    BY <1>6, <1>h DEF Punish, HandOK
  <2>3. BillsFit' /\ \E p \in HandProc : HandOK(p) /\ HandGoes(h, p)
    BY <1>6, <2>2, AfterVerdictFits DEF Punish
  <2> QED
    BY <1>6, <1>h, <2>1, <2>3, HandMoves DEF Punish, TypeOK
<1>7. CASE WriteDisputed(h) \/ CancelWrite(h) \/ ManualRun(h)
  <2> PICK s \in {"disputed", "failed", "running"} : item' = [item EXCEPT ![hand[h].work].status = s]
    BY <1>7 DEF WriteDisputed, CancelWrite, ManualRun
  <2>1. hand[h].work \in Items /\ s \in ItemStatus
    BY <1>7, <1>h DEF WriteDisputed, CancelWrite, ManualRun, HandOK, ItemStatus
  <2>2. item' \in [Items -> ItemRow]
    BY <2>1, SetStatusTyped
  <2> QED
    BY <1>7, <1>h, <2>2, HandMoves, BillsStill
    DEF WriteDisputed, CancelWrite, ManualRun, TypeOK
<1>8. CASE HandFault(h)
  BY <1>8, <1>h, HandMoves, BillsStill DEF HandFault, TypeOK
<1>11. CASE BeatWrite(h)
  <2> DEFINE w == hand[h].by
             new == [worker[w] EXCEPT !.status = "active", !.beat = "fresh"]
             p == [hand[h] EXCEPT !.pc = "extend"]
  <2>1. w \in Workers /\ p \in HandProc /\ HandOK(p) /\ HandGoes(h, p)
    BY <1>11, <1>h DEF BeatWrite, HandProc, HandOK
  <2>2. worker' = [worker EXCEPT ![w].status = "active", ![w].beat = "fresh"]
    BY <1>11 DEF BeatWrite
  <2> HIDE DEF w, p
  <2>3. new \in WorkerRow /\ worker' = [worker EXCEPT ![w] = new]
    BY <1>h, <2>1, <2>2 DEF TypeOK, WorkerRow, WorkerStatus
  <2> HIDE DEF new
  <2>4. worker' \in [Workers -> WorkerRow]
    BY <1>h, <2>3 DEF TypeOK
  <2> QED
    BY <1>11, <1>h, <2>1, <2>4, HandMoves, BillsStill DEF BeatWrite, TypeOK
<1>12. CASE BeatExtend(h)
  <2> DEFINE S == Claims(hand[h].by)
             f == [r \in Rows |-> [result[r] EXCEPT !.lease = "live"]]
  <2>1. \A r \in S : /\ f[r] \in ResultRow /\ f[r].status = "claimed" /\ r \in Taken
                     /\ f[r].work = result[r].work /\ f[r].by = result[r].by
                     /\ result[r].status = "claimed"
    BY <1>h DEF Claims, RowsIn, Taken, TypeOK, ResultRow
  <2>2. S \in SUBSET Rows /\ result' = [r \in Rows |-> IF r \in S THEN f[r] ELSE result[r]]
    BY <1>12 DEF BeatExtend, Claims, RowsIn
  <2>3. RowsKept
    <3> HIDE DEF f, S
    <3> QED BY <2>1, <2>2, RewriteKeepsRows
  <2>4. HandOK(hand[h])'
    BY <1>12, <1>h DEF BeatExtend, HandGoes, TypeOK, HandOK, IdleHand
  <2> QED
    BY <1>12, <1>g, <1>h, <2>3, <2>4 DEF BeatExtend
<1>13. CASE ManualClaim(h)
  <2> DEFINE p == [hand[h] EXCEPT !.pc = "run"]
  <2>1. RowsKept
    BY <1>13, <1>h, ClaimKeepsRows DEF ManualClaim, HandOK
  <2>2. p \in HandProc /\ HandGoes(h, p) /\ hand'[h] = p
    BY <1>13, <1>h DEF ManualClaim, HandProc, HandGoes, TypeOK
  <2>3. HandOK(hand[h])'
    BY <1>13, <1>h, <2>1, <2>2 DEF ManualClaim, HandOK, RowsKept
  <2> HIDE DEF p
  <2> QED
    BY <1>13, <1>g, <2>1, <2>2, <2>3 DEF ManualClaim
<1> QED
  BY <1>1, <1>2, <1>3, <1>4, <1>5, <1>6, <1>7, <1>8, <1>11, <1>12, <1>13 DEF HandStep

-----------------------------------------------------------------------------
(* The billings.                                                           *)

LEMMA BillsApart ==
  ASSUME NEW b \in Billers, BillStep(b) \/ PostTimesOut(b) \/ BillFault(b)
  PROVE  UNCHANGED <<item, worker, result, tick, hand, overlaps>>
BY DEF BillStep, BillItem, BillAudit, PostUsage, LogBilling, PostTimesOut, BillFault

\* A billing goes on with its item or ends.
LEMMA BillMoves ==
  ASSUME NEW b \in Billers, BillStep(b) \/ PostTimesOut(b) \/ BillFault(b)
  PROVE  /\ bill[b].pc # "idle"
         /\ \/ BillGoes(b, IdleBill)
            \/ \E pc \in {"audit", "post", "log"} : BillTo(b, pc)
BY DEF BillStep, BillItem, BillAudit, PostUsage, LogBilling, PostTimesOut, BillFault, BillAt

LEMMA BillWellFormed ==
  ASSUME WellFormed, NEW b \in Billers, BillStep(b) \/ PostTimesOut(b) \/ BillFault(b)
  PROVE  WellFormed'
<1>t. /\ TypeOK /\ bill[b] \in BillProc /\ bill[b].work \in Items /\ IdleBill \in BillProc
      /\ bill[b].pc # "idle"
  BY BillMoves DEF WellFormed, TypeOK, BillProc, IdleBill
<1>1. PICK p \in BillProc : BillGoes(b, p) /\ (p # IdleBill => p.work \in Items)
  <2>1. CASE BillGoes(b, IdleBill)
    BY <1>t, <2>1
  <2>2. ASSUME NEW pc \in {"audit", "post", "log"}, BillTo(b, pc)
        PROVE  \E p \in BillProc : BillGoes(b, p) /\ (p # IdleBill => p.work \in Items)
    <3> DEFINE p == [bill[b] EXCEPT !.pc = pc]
    <3>1. p \in BillProc /\ p.work \in Items /\ BillGoes(b, p)
      BY <1>t, <2>2 DEF BillTo, BillProc
    <3> HIDE DEF p
    <3> QED
      BY <3>1
  <2> QED
    BY <2>1, <2>2, BillMoves
<1>2. bill' \in [Billers -> BillProc]
  BY <1>t, <1>1 DEF BillGoes, TypeOK
<1>3. \A c \in Billers : bill'[c] # IdleBill => bill'[c].work \in Items
  BY <1>t, <1>1 DEF BillGoes, TypeOK, WellFormed
<1>4. audit' \in [Items -> BOOLEAN] /\ ledger' \in [Items -> Nat] /\ faults' \in Nat
  <2>1. audit \in [Items -> BOOLEAN] /\ ledger \in [Items -> Nat] /\ faults \in Nat
    BY <1>t DEF TypeOK
  <2>2. CASE PostUsage(b)
    <3>1. ledger' \in [Items -> Nat]
      BY <1>t, <2>1, <2>2 DEF PostUsage
    <3> QED
      BY <2>1, <2>2, <3>1 DEF PostUsage
  <2>3. CASE PostTimesOut(b)
    <3>1. ledger' \in [Items -> Nat]
      BY <1>t, <2>1, <2>3 DEF PostTimesOut
    <3> QED
      BY <2>1, <2>3, <3>1 DEF PostTimesOut
  <2>4. CASE BillItem(b) \/ BillAudit(b)
    BY <2>1, <2>4 DEF BillItem, BillAudit
  <2>5. CASE LogBilling(b)
    BY <2>1, <2>5 DEF LogBilling
  <2>6. CASE BillFault(b)
    BY <2>1, <2>6 DEF BillFault
  <2> QED
    BY <2>2, <2>3, <2>4, <2>5, <2>6 DEF BillStep
<1>5. TypeOK'
  BY <1>t, <1>2, <1>4, BillsApart DEF TypeOK
<1>6. RowsOK' /\ (\A t \in Ticks : TickOK(tick[t])') /\ (\A h \in Handlers : HandOK(hand[h])')
  BY BillsApart DEF WellFormed, RowsOK, Taken, RowsIn, TickOK, HandOK
<1> QED
  BY <1>3, <1>5, <1>6 DEF WellFormed

-----------------------------------------------------------------------------
(* The clock, the machine and the two registration routes.                 *)

LEMMA WorldWellFormed ==
  ASSUME WellFormed,
         \/ \E i \in Items : SubmitWorkItem(i)
         \/ \E w \in Workers : RegisterWorker(w) \/ BeatGrowsStale(w)
         \/ \E r \in Rows : LeaseLapses(r)
         \/ Crash
  PROVE  WellFormed'
<1>i. TypeOK /\ IdleTick \in TickProc /\ IdleHand \in HandProc /\ IdleBill \in BillProc
  BY NumbersAssumption, IdleHandFits
  DEF WellFormed, IdleTick, TickProc, Reputation, WorkerStatus, IdleBill, BillProc
<1>s. ASSUME UNCHANGED <<result, tick, hand, bill>>, TypeOK' PROVE WellFormed'
  BY <1>s DEF WellFormed, RowsOK, Taken, RowsIn, TickOK, HandOK
<1>1. ASSUME NEW i \in Items, SubmitWorkItem(i) PROVE WellFormed'
  <2> DEFINE n == Cardinality({j \in Items : item[j].status # "none"})
             new == [item[i] EXCEPT !.status = "queued", !.age = n]
  <2>1. n \in Nat
    <3>1. IsFiniteSet({j \in Items : item[j].status # "none"})
      BY SetsAssumption, FS_Subset
    <3> QED
      BY <3>1, FS_CardinalityType
  <2>2. item' = [item EXCEPT ![i].status = "queued", ![i].age = n]
    BY <1>1 DEF SubmitWorkItem
  <2> HIDE DEF n
  <2>3. new \in ItemRow /\ item' = [item EXCEPT ![i] = new]
    BY <1>i, <2>1, <2>2 DEF TypeOK, ItemRow, ItemStatus
  <2> HIDE DEF new
  <2>4. TypeOK'
    BY <1>1, <1>i, <2>3 DEF SubmitWorkItem, TypeOK
  <2> QED
    BY <1>1, <1>s, <2>4 DEF SubmitWorkItem
<1>2. ASSUME NEW w \in Workers, RegisterWorker(w) \/ BeatGrowsStale(w) PROVE WellFormed'
  <2>1. worker' \in [Workers -> WorkerRow]
    BY <1>2, <1>i DEF RegisterWorker, BeatGrowsStale, TypeOK, WorkerRow, WorkerStatus
  <2>2. TypeOK'
    BY <1>2, <1>i, <2>1 DEF RegisterWorker, BeatGrowsStale, TypeOK
  <2> QED
    BY <1>2, <1>s, <2>2 DEF RegisterWorker, BeatGrowsStale
<1>3. ASSUME NEW r \in Rows, LeaseLapses(r) PROVE WellFormed'
  <2> DEFINE new == [result[r] EXCEPT !.lease = "lapsed"]
             f == [q \in Rows |-> new]
  <2>1. /\ new \in ResultRow /\ new.status = "claimed" /\ result[r].status = "claimed"
        /\ new.work = result[r].work /\ new.by = result[r].by /\ r \in Taken
    BY <1>3, <1>i DEF LeaseLapses, TypeOK, ResultRow, Taken
  <2>2. result' = [q \in Rows |-> IF q \in {r} THEN f[q] ELSE result[q]] /\ f[r] = new
    BY <1>3, <1>i DEF LeaseLapses, TypeOK
  <2>3. {r} \in SUBSET Rows
    OBVIOUS
  <2> HIDE DEF f, new
  <2>4. RowsKept
    BY <2>1, <2>2, <2>3, RewriteKeepsRows
  <2>5. TypeOK'
    BY <1>3, <1>i, <2>4 DEF LeaseLapses, TypeOK, RowsKept
  <2>6. \A t \in Ticks : TickOK(tick[t])'
    BY <1>3, <2>4 DEF LeaseLapses, WellFormed, TickOK, RowsKept
  <2>7. \A h \in Handlers : HandOK(hand[h])'
    BY <1>3, <2>4, KeptByHands DEF LeaseLapses
  <2> QED
    BY <1>3, <2>4, <2>5, <2>6, <2>7 DEF WellFormed, RowsKept, LeaseLapses
<1>4. CASE Crash
  <2>1. TypeOK'
    BY <1>4, <1>i, NumbersAssumption DEF Crash, TypeOK
  <2>2. RowsOK'
    BY <1>4 DEF Crash, WellFormed, RowsOK, Taken
  <2>3. (\A t \in Ticks : TickOK(tick[t])') /\ (\A h \in Handlers : HandOK(hand[h])')
    BY <1>4 DEF Crash, TickOK, HandOK, IdleTick, IdleHand
  <2>4. \A b \in Billers : bill'[b] = IdleBill
    BY <1>4 DEF Crash
  <2> QED
    BY <2>1, <2>2, <2>3, <2>4 DEF WellFormed
<1> QED
  BY <1>1, <1>2, <1>3, <1>4

LEMMA NextWellFormed == WellFormed /\ [Next]_vars => WellFormed'
<1> SUFFICES ASSUME WellFormed, [Next]_vars PROVE WellFormed'
  OBVIOUS
<1>1. CASE UNCHANGED vars
  BY <1>1 DEF vars, WellFormed, TypeOK, RowsOK, Taken, RowsIn, TickOK, HandOK
<1>2. CASE Next
  BY <1>2, TickWellFormed, RequestWellFormed, HandWellFormed, BillWellFormed, WorldWellFormed
  DEF Next
<1> QED
  BY <1>1, <1>2

\* TypeOK holds in every reachable state: whatever the interleaving, no process
\* dereferences a row, a worker or an item that is not there.
THEOREM TypeCorrect == Spec => []TypeOK
<1>1. Spec => []WellFormed
  BY InitWellFormed, NextWellFormed, PTL DEF Spec
<1>2. WellFormed => TypeOK
  BY DEF WellFormed
<1> QED
  BY <1>1, <1>2, PTL

-----------------------------------------------------------------------------
(* Answers and verdicts.                                                   *)

\* An answer that was accepted stays: its row stays submitted, for its item and
\* from its worker.
LEMMA AnswerKept ==
  ASSUME WellFormed, [Next]_vars, NEW i \in Items, NEW r \in Submitted(i)
  PROVE  r \in Submitted(i)' /\ result'[r].by = result[r].by
<1> USE DEF Submitted, RowsIn
<1>r. /\ r \in Rows /\ result[r].status = "submitted" /\ result[r].work = i
      /\ result \in [Rows -> ResultRow]
  BY DEF WellFormed, TypeOK
<1>1. CASE UNCHANGED result
  BY <1>1
<1>2. ASSUME NEW t \in Ticks, TickExpire(t) PROVE r \in Submitted(i)' /\ result'[r].by = result[r].by
  BY <1>2, <1>r DEF TickExpire, Lapsed
<1>3. ASSUME NEW j, NEW w, NEW via, ClaimRow(j, w, via)
      PROVE  r \in Submitted(i)' /\ result'[r].by = result[r].by
  <2> DEFINE q == CHOOSE x \in Spare : TRUE
  <2>1. q \in Spare
    BY <1>3 DEF ClaimRow
  <2>2. q # r
    BY <1>r, <2>1 DEF Spare
  <2>3. result'[r] = result[r]
    BY <1>3, <1>r, <2>2 DEF ClaimRow
  <2> QED
    BY <1>r, <2>3
<1>4. ASSUME NEW h \in Handlers, StoreResult(h)
      PROVE  r \in Submitted(i)' /\ result'[r].by = result[r].by
  BY <1>4, <1>r DEF StoreResult, ResultRow
<1>5. ASSUME NEW h \in Handlers, BeatExtend(h)
      PROVE  r \in Submitted(i)' /\ result'[r].by = result[r].by
  BY <1>5, <1>r DEF BeatExtend, Claims
<1>6. ASSUME NEW q \in Rows, LeaseLapses(q)
      PROVE  r \in Submitted(i)' /\ result'[r].by = result[r].by
  BY <1>6, <1>r DEF LeaseLapses, ResultRow
<1>t. ASSUME NEW t \in Ticks, TickStep(t) \/ TickFault(t)
      PROVE  r \in Submitted(i)' /\ result'[r].by = result[r].by
  <2>1. \/ TickExpire(t) \/ ClaimRow(tick[t].work, tick[t].by, "tick") \/ UNCHANGED result
    BY <1>t DEF TickStep, TickRequeue, TickReckon, TickPunish, TickList, TickLook, TickPick,
                TickClaim, TickRun, TickSweep, TickFault
  <2> QED
    BY <1>1, <1>2, <1>3, <2>1
<1>h. ASSUME NEW h \in Handlers, Request(h) \/ HandStep(h) \/ HandFault(h)
      PROVE  r \in Submitted(i)' /\ result'[r].by = result[r].by
  <2>1. \/ StoreResult(h) \/ BeatExtend(h) \/ ClaimRow(hand[h].work, hand[h].by, "manual")
        \/ UNCHANGED result
    BY <1>h DEF Request, HandStep, ResultRequest, CancelRead, DisputeRead, BeatRead, ManualRead,
                CountSubmissions, ReadPrimary, WriteVerified, Reckon, Punish, WriteDisputed,
                CancelWrite, BeatWrite, ManualClaim, ManualRun, HandFault
  <2> QED
    BY <1>1, <1>3, <1>4, <1>5, <2>1
<1> QED
  BY <1>1, <1>6, <1>t, <1>h, BillsApart
  DEF Next, vars, SubmitWorkItem, RegisterWorker, BeatGrowsStale, Crash

LEMMA QuorumKept ==
  ASSUME WellFormed, [Next]_vars, NEW i \in Items
  PROVE  /\ HasQuorum(i) => HasQuorum(i)'
         /\ \A w : Answered(i, w) => (\E r \in Submitted(i)' : result'[r].by = w)
<1>1. Submitted(i) \subseteq Submitted(i)'
  BY AnswerKept
<1>2. IsFiniteSet(Submitted(i)) /\ IsFiniteSet(Submitted(i)')
  BY SetsAssumption, FS_Subset DEF Submitted, RowsIn
<1>3. Cardinality(Submitted(i)) <= Cardinality(Submitted(i)')
  BY <1>1, <1>2, FS_Subset
<1>4. Cardinality(Submitted(i)) \in Nat /\ Cardinality(Submitted(i)') \in Nat
  BY <1>2, FS_CardinalityType
<1>5. Replicas[i] \in Nat
  BY ReplicasAssumption
<1> QED
  BY <1>3, <1>4, <1>5, AnswerKept DEF HasQuorum, Answered

\* The columns of the verdict change in one statement only.
LEMMA VerdictWritten ==
  ASSUME WellFormed, [Next]_vars, NEW i \in Items
  PROVE  \/ item'[i].hash = item[i].hash /\ item'[i].by = item[i].by
         \/ \E h \in Handlers : /\ WriteVerified(h)
                               /\ hand[h].pc = "verify" /\ hand[h].work = i
                               /\ item'[i].hash = hand[h].hash /\ item'[i].by = hand[h].by
<1>i. item \in [Items -> ItemRow] /\ item[i] \in ItemRow
  BY DEF WellFormed, TypeOK
<1>1. ASSUME NEW j, NEW s, item' = [item EXCEPT ![j].status = s]
      PROVE  item'[i].hash = item[i].hash /\ item'[i].by = item[i].by
  BY <1>1, <1>i DEF ItemRow
<1>2. ASSUME NEW h \in Handlers, WriteVerified(h)
      PROVE  \/ item'[i] = item[i]
             \/ /\ hand[h].pc = "verify" /\ hand[h].work = i
                /\ item'[i].hash = hand[h].hash /\ item'[i].by = hand[h].by
  BY <1>2, <1>i DEF WriteVerified, HandAt, ItemRow
<1>3. ASSUME NEW j \in Items, SubmitWorkItem(j)
      PROVE  item'[i].hash = item[i].hash /\ item'[i].by = item[i].by
  BY <1>3, <1>i DEF SubmitWorkItem, ItemRow
<1>t. ASSUME NEW t \in Ticks, TickStep(t) \/ TickFault(t)
      PROVE  item'[i].hash = item[i].hash /\ item'[i].by = item[i].by
  <2>1. CASE TickRequeue(t)
    BY <1>1, <2>1 DEF TickRequeue
  <2>2. CASE TickRun(t)
    BY <1>1, <2>2 DEF TickRun
  <2>3. CASE UNCHANGED item
    BY <2>3
  <2> QED
    BY <1>t, <2>1, <2>2, <2>3
    DEF TickStep, TickExpire, TickReckon, TickPunish, TickList, TickLook, TickPick, TickClaim,
        TickSweep, TickFault
<1>h. ASSUME NEW h \in Handlers, Request(h) \/ HandStep(h) \/ HandFault(h)
      PROVE  \/ item'[i].hash = item[i].hash /\ item'[i].by = item[i].by
             \/ /\ WriteVerified(h)
                /\ hand[h].pc = "verify" /\ hand[h].work = i
                /\ item'[i].hash = hand[h].hash /\ item'[i].by = hand[h].by
  <2>1. CASE WriteDisputed(h)
    BY <1>1, <2>1 DEF WriteDisputed
  <2>2. CASE CancelWrite(h)
    BY <1>1, <2>2 DEF CancelWrite
  <2>3. CASE ManualRun(h)
    BY <1>1, <2>3 DEF ManualRun
  <2>4. CASE WriteVerified(h)
    BY <1>2, <2>4
  <2>5. CASE UNCHANGED item
    BY <2>5
  <2> QED
    BY <1>h, <2>1, <2>2, <2>3, <2>4, <2>5
    DEF Request, HandStep, ResultRequest, CancelRead, DisputeRead, BeatRead, ManualRead,
        StoreResult, CountSubmissions, ReadPrimary, Reckon, Punish, BeatWrite, BeatExtend,
        ManualClaim, HandFault
<1> QED
  BY <1>3, <1>t, <1>h, BillsApart
  DEF Next, vars, RegisterWorker, BeatGrowsStale, LeaseLapses, Crash

\* The decided items of the first half of VerdictHasQuorum.
LEMMA ItemsKeepQuorum ==
  ASSUME WellFormed, VerdictHasQuorum, [Next]_vars, NEW i \in Items
  PROVE  /\ item[i].hash # None => item'[i].hash # None
         /\ item'[i].hash # None => HasQuorum(i)' /\ Answered(i, item[i].by)'
<1>1. CASE item'[i].hash = item[i].hash /\ item'[i].by = item[i].by
  BY <1>1, QuorumKept DEF VerdictHasQuorum, Answered
<1>2. ASSUME NEW h \in Handlers, hand[h].pc = "verify", hand[h].work = i,
             item'[i].hash = hand[h].hash, item'[i].by = hand[h].by
      PROVE  item'[i].hash # None /\ HasQuorum(i)' /\ Answered(i, item[i].by)'
  <2>1. hand[h].hash # None
    BY <1>2, SetsAssumption DEF WellFormed, HandOK
  <2>2. HasQuorum(i) /\ Answered(i, hand[h].by)
    BY <1>2 DEF VerdictHasQuorum, Backed
  <2> QED
    BY <1>2, <2>1, <2>2, QuorumKept DEF Answered
<1> QED
  BY <1>1, <1>2, VerdictWritten

\* The verifiers of its second half: what backs the locals of one lasts ...
LEMMA BackingLasts ==
  ASSUME WellFormed, VerdictHasQuorum, [Next]_vars, NEW p, p.work \in Items, Backed(p)
  PROVE  Backed(p)'
<1> DEFINE i == p.work
<1>1. /\ HasQuorum(i) => HasQuorum(i)'
      /\ item[i].hash # None => item'[i].hash # None
  BY QuorumKept, ItemsKeepQuorum
<1>2. Answered(i, p.by) => Answered(i, p.by)'
  BY QuorumKept DEF Answered
<1> QED
  BY <1>1, <1>2 DEF Backed

\* ... and its locals change in these steps only.
LEMMA VerifierSteps ==
  ASSUME WellFormed, [Next]_vars, NEW h \in Handlers
  PROVE  \/ hand'[h] = hand[h]
         \/ hand'[h].pc \in {"idle", "store", "count", "dispute", "cancel", "beat", "extend",
                             "claim", "run"}
         \/ CountSubmissions(h) \/ ReadPrimary(h) \/ WriteVerified(h) \/ Reckon(h) \/ Punish(h)
<1>h. /\ hand \in [Handlers -> HandProc] /\ hand[h] \in HandProc /\ IdleHand \in HandProc
      /\ IdleHand.pc = "idle"
  BY IdleHandFits DEF WellFormed, TypeOK, IdleHand
<1> DEFINE Elsewhere == {"idle", "store", "count", "dispute", "cancel", "beat", "extend",
                         "claim", "run"}
<1>1. ASSUME NEW k \in Handlers, NEW p, HandGoes(k, p) PROVE hand'[h] = IF h = k THEN p ELSE hand[h]
  BY <1>1, <1>h DEF HandGoes
<1>2. CASE Request(h) \/ StoreResult(h) \/ BeatWrite(h) \/ ManualClaim(h)
  <2>1. CASE ResultRequest(h)
    BY <2>1, <1>h DEF ResultRequest, HandGoes, IdleHand, HandProc
  <2>2. CASE CancelRead(h)
    BY <2>2, <1>h DEF CancelRead, HandGoes, IdleHand, HandProc
  <2>3. CASE DisputeRead(h)
    BY <2>3, <1>h DEF DisputeRead, HandGoes, IdleHand, HandProc
  <2>4. CASE BeatRead(h)
    BY <2>4, <1>h DEF BeatRead, HandGoes, IdleHand, HandProc
  <2>5. CASE ManualRead(h)
    BY <2>5, <1>h DEF ManualRead, HandGoes, IdleHand, HandProc
  <2>6. CASE StoreResult(h)
    BY <2>6, <1>h DEF StoreResult, HandGoes, IdleHand, HandProc
  <2>7. CASE BeatWrite(h)
    BY <2>7, <1>h DEF BeatWrite, HandGoes, IdleHand, HandProc
  <2>8. CASE ManualClaim(h)
    BY <2>8, <1>h DEF ManualClaim, HandGoes, IdleHand, HandProc
  <2> QED
    BY <1>2, <2>1, <2>2, <2>3, <2>4, <2>5, <2>6, <2>7, <2>8 DEF Request
<1>3. CASE \/ WriteDisputed(h) \/ CancelWrite(h) \/ BeatExtend(h) \/ ManualRun(h) \/ HandFault(h)
  BY <1>3, <1>h, <1>1 DEF WriteDisputed, CancelWrite, BeatExtend, ManualRun, HandFault
<1>4. ASSUME NEW k \in Handlers, k # h,
             Request(k) \/ HandStep(k) \/ HandFault(k)
      PROVE  hand'[h] = hand[h]
  <2>1. \E p : HandGoes(k, p)
    BY <1>4, AfterVerdictGoes DEF Request, HandStep, ResultRequest, CancelRead, DisputeRead,
        BeatRead, ManualRead, StoreResult, CountSubmissions, ReadPrimary, WriteVerified, Reckon,
        Punish, WriteDisputed, CancelWrite, BeatWrite, BeatExtend, ManualClaim, ManualRun,
        HandFault
  <2> QED
    BY <1>1, <1>4, <2>1
<1>5. ASSUME NEW t \in Ticks, TickStep(t) \/ TickFault(t) PROVE hand'[h] = hand[h]
  BY <1>5 DEF TickStep, TickExpire, TickRequeue, TickReckon, TickPunish, TickList, TickLook,
              TickPick, TickClaim, TickRun, TickSweep, TickFault
<1>6. CASE Crash
  BY <1>6, <1>h DEF Crash
<1> QED
  BY <1>2, <1>3, <1>4, <1>5, <1>6, BillsApart
  DEF Next, HandStep, vars, SubmitWorkItem, RegisterWorker, BeatGrowsStale, LeaseLapses

\* The step that counts enough answers, and the one that picks the primary one.
LEMMA CountedEnough ==
  ASSUME WellFormed, NEW h \in Handlers, CountSubmissions(h), NEW p, p = hand'[h]
  PROVE  Backed(p)
<1>h. hand \in [Handlers -> HandProc] /\ hand[h] \in HandProc /\ IdleHand.pc = "idle"
  BY DEF WellFormed, TypeOK, IdleHand
<1>1. CASE HandGoes(h, IdleHand)
  BY <1>1, <1>h DEF HandGoes, Backed
<1>2. CASE /\ Enough(hand[h].work)
           /\ \E x, pc : HandGoes(h, [hand[h] EXCEPT !.pc = pc, !.hash = x])
                         /\ pc \in {"dispute", "primary"}
  <2>1. p.work = hand[h].work /\ p.pc \in {"dispute", "primary"}
    BY <1>2, <1>h DEF HandGoes, HandProc
  <2>2. HasQuorum(hand[h].work)
    BY <1>2 DEF Enough, HasQuorum
  <2> QED
    BY <2>1, <2>2 DEF Backed
<1> QED
  BY <1>1, <1>2 DEF CountSubmissions

LEMMA PrimaryAnswered ==
  ASSUME WellFormed, NEW h \in Handlers, Backed(hand[h]), ReadPrimary(h), NEW p, p = hand'[h]
  PROVE  Backed(p)
<1>h. hand \in [Handlers -> HandProc] /\ hand[h] \in HandProc /\ hand[h].pc = "primary"
  BY DEF WellFormed, TypeOK, ReadPrimary, HandAt
<1> DEFINE S == Submitted(hand[h].work)
           agree == {r \in S : result[r].hash = hand[h].hash}
<1>1. PICK q \in S : HandGoes(h, [hand[h] EXCEPT !.pc = "verify", !.by = result[q].by,
                                                 !.todo = S \ agree])
  BY DEF ReadPrimary
<1>2. p.work = hand[h].work /\ p.pc = "verify" /\ p.by = result[q].by
  BY <1>1, <1>h DEF HandGoes, HandProc
<1>3. HasQuorum(hand[h].work)
  BY <1>h DEF Backed
<1> QED
  BY <1>1, <1>2, <1>3 DEF Backed, Answered

\* Everything after the verdict keeps working for a decided item.
LEMMA HandsStayBacked ==
  ASSUME WellFormed, VerdictHasQuorum, [Next]_vars, NEW h \in Handlers
  PROVE  Backed(hand[h])'
<1>h. /\ Backed(hand[h]) /\ HandOK(hand[h]) /\ hand \in [Handlers -> HandProc]
      /\ hand[h] \in HandProc
  BY DEF VerdictHasQuorum, WellFormed, TypeOK
<1>n. HandOK(hand[h])'
  BY NextWellFormed DEF WellFormed
<1> PICK p : p = hand'[h]
  OBVIOUS
<1>b. SUFFICES Backed(p)'
  BY DEF Backed, HasQuorum, Answered, Submitted, RowsIn
<1>1. CASE p.pc \in {"idle", "store", "count", "dispute", "cancel", "beat", "extend", "claim", "run"}
  BY <1>1 DEF Backed
<1>2. ASSUME p.work \in Items, Backed(p) PROVE Backed(p)'
  BY <1>2, BackingLasts
<1>w. p.pc \notin {"idle", "beat", "extend"} => p.work \in Items
  BY <1>n DEF HandOK
<1>3. CASE p = hand[h]
  BY <1>1, <1>2, <1>3, <1>h, <1>w
<1>4. CASE CountSubmissions(h)
  BY <1>1, <1>2, <1>4, <1>w, CountedEnough
<1>5. CASE ReadPrimary(h)
  BY <1>1, <1>2, <1>5, <1>h, <1>w, PrimaryAnswered
<1>a. ASSUME NEW todo, AfterVerdict(h, todo)
      PROVE  p.pc = "idle" \/ (p.work = hand[h].work /\ p.pc = "reckon")
  <2>1. ASSUME NEW q, HandGoes(h, q) PROVE p = q
    BY <2>1, <1>h DEF HandGoes
  <2> DEFINE q == [IdleHand EXCEPT !.pc = "reckon", !.work = hand[h].work, !.todo = todo]
  <2>2. IdleHand.pc = "idle" /\ q.pc = "reckon" /\ q.work = hand[h].work
    BY DEF IdleHand
  <2>3. HandGoes(h, q) \/ HandGoes(h, IdleHand)
    BY <1>a, AfterVerdictGoes
  <2> HIDE DEF q
  <2> QED
    BY <2>1, <2>2, <2>3
<1>6. CASE WriteVerified(h)
  <2>1. /\ item \in [Items -> ItemRow] /\ hand[h].work \in Items /\ hand[h].hash # None
        /\ hand[h].work \in Items
    BY <1>6, <1>h, SetsAssumption DEF WriteVerified, HandAt, HandOK, WellFormed, TypeOK
  <2>2. p.pc = "idle" \/ (p.work = hand[h].work /\ p.pc = "reckon")
    BY <1>6, <1>a DEF WriteVerified
  <2>3. item'[hand[h].work].hash = hand[h].hash
    BY <1>6, <2>1 DEF WriteVerified, ItemRow
  <2> QED
    BY <2>1, <2>2, <2>3 DEF Backed
<1>7. CASE Reckon(h) \/ Punish(h)
  <2>1. hand[h].pc \in {"reckon", "punish"}
    BY <1>7 DEF Reckon, Punish, HandAt
  <2>2. p.pc = "idle" \/ (p.pc \in {"reckon", "punish"} /\ p.work = hand[h].work)
    <3>1. CASE Reckon(h)
      BY <3>1, <1>h DEF Reckon, HandGoes, HandProc
    <3>2. CASE Punish(h)
      BY <3>2, <1>a DEF Punish
    <3> QED
      BY <1>7, <3>1, <3>2
  <2>3. p.pc # "idle" => Backed(p)
    BY <1>h, <2>1, <2>2 DEF Backed
  <2> QED
    BY <1>1, <1>2, <1>w, <2>2, <2>3
<1> QED
  BY <1>1, <1>3, <1>4, <1>5, <1>6, <1>7, VerifierSteps

\* A billing begins for a decided item and keeps to it.
LEMMA BillsStayBacked ==
  ASSUME WellFormed, VerdictHasQuorum, [Next]_vars, NEW b \in Billers, bill'[b] # IdleBill
  PROVE  item'[bill'[b].work].hash # None
<1>t. /\ bill \in [Billers -> BillProc] /\ item \in [Items -> ItemRow]
      /\ \A c \in Billers : bill[c] # IdleBill => bill[c].work \in Items
  BY DEF WellFormed, TypeOK
<1>1. ASSUME bill[b] # IdleBill, bill'[b].work = bill[b].work PROVE item'[bill'[b].work].hash # None
  <2>1. bill[b].work \in Items /\ item[bill[b].work].hash # None
    BY <1>1, <1>t DEF VerdictHasQuorum
  <2> QED
    BY <1>1, <2>1, ItemsKeepQuorum
<1>2. CASE UNCHANGED bill
  BY <1>1, <1>2
<1>3. ASSUME NEW i \in Items, NEW c \in Billers, Billing(c, i), item'[i].hash # None
      PROVE  item'[bill'[b].work].hash # None
  <2>1. CASE b = c
    BY <1>t, <1>3, <2>1 DEF Billing
  <2>2. CASE b # c
    <3>1. bill'[b] = bill[b]
      BY <1>t, <1>3, <2>2 DEF Billing
    <3> QED
      BY <1>1, <3>1
  <2> QED
    BY <2>1, <2>2
<1>4. ASSUME NEW c \in Billers, BillStep(c) \/ PostTimesOut(c) \/ BillFault(c)
      PROVE  item'[bill'[b].work].hash # None
  <2>1. CASE b = c
    <3>1. bill[b] # IdleBill
      BY <1>4, <2>1, BillMoves DEF IdleBill
    <3>2. bill'[b].work = bill[b].work
      BY <1>t, <1>4, <2>1, BillMoves DEF BillGoes, BillTo, BillProc
    <3> QED
      BY <1>1, <3>1, <3>2
  <2>2. CASE b # c
    <3>1. bill'[b] = bill[b]
      BY <1>t, <1>4, <2>2, BillMoves DEF BillGoes, BillTo
    <3> QED
      BY <1>1, <3>1
  <2> QED
    BY <2>1, <2>2
<1>5. ASSUME NEW h \in Handlers, WriteVerified(h) \/ Punish(h)
      PROVE  item'[bill'[b].work].hash # None
  <2>1. HandOK(hand[h]) /\ Backed(hand[h])
    BY DEF WellFormed, VerdictHasQuorum
  <2>2. hand[h].work \in Items /\ item'[hand[h].work].hash # None
    <3>1. CASE WriteVerified(h)
      BY <1>t, <2>1, <3>1, SetsAssumption DEF WriteVerified, HandAt, HandOK, ItemRow
    <3>2. CASE Punish(h)
      BY <2>1, <3>2 DEF Punish, HandAt, HandOK, Backed
    <3> QED
      BY <1>5, <3>1, <3>2
  <2>3. UNCHANGED bill \/ \E c \in Billers : Billing(c, hand[h].work)
    BY <1>5, AfterVerdictGoes DEF WriteVerified, Punish
  <2> QED
    BY <1>2, <1>3, <2>2, <2>3
<1>6. ASSUME NEW t \in Ticks, TickStep(t) \/ TickFault(t) PROVE UNCHANGED bill
  BY <1>6 DEF TickStep, TickExpire, TickRequeue, TickReckon, TickPunish, TickList, TickLook,
              TickPick, TickClaim, TickRun, TickSweep, TickFault
<1>7. ASSUME NEW h \in Handlers, Request(h) \/ HandStep(h) \/ HandFault(h)
      PROVE  UNCHANGED bill \/ WriteVerified(h) \/ Punish(h)
  BY <1>7 DEF Request, HandStep, ResultRequest, CancelRead, DisputeRead, BeatRead, ManualRead,
              StoreResult, CountSubmissions, ReadPrimary, Reckon, WriteDisputed, CancelWrite,
              BeatWrite, BeatExtend, ManualClaim, ManualRun, HandFault
<1>8. CASE Crash
  BY <1>8 DEF Crash
<1> QED
  BY <1>2, <1>4, <1>5, <1>6, <1>7, <1>8
  DEF Next, vars, SubmitWorkItem, RegisterWorker, BeatGrowsStale, LeaseLapses

\* VerdictHasQuorum holds in every reachable state, for any number of workers,
\* ticks and requests: no interleaving of sweeps, late or duplicate answers,
\* cancellations and crashes takes away the answers a verdict stands on.
THEOREM VerdictsHaveQuorum == Spec => []VerdictHasQuorum
<1>1. Init => WellFormed /\ VerdictHasQuorum
  BY InitWellFormed DEF Init, VerdictHasQuorum, Backed, IdleHand
<1>2. WellFormed /\ VerdictHasQuorum /\ [Next]_vars => WellFormed' /\ VerdictHasQuorum'
  <2> SUFFICES ASSUME WellFormed, VerdictHasQuorum, [Next]_vars
               PROVE  WellFormed' /\ VerdictHasQuorum'
    OBVIOUS
  <2>1. WellFormed'
    BY NextWellFormed
  <2>2. \A i \in Items : (item[i].hash # None => HasQuorum(i) /\ Answered(i, item[i].by))'
    BY ItemsKeepQuorum
  <2>3. \A h \in Handlers : Backed(hand[h])'
    BY HandsStayBacked
  <2>4. \A b \in Billers : (bill[b] # IdleBill => item[bill[b].work].hash # None)'
    BY BillsStayBacked
  <2> QED
    BY <2>1, <2>2, <2>3, <2>4 DEF VerdictHasQuorum
<1> QED
  BY <1>1, <1>2, PTL DEF Spec

-----------------------------------------------------------------------------
(* Reputation.                                                             *)

\* DecayIsFinal holds for every number of ticks and verifiers that write
\* penalties computed from stale rows.
THEOREM DecayStaysFinal == Spec => DecayIsFinal
<1> DEFINE Low(w) == worker[w].rep < RepFloor
           P == InitRep - Decay < RepFloor => \A w \in Workers : Low(w) => worker'[w].rep < RepFloor
<1>1. ASSUME WellFormed, [Next]_vars, InitRep - Decay < RepFloor, NEW w \in Workers, Low(w)
      PROVE  worker'[w].rep < RepFloor
  <2>w. /\ worker \in [Workers -> WorkerRow] /\ worker[w].rep \in 0 .. InitRep /\ 0 < RepFloor
        /\ Decay \in Nat /\ InitRep \in Nat /\ RepFloor \in Nat /\ Low(w)
    BY <1>1, NumbersAssumption DEF WellFormed, TypeOK, WorkerRow, Reputation
  <2>1. ASSUME NEW v \in Workers, NEW rep \in 0 .. InitRep, NEW stat, Penalise(v, rep, stat)
        PROVE  worker'[w].rep < RepFloor
    <3> DEFINE new == IF rep > Decay THEN rep - Decay ELSE 0
    <3>1. new \in Nat /\ new < RepFloor
      BY <1>1, <2>w
    <3>2. worker' = [worker EXCEPT ![v].rep = new,
                                   ![v].status = IF new < RepFloor THEN "suspended" ELSE stat]
      BY <2>1 DEF Penalise
    <3> HIDE DEF new
    <3>3. worker'[w].rep = IF w = v THEN new ELSE worker[w].rep
      BY <2>w, <3>2 DEF WorkerRow
    <3> QED
      BY <2>w, <3>1, <3>3
  <2>2. CASE worker'[w].rep = worker[w].rep
    BY <2>2, <2>w
  <2>3. ASSUME NEW t \in Ticks, TickStep(t) \/ TickFault(t)
        PROVE  worker'[w].rep < RepFloor
    <3>1. CASE TickPunish(t)
      <4>1. tick[t].by \in Workers /\ tick[t].rep \in 0 .. InitRep
        BY <1>1, <2>3, <3>1 DEF TickPunish, TickAt, WellFormed, TickOK, TypeOK, TickProc, Reputation
      <4> QED
        BY <2>1, <3>1, <4>1 DEF TickPunish
    <3>2. CASE TickSweep(t)
      BY <2>2, <2>w, <3>2 DEF TickSweep, WorkerRow
    <3>3. CASE UNCHANGED worker
      BY <2>2, <3>3
    <3> QED
      BY <2>3, <3>1, <3>2, <3>3
      DEF TickStep, TickExpire, TickRequeue, TickReckon, TickList, TickLook, TickPick, TickClaim,
          TickRun, TickFault
  <2>4. ASSUME NEW h \in Handlers,
               Request(h) \/ HandStep(h) \/ HandFault(h)
        PROVE  worker'[w].rep < RepFloor
    <3>1. CASE Punish(h)
      <4>1. hand[h].by \in Workers /\ hand[h].rep \in 0 .. InitRep
        BY <1>1, <2>4, <3>1 DEF Punish, HandAt, WellFormed, HandOK, TypeOK, HandProc, Reputation
      <4> QED
        BY <2>1, <3>1, <4>1 DEF Punish
    <3>2. CASE BeatWrite(h)
      BY <2>2, <2>w, <3>2 DEF BeatWrite, WorkerRow
    <3>3. CASE UNCHANGED worker
      BY <2>2, <3>3
    <3> QED
      BY <2>4, <3>1, <3>2, <3>3
      DEF Request, HandStep, ResultRequest, CancelRead, DisputeRead, BeatRead, ManualRead,
          StoreResult, CountSubmissions, ReadPrimary, WriteVerified, Reckon, WriteDisputed,
          CancelWrite, BeatExtend, ManualClaim, ManualRun, HandFault
  <2>5. ASSUME NEW v \in Workers, RegisterWorker(v) \/ BeatGrowsStale(v)
        PROVE  worker'[w].rep < RepFloor
    BY <2>2, <2>5, <2>w DEF RegisterWorker, BeatGrowsStale, WorkerRow
  <2>6. CASE UNCHANGED worker
    BY <2>2, <2>6
  <2> QED
    BY <1>1, <2>3, <2>4, <2>5, <2>6, BillsApart DEF Next, vars, SubmitWorkItem, LeaseLapses, Crash
<1>2. WellFormed /\ [Next]_vars => [P]_vars
  BY <1>1
<1>3. Init => WellFormed
  BY InitWellFormed
<1> QED
  BY <1>2, <1>3, NextWellFormed, PTL DEF Spec, DecayIsFinal

-----------------------------------------------------------------------------
(* The load of a worker.                                                   *)

LEMMA LoadCounts ==
  ASSUME NEW w \in Workers
  PROVE  /\ IsFiniteSet(Claims(w)) /\ IsFiniteSet(TickClaims(w)) /\ IsFiniteSet(Pending(w))
         /\ IsFiniteSet(TickClaims(w)') /\ IsFiniteSet(Pending(w)')
         /\ Cardinality(Claims(w)) \in Nat
         /\ Cardinality(TickClaims(w)) \in Nat /\ Cardinality(Pending(w)) \in Nat
         /\ Cardinality(TickClaims(w)') \in Nat /\ Cardinality(Pending(w)') \in Nat
         /\ Cardinality(TickClaims(w)) <= Cardinality(Claims(w))
         /\ Cardinality(Pending(w)') <= Cardinality(Ticks)
         /\ Cardinality(Ticks) \in Nat
<1>1. /\ Claims(w) \subseteq Rows /\ TickClaims(w) \subseteq Claims(w)
      /\ TickClaims(w)' \subseteq Rows /\ Pending(w) \subseteq Ticks /\ Pending(w)' \subseteq Ticks
  BY DEF TickClaims, Claims, RowsIn, Pending
<1>2. /\ IsFiniteSet(Claims(w)) /\ IsFiniteSet(TickClaims(w)) /\ IsFiniteSet(Pending(w))
      /\ IsFiniteSet(TickClaims(w)') /\ IsFiniteSet(Pending(w)')
  <2>1. IsFiniteSet(Claims(w)) /\ IsFiniteSet(TickClaims(w)')
    BY <1>1, SetsAssumption, FS_Subset
  <2>2. IsFiniteSet(Pending(w)) /\ IsFiniteSet(Pending(w)')
    BY <1>1, SetsAssumption, FS_Subset
  <2>3. IsFiniteSet(TickClaims(w))
    BY <1>1, <2>1, FS_Subset
  <2> QED
    BY <2>1, <2>2, <2>3
<1>3. /\ Cardinality(TickClaims(w)) <= Cardinality(Claims(w))
      /\ Cardinality(Pending(w)') <= Cardinality(Ticks)
  BY <1>1, <1>2, SetsAssumption, FS_Subset
<1> QED
  BY <1>2, <1>3, SetsAssumption, FS_CardinalityType

\* The claims a tick made, and the decision to make one, arise in two steps.
LEMMA ClaimsArise ==
  ASSUME WellFormed, [Next]_vars, NEW w \in Workers
  PROVE  /\ \/ TickClaims(w)' \subseteq TickClaims(w)
            \/ \E t \in Ticks : TickClaim(t)
         /\ \/ Pending(w)' \subseteq Pending(w)
            \/ \E t \in Ticks : TickPick(t)
<1>t. result \in [Rows -> ResultRow] /\ tick \in [Ticks -> TickProc] /\ IdleTick.pc = "idle"
  BY DEF WellFormed, TypeOK, IdleTick
<1> DEFINE RowsDone == TickClaims(w)' \subseteq TickClaims(w)
           TicksDone == Pending(w)' \subseteq Pending(w)
<1> USE DEF TickClaims, Claims, RowsIn, Pending
<1>1. ASSUME UNCHANGED result PROVE RowsDone
  BY <1>1
<1>2. ASSUME UNCHANGED tick PROVE TicksDone
  BY <1>2
<1>4. ASSUME NEW t \in Ticks, TickStep(t) \/ TickFault(t)
      PROVE  /\ RowsDone \/ TickClaim(t)
             /\ TicksDone \/ TickPick(t)
  <2>1. CASE TickExpire(t)
    <3>1. RowsDone
      BY <2>1, <1>t DEF TickExpire, ResultRow
    <3>2. TicksDone
      BY <2>1, <1>t DEF TickExpire, TickGoes, IdleTick
    <3> QED
      BY <3>1, <3>2
  <2>2. CASE TickRequeue(t)
    BY <2>2, <1>1, <1>t DEF TickRequeue, TickGoes, TickProc
  <2>3. CASE TickReckon(t)
    BY <2>3, <1>1, <1>t DEF TickReckon, TickGoes, TickProc
  <2>4. CASE TickPunish(t) \/ TickList(t)
    <3>1. CASE TickPunish(t)
      BY <3>1, <1>1, <1>t DEF TickPunish, TickGoes, IdleTick
    <3>2. CASE TickList(t)
      BY <3>2, <1>1, <1>t DEF TickList, TickGoes, IdleTick
    <3> QED
      BY <2>4, <3>1, <3>2
  <2>5. CASE TickLook(t)
    BY <2>5, <1>1, <1>t DEF TickLook, TickGoes, TickProc
  <2>6. CASE TickPick(t)
    BY <2>6, <1>1 DEF TickPick
  <2>7. CASE TickClaim(t)
    BY <2>7, <1>t DEF TickClaim, TickGoes, TickProc
  <2>8. CASE TickRun(t) \/ TickSweep(t) \/ TickFault(t)
    <3>1. CASE TickRun(t)
      BY <3>1, <1>1, <1>t DEF TickRun, Onward, TickGoes, IdleTick
    <3>2. CASE TickSweep(t)
      BY <3>2, <1>1, <1>t DEF TickSweep, TickGoes, IdleTick
    <3>3. CASE TickFault(t)
      BY <3>3, <1>1, <1>t DEF TickFault, TickGoes, IdleTick
    <3> QED
      BY <2>8, <3>1, <3>2, <3>3
  <2> QED
    BY <1>4, <2>1, <2>2, <2>3, <2>4, <2>5, <2>6, <2>7, <2>8 DEF TickStep
<1>5. ASSUME NEW h \in Handlers, Request(h) \/ HandStep(h) \/ HandFault(h)
      PROVE  RowsDone /\ TicksDone
  <2>1. CASE StoreResult(h)
    BY <2>1, <1>2, <1>t DEF StoreResult, ResultRow
  <2>2. CASE BeatExtend(h)
    BY <2>2, <1>2, <1>t DEF BeatExtend, ResultRow
  <2>3. CASE ManualClaim(h)
    BY <2>3, <1>2, <1>t DEF ManualClaim, ClaimRow, ResultRow
  <2>4. CASE UNCHANGED <<result, tick>>
    BY <2>4, <1>1, <1>2
  <2> QED
    BY <1>5, <2>1, <2>2, <2>3, <2>4
    DEF Request, HandStep, ResultRequest, CancelRead, DisputeRead, BeatRead, ManualRead,
        CountSubmissions, ReadPrimary, WriteVerified, Reckon, Punish, WriteDisputed,
        CancelWrite, BeatWrite, ManualRun, HandFault
<1>6. ASSUME NEW r \in Rows, LeaseLapses(r) PROVE RowsDone /\ TicksDone
  BY <1>2, <1>6, <1>t DEF LeaseLapses, ResultRow
<1>7. CASE Crash
  BY <1>1, <1>7, <1>t DEF Crash
<1>8. CASE UNCHANGED <<result, tick>>
  BY <1>1, <1>2, <1>8
<1> QED
  BY <1>4, <1>5, <1>6, <1>7, <1>8, BillsApart
  DEF Next, vars, SubmitWorkItem, RegisterWorker, BeatGrowsStale

\* SchedulerCap holds for any number of overlapping ticks: each of them adds at
\* most the one claim it has decided on to the cap it counted against.
THEOREM CapHolds == Spec => []SchedulerCap
<1>1. Init => SchedulerCap
  <2> SUFFICES ASSUME Init, NEW w \in Workers
               PROVE  Cardinality(TickClaims(w)) + Cardinality(Pending(w))
                        <= Cap + Cardinality(Ticks) - 1
    BY DEF SchedulerCap
  <2>1. TickClaims(w) = {} /\ Pending(w) = {}
    BY DEF Init, TickClaims, Claims, RowsIn, Pending, IdleTick
  <2>2. Cardinality(Ticks) \in Nat /\ Cardinality(Ticks) # 0
    BY SetsAssumption, FS_CardinalityType, FS_EmptySet
  <2>3. Cardinality({}) = 0
    BY FS_EmptySet
  <2> QED
    BY <2>1, <2>2, <2>3, NumbersAssumption
<1>2. WellFormed /\ SchedulerCap /\ [Next]_vars => SchedulerCap'
  <2> SUFFICES ASSUME WellFormed, SchedulerCap, [Next]_vars, NEW w \in Workers
               PROVE  Cardinality(TickClaims(w)') + Cardinality(Pending(w)')
                        <= Cap + Cardinality(Ticks) - 1
    BY DEF SchedulerCap
  <2>c. Cardinality(TickClaims(w)) + Cardinality(Pending(w)) <= Cap + Cardinality(Ticks) - 1
    BY DEF SchedulerCap
  <2>n. /\ IsFiniteSet(TickClaims(w)) /\ IsFiniteSet(Pending(w))
        /\ Cardinality(TickClaims(w)) \in Nat /\ Cardinality(TickClaims(w)') \in Nat
        /\ Cardinality(Pending(w)) \in Nat /\ Cardinality(Pending(w)') \in Nat
        /\ Cardinality(Ticks) \in Nat /\ Cap \in Nat
    BY LoadCounts, NumbersAssumption
  <2>t. result \in [Rows -> ResultRow] /\ tick \in [Ticks -> TickProc] /\ IdleTick.pc = "idle"
    BY DEF WellFormed, TypeOK, IdleTick
  <2>1. ASSUME TickClaims(w)' \subseteq TickClaims(w), Pending(w)' \subseteq Pending(w)
        PROVE  Cardinality(TickClaims(w)') + Cardinality(Pending(w)')
                 <= Cap + Cardinality(Ticks) - 1
    <3>1. /\ Cardinality(TickClaims(w)') <= Cardinality(TickClaims(w))
          /\ Cardinality(Pending(w)') <= Cardinality(Pending(w))
      BY <2>1, <2>n, FS_Subset
    <3> QED
      BY <3>1, <2>c, <2>n
  <2>2. ASSUME NEW t \in Ticks, TickPick(t)
        PROVE  Cardinality(TickClaims(w)') + Cardinality(Pending(w)')
                 <= Cap + Cardinality(Ticks) - 1
    <3>1. TickClaims(w)' = TickClaims(w)
      BY <2>2 DEF TickPick, TickClaims, Claims, RowsIn
    <3>2. CASE HasRoom(w)
      <4>1. /\ Cardinality(TickClaims(w)) <= Cardinality(Claims(w)) /\ Cardinality(Claims(w)) \in Nat
            /\ Cardinality(Pending(w)') <= Cardinality(Ticks)
        BY LoadCounts
      <4> QED
        BY <3>1, <3>2, <4>1, <2>n DEF HasRoom
    <3>3. CASE ~HasRoom(w)
      <4>1. Pending(w)' \subseteq Pending(w)
        <5>1. CASE Onward(t)
          BY <2>t, <5>1 DEF Onward, TickGoes, IdleTick, Pending
        <5>2. CASE \E c : /\ c.by # w
                          /\ TickGoes(t, [tick[t] EXCEPT !.pc = "claim", !.by = c.by, !.seen = {}])
          BY <2>t, <5>2 DEF TickGoes, Pending, TickProc
        <5> QED
          BY <2>2, <3>3, <5>1, <5>2 DEF TickPick
      <4> QED
        BY <2>1, <3>1, <4>1
    <3> QED
      BY <3>2, <3>3
  <2>3. ASSUME NEW t \in Ticks, TickClaim(t)
        PROVE  Cardinality(TickClaims(w)') + Cardinality(Pending(w)')
                 <= Cap + Cardinality(Ticks) - 1
    <3> DEFINE q == CHOOSE r \in Spare : TRUE
               new == [status |-> "claimed", work |-> tick[t].work, by |-> tick[t].by,
                       hash |-> None, lease |-> "live", via |-> "tick"]
    <3>1. q \in Rows /\ q \notin TickClaims(w)
      BY <2>3 DEF TickClaim, ClaimRow, Spare, TickClaims, Claims, RowsIn
    <3>2. result' = [result EXCEPT ![q] = new]
      BY <2>3 DEF TickClaim, ClaimRow
    <3>3. tick' = [tick EXCEPT ![t].pc = "run"] /\ tick[t].pc = "claim"
      BY <2>3, <2>t DEF TickClaim, TickGoes, TickAt
    <3>4. Pending(w)' = Pending(w) \ {t}
      BY <2>t, <3>3 DEF Pending, TickProc
    <3> HIDE DEF q
    <3>5. CASE tick[t].by = w
      <4>1. TickClaims(w)' \subseteq TickClaims(w) \cup {q}
        BY <2>t, <3>1, <3>2, <3>5 DEF TickClaims, Claims, RowsIn
      <4>2. /\ IsFiniteSet(TickClaims(w) \cup {q})
            /\ Cardinality(TickClaims(w) \cup {q}) = Cardinality(TickClaims(w)) + 1
        BY <2>n, <3>1, FS_AddElement
      <4>3. Cardinality(TickClaims(w)') <= Cardinality(TickClaims(w)) + 1
        BY <4>1, <4>2, FS_Subset
      <4>4. t \in Pending(w)
        BY <3>3, <3>5 DEF Pending
      <4>5. Cardinality(Pending(w)') = Cardinality(Pending(w)) - 1
        BY <2>n, <3>4, <4>4, FS_RemoveElement
      <4> QED
        BY <2>c, <2>n, <4>3, <4>5
    <3>6. CASE tick[t].by # w
      <4>1. TickClaims(w)' \subseteq TickClaims(w)
        BY <2>t, <3>1, <3>2, <3>6 DEF TickClaims, Claims, RowsIn
      <4> QED
        BY <2>1, <3>4, <4>1
    <3> QED
      BY <3>5, <3>6
  <2> QED
    BY <2>1, <2>2, <2>3, ClaimsArise
<1>3. Init => WellFormed
  BY InitWellFormed
<1> QED
  BY <1>1, <1>2, <1>3, NextWellFormed, PTL DEF Spec

-----------------------------------------------------------------------------
(* WorkRuntime implements WorkPromise.                                     *)

\* Only submitResult's UPDATE adds an answer.
LEMMA AnswersArise ==
  ASSUME WellFormed, [Next]_vars, NEW i \in Items
  PROVE  Submitted(i)' = Submitted(i) \/ \E h \in Handlers : StoreResult(h)
<1> USE DEF Submitted, RowsIn
<1>r. result \in [Rows -> ResultRow]
  BY DEF WellFormed, TypeOK
<1>1. ASSUME UNCHANGED result PROVE Submitted(i)' = Submitted(i)
  BY <1>1
<1>2. Submitted(i) \subseteq Submitted(i)'
  BY AnswerKept
<1>3. ASSUME NEW t \in Ticks, TickExpire(t) PROVE Submitted(i)' \subseteq Submitted(i)
  BY <1>3, <1>r DEF TickExpire, Lapsed, ResultRow
<1>4. ASSUME NEW j, NEW w, NEW via, ClaimRow(j, w, via) PROVE Submitted(i)' \subseteq Submitted(i)
  BY <1>4, <1>r DEF ClaimRow
<1>5. ASSUME NEW h \in Handlers, BeatExtend(h) PROVE Submitted(i)' \subseteq Submitted(i)
  BY <1>5, <1>r DEF BeatExtend, Claims, ResultRow
<1>6. ASSUME NEW q \in Rows, LeaseLapses(q) PROVE Submitted(i)' \subseteq Submitted(i)
  BY <1>6, <1>r DEF LeaseLapses, ResultRow
<1>7. ASSUME NEW t \in Ticks, TickStep(t) \/ TickFault(t)
      PROVE  TickExpire(t) \/ ClaimRow(tick[t].work, tick[t].by, "tick") \/ UNCHANGED result
  BY <1>7 DEF TickStep, TickRequeue, TickReckon, TickPunish, TickList, TickLook, TickPick,
              TickClaim, TickRun, TickSweep, TickFault
<1>8. ASSUME NEW h \in Handlers, Request(h) \/ HandStep(h) \/ HandFault(h)
      PROVE  \/ StoreResult(h) \/ BeatExtend(h) \/ ClaimRow(hand[h].work, hand[h].by, "manual")
             \/ UNCHANGED result
  BY <1>8 DEF Request, HandStep, ResultRequest, CancelRead, DisputeRead, BeatRead, ManualRead,
              CountSubmissions, ReadPrimary, WriteVerified, Reckon, Punish, WriteDisputed,
              CancelWrite, BeatWrite, ManualClaim, ManualRun, HandFault
<1> QED
  BY <1>1, <1>2, <1>3, <1>4, <1>5, <1>6, <1>7, <1>8, BillsApart
  DEF Next, vars, SubmitWorkItem, RegisterWorker, BeatGrowsStale, Crash

\* Only a POST to the billing service charges.
LEMMA ChargesArise ==
  ASSUME [Next]_vars
  PROVE  ledger' = ledger \/ \E b \in Billers : PostUsage(b) \/ PostTimesOut(b)
<1>1. ASSUME NEW t \in Ticks, TickStep(t) \/ TickFault(t) PROVE ledger' = ledger
  BY <1>1 DEF TickStep, TickExpire, TickRequeue, TickReckon, TickPunish, TickList, TickLook,
              TickPick, TickClaim, TickRun, TickSweep, TickFault
<1>2. ASSUME NEW h \in Handlers, Request(h) \/ HandStep(h) \/ HandFault(h)
      PROVE  ledger' = ledger
  BY <1>2 DEF Request, HandStep, ResultRequest, CancelRead, DisputeRead, BeatRead, ManualRead,
              StoreResult, CountSubmissions, ReadPrimary, WriteVerified, Reckon, Punish,
              WriteDisputed, CancelWrite, BeatWrite, BeatExtend, ManualClaim, ManualRun,
              HandFault
<1>3. ASSUME NEW b \in Billers, BillStep(b) \/ PostTimesOut(b) \/ BillFault(b)
      PROVE  ledger' = ledger \/ PostUsage(b) \/ PostTimesOut(b)
  BY <1>3 DEF BillStep, BillItem, BillAudit, LogBilling, BillFault
<1> QED
  BY <1>1, <1>2, <1>3
  DEF Next, vars, SubmitWorkItem, RegisterWorker, BeatGrowsStale, LeaseLapses, Crash

LEMMA StepKeepsPromise ==
  ASSUME WellFormed, VerdictHasQuorum, [Next]_vars
  PROVE  [Promise!Next]_(Promise!vars)
<1> DEFINE Accepted == [i \in Items |-> {<<r, result[r].by>> : r \in Submitted(i)}]
           Verdict == [i \in Items |-> item[i].hash]
           Winner == [i \in Items |-> item[i].by]
<1>t. /\ item \in [Items -> ItemRow] /\ result \in [Rows -> ResultRow]
      /\ ledger \in [Items -> Nat] /\ hand \in [Handlers -> HandProc]
  BY DEF WellFormed, TypeOK
<1>1. ASSUME \A i \in Items : Submitted(i)' = Submitted(i) PROVE Accepted' = Accepted
  BY <1>1, AnswerKept
<1>2. ASSUME \A i \in Items : item'[i].hash = item[i].hash /\ item'[i].by = item[i].by
      PROVE  Verdict' = Verdict /\ Winner' = Winner
  BY <1>2
<1>3. ASSUME NEW h \in Handlers, StoreResult(h) PROVE [Promise!Next]_(Promise!vars)
  <2> PICK q \in Rows, i \in Items, w \in Workers :
             q = hand[h].row /\ i = hand[h].work /\ w = result[q].by /\ result[q].work = i
    BY <1>3 DEF StoreResult, HandAt, WellFormed, HandOK, RowsOK, Taken
  <2>1. /\ Verdict' = Verdict /\ Winner' = Winner /\ ledger' = ledger
    BY <1>3 DEF StoreResult
  <2>2. result' = [result EXCEPT ![q].status = "submitted", ![q].hash = hand[h].hash]
    BY <1>3 DEF StoreResult
  <2>3. \A p \in Rows : /\ result'[p].by = result[p].by /\ result'[p].work = result[p].work
                        /\ result'[p].status = IF p = q THEN "submitted" ELSE result[p].status
    BY <1>t, <2>2 DEF ResultRow
  <2>4. \A j \in Items : Submitted(j)' = IF j = i THEN Submitted(j) \cup {q} ELSE Submitted(j)
    BY <2>3 DEF Submitted, RowsIn
  <2>5. \A j \in Items : Accepted'[j] = IF j = i THEN Accepted[j] \cup {<<q, w>>} ELSE Accepted[j]
    BY <2>3, <2>4 DEF Submitted, RowsIn
  <2>6. CASE q \in Submitted(i)
    <3>1. Accepted' = Accepted
      BY <2>3, <2>4, <2>6 DEF Submitted, RowsIn
    <3> QED
      BY <2>1, <3>1 DEF Promise!vars
  <2>7. CASE q \notin Submitted(i)
    <3>1. \A j \in Items, v \in Workers : <<q, v>> \notin Accepted[j]
      BY <2>7 DEF Submitted, RowsIn
    <3>2. Accepted' = [Accepted EXCEPT ![i] = @ \cup {<<q, w>>}]
      <4>1. /\ Accepted' = [j \in Items |-> Accepted'[j]]
            /\ Accepted = [j \in Items |-> Accepted[j]]
        OBVIOUS
      <4> HIDE DEF Accepted
      <4> QED
        BY <2>5, <4>1
    <3> HIDE DEF Accepted, Verdict, Winner
    <3>3. Promise!Accept(i, q, w)
      BY <2>1, <3>1, <3>2 DEF Promise!Accept, Accepted, Verdict, Winner
    <3> QED
      BY <3>3 DEF Promise!Next
  <2> QED
    BY <2>6, <2>7
<1>4. ASSUME NEW h \in Handlers, WriteVerified(h) PROVE [Promise!Next]_(Promise!vars)
  <2> PICK i \in Items, w \in Workers, x \in Hashes : i = hand[h].work /\ w = hand[h].by /\ x = hand[h].hash
    BY <1>4 DEF WriteVerified, HandAt, WellFormed, HandOK
  <2>1. HasQuorum(i) /\ Answered(i, w)
    BY <1>4 DEF WriteVerified, HandAt, VerdictHasQuorum, Backed
  <2> PICK r \in Submitted(i) : result[r].by = w
    BY <2>1 DEF Answered
  <2>2. r \in Rows /\ <<r, w>> \in Accepted[i]
    BY DEF Submitted, RowsIn
  <2>3. Promise!Cardinality(Accepted[i]) >= Replicas[i]
    <3> DEFINE S == Submitted(i)
               T == {<<q, result[q].by>> : q \in S}
               F == [q \in S |-> <<q, result[q].by>>]
    <3>1. IsFiniteSet(S)
      BY SetsAssumption, FS_Subset DEF Submitted, RowsIn
    <3>2. F \in Bijection(S, T)
      <4>1. F \in [S -> T] /\ (\A a, b \in S : F[a] = F[b] => a = b)
        OBVIOUS
      <4>2. \A y \in T : \E q \in S : F[q] = y
        OBVIOUS
      <4> QED
        BY <4>1, <4>2, Fun_IsBij
    <3>3. Cardinality(T) = Cardinality(S)
      BY <3>1, <3>2, FS_Bijection DEF ExistsBijection
    <3>4. Accepted[i] = T
      OBVIOUS
    <3>5. \A X : Promise!Cardinality(X) = Cardinality(X)
      BY DEF Promise!Cardinality, Cardinality
    <3> QED
      BY <2>1, <3>3, <3>4, <3>5 DEF HasQuorum
  <2>4. Verdict' = [Verdict EXCEPT ![i] = x] /\ Winner' = [Winner EXCEPT ![i] = w]
    BY <1>4, <1>t DEF WriteVerified, ItemRow
  <2>5. Accepted' = Accepted /\ ledger' = ledger
    BY <1>4 DEF WriteVerified, Submitted, RowsIn
  <2> HIDE DEF Accepted, Verdict, Winner
  <2>6. Promise!Decide(i, x, r, w)
    BY <2>2, <2>3, <2>4, <2>5 DEF Promise!Decide, Accepted, Verdict, Winner
  <2> QED
    BY <2>2, <2>6 DEF Promise!Next
<1>5. ASSUME NEW b \in Billers, PostUsage(b) \/ PostTimesOut(b), ledger' # ledger
      PROVE  [Promise!Next]_(Promise!vars)
  <2> PICK i : i = bill[b].work
    OBVIOUS
  <2>1. i \in Items /\ item[i].hash # None
    BY <1>5 DEF PostUsage, PostTimesOut, BillAt, IdleBill, WellFormed, VerdictHasQuorum
  <2>2. /\ ledger' = [ledger EXCEPT ![i] = @ + 1]
        /\ item' = item /\ result' = result
    BY <1>5 DEF PostUsage, PostTimesOut
  <2>3. Promise!Charge(i)
    BY <2>1, <2>2 DEF Promise!Charge, Submitted, RowsIn
  <2> QED
    BY <2>1, <2>3 DEF Promise!Next
<1>6. ASSUME ledger' = ledger, Accepted' = Accepted, Verdict' = Verdict, Winner' = Winner
      PROVE  [Promise!Next]_(Promise!vars)
  BY <1>6 DEF Promise!vars
<1> QED
  BY <1>1, <1>2, <1>3, <1>4, <1>5, <1>6, AnswersArise, ChargesArise, VerdictWritten

\* WorkRuntime implements WorkPromise for every value of its constants.
THEOREM PromiseKept == Spec => KeepsPromise
<1>1. Init => Promise!Init
  BY DEF Init, Promise!Init, Submitted, RowsIn
<1>2. Init => WellFormed
  BY InitWellFormed
<1>3. Spec => [](WellFormed /\ VerdictHasQuorum)
  <2>1. Spec => []WellFormed
    BY <1>2, NextWellFormed, PTL DEF Spec
  <2> QED
    BY <2>1, VerdictsHaveQuorum, PTL
<1>4. WellFormed /\ VerdictHasQuorum /\ [Next]_vars => [Promise!Next]_(Promise!vars)
  BY StepKeepsPromise
<1> QED
  BY <1>1, <1>3, <1>4, PTL DEF Spec, KeepsPromise, Promise!Spec

-----------------------------------------------------------------------------
(* One scheduler that finishes a tick before the next, no manual           *)
(* assignment: an item has one lease at a time and is not forgotten, until *)
(* the first fault.                                                        *)

\* No manual assignment is between its statements.
HandsPlain == \A h \in Handlers : hand[h].pc \notin {"claim", "run"}

\* An item that waits for a worker has no claim, but the one the tick has just
\* inserted for it.
Sole(i) ==
  /\ \A r, q \in Claimed(i) : r = q
  /\ item[i].status = "none" => Claimed(i) = {}
  /\ item[i].status = "queued" =>
       Claimed(i) = {} \/ \E t \in Ticks : tick[t].pc = "run" /\ tick[t].work = i

\* What the tick knows of the rows it has expired and of the items it assigns.
InOrder(t) ==
  LET p == tick[t] IN
  /\ p.pc \notin {"requeue", "reckon", "punish"} => p.todo = {}
  /\ \A r \in p.todo : Claimed(result[r].work) = {}
  /\ p.pc \in {"pick", "claim", "run"} => p.work \in p.list
  /\ p.pc \in {"look", "pick", "claim", "run"} =>
       \A i \in p.list : /\ item[i].status # "none"
                         /\ Claimed(i) = {} \/ (p.pc = "run" /\ i = p.work)
  /\ p.pc = "run" => Claimed(p.work) \cup Submitted(p.work) # {}

Remembered(i) ==
  item[i].status = "running" =>
    \/ Claimed(i) \cup Submitted(i) # {}
    \/ \E t \in Ticks : \E r \in ToRequeue(t) : result[r].work = i

Smooth ==
  /\ \A i \in Items : Sole(i) /\ Remembered(i)
  /\ \A t \in Ticks : InOrder(t)

SoleInv == HandsPlain /\ (faults = 0 => Smooth)

\* A step of a request, of a worker or of the clock: claims end, by an answer,
\* and none begins; items are queued when they are submitted only.
LEMMA SmoothKept ==
  ASSUME WellFormed, Smooth, UNCHANGED tick,
         \A i \in Items : /\ Claimed(i)' \subseteq Claimed(i)
                          /\ Submitted(i) \subseteq Submitted(i)'
                          /\ Claimed(i) \subseteq Claimed(i)' \cup Submitted(i)',
         \A r \in Taken : result'[r].work = result[r].work,
         \A i \in Items : \/ item'[i].status = item[i].status
                          \/ item'[i].status \in {"verified", "failed", "disputed"}
                          \/ item[i].status = "none" /\ item'[i].status = "queued"
  PROVE  Smooth'
<1>t. \A t \in Ticks : tick[t] \in TickProc /\ TickOK(tick[t])
  BY DEF WellFormed, TypeOK
<1>1. ASSUME NEW i \in Items PROVE Sole(i)'
  BY DEF Smooth, Sole
<1>2. ASSUME NEW i \in Items PROVE Remembered(i)'
  <2> SUFFICES ASSUME item'[i].status = "running"
               PROVE  \/ Claimed(i)' \cup Submitted(i)' # {}
                      \/ \E t \in Ticks : \E r \in ToRequeue(t)' : result'[r].work = i
    BY DEF Remembered
  <2>1. item[i].status = "running"
    OBVIOUS
  <2>2. CASE Claimed(i) \cup Submitted(i) # {}
    BY <2>2
  <2>3. CASE \E t \in Ticks : \E r \in ToRequeue(t) : result[r].work = i
    <3> PICK t \in Ticks : \E r \in ToRequeue(t) : result[r].work = i
      BY <2>3
    <3>1. PICK r \in ToRequeue(t) : result[r].work = i
      OBVIOUS
    <3>2. r \in Taken /\ r \in ToRequeue(t)'
      BY <1>t DEF ToRequeue, TickOK
    <3> QED
      BY <3>1, <3>2
  <2> QED
    BY <2>1, <2>2, <2>3 DEF Smooth, Remembered
<1>3. ASSUME NEW t \in Ticks PROVE InOrder(t)'
  <2>1. PICK p \in TickProc : p = tick[t] /\ p = tick'[t] /\ TickOK(p)
    BY <1>t
  <2>2. /\ p.pc \notin {"requeue", "reckon", "punish"} => p.todo = {}
        /\ \A r \in p.todo : Claimed(result[r].work) = {}
        /\ p.pc \in {"pick", "claim", "run"} => p.work \in p.list
        /\ p.pc \in {"look", "pick", "claim", "run"} =>
             \A i \in p.list : /\ item[i].status # "none"
                               /\ Claimed(i) = {} \/ (p.pc = "run" /\ i = p.work)
        /\ p.pc = "run" => Claimed(p.work) \cup Submitted(p.work) # {}
    BY <2>1 DEF Smooth, InOrder
  <2>3. ASSUME NEW r \in p.todo, NEW j \in Items, j = result'[r].work PROVE Claimed(j)' = {}
    <3>1. r \in Taken /\ result[r].work = j
      BY <2>1, <2>3 DEF TickOK
    <3> QED
      BY <2>2, <3>1
  <2>4. \A r \in p.todo : result'[r].work \in Items
    BY <2>1 DEF TickOK, WellFormed, RowsOK
  <2>5. p.list \subseteq Items /\ (p.pc \in {"pick", "claim", "run"} => p.work \in Items)
    BY <2>1 DEF TickProc, TickOK
  <2>6. p.pc \in {"look", "pick", "claim", "run"} =>
          \A i \in p.list : /\ item'[i].status # "none"
                            /\ Claimed(i)' = {} \/ (p.pc = "run" /\ i = p.work)
    BY <2>2, <2>5
  <2>7. p.pc = "run" => Claimed(p.work)' \cup Submitted(p.work)' # {}
    BY <2>2, <2>5
  <2> QED
    BY <2>1, <2>2, <2>3, <2>4, <2>6, <2>7 DEF InOrder
<1> QED
  BY <1>1, <1>2, <1>3 DEF Smooth

\* The claims and answers of an item when some rows are answered or renewed.
LEMMA RowsOnward ==
  ASSUME WellFormed, result' \in [Rows -> ResultRow],
         \A r \in Rows : /\ result'[r].work = result[r].work
                         /\ \/ result'[r].status = result[r].status
                            \/ result'[r].status = "submitted"
  PROVE  /\ \A i \in Items : /\ Claimed(i)' \subseteq Claimed(i)
                             /\ Submitted(i) \subseteq Submitted(i)'
                             /\ Claimed(i) \subseteq Claimed(i)' \cup Submitted(i)'
         /\ \A r \in Taken : result'[r].work = result[r].work
BY DEF Claimed, Submitted, RowsIn, Taken

\* Without manual assignment, no request inserts a claim or marks an item running.
LEMMA HandsStayPlain ==
  ASSUME "assign" \notin Ops, WellFormed, HandsPlain, [Next]_vars
  PROVE  HandsPlain'
<1>1. hand \in [Handlers -> HandProc] /\ \A h \in Handlers : hand[h].pc \notin {"claim", "run"}
  BY DEF WellFormed, TypeOK, HandsPlain
<1>2. ASSUME NEW h \in Handlers, NEW p, HandGoes(h, p), p.pc \notin {"claim", "run"}
      PROVE  HandsPlain'
  BY <1>1, <1>2 DEF HandsPlain, HandGoes
<1>3. IdleHand.pc = "idle"
  BY DEF IdleHand
<1>4. CASE UNCHANGED hand
  BY <1>4 DEF HandsPlain
<1>5. ASSUME NEW h \in Handlers, HandGoes(h, IdleHand) PROVE HandsPlain'
  BY <1>2, <1>3, <1>5
<1>6. ASSUME NEW h \in Handlers, NEW s, AfterVerdict(h, s) PROVE HandsPlain'
  <2>1. ASSUME HandGoes(h, [IdleHand EXCEPT !.pc = "reckon", !.work = hand[h].work, !.todo = s])
        PROVE  HandsPlain'
    BY <1>2, <2>1 DEF IdleHand
  <2> QED
    BY <1>5, <1>6, <2>1, AfterVerdictGoes
<1>7. ASSUME NEW h \in Handlers, Request(h) PROVE HandsPlain'
  <2>1. ~ManualRead(h)
    BY DEF ManualRead, Begin
  <2>2. CASE ResultRequest(h)
    BY <1>2, <2>2 DEF ResultRequest, IdleHand
  <2>3. CASE CancelRead(h)
    BY <1>2, <2>3 DEF CancelRead, IdleHand
  <2>4. CASE DisputeRead(h)
    BY <1>2, <2>4 DEF DisputeRead, IdleHand
  <2>5. CASE BeatRead(h)
    BY <1>2, <2>5 DEF BeatRead, IdleHand
  <2> QED
    BY <1>7, <2>1, <2>2, <2>3, <2>4, <2>5 DEF Request
<1>8. ASSUME NEW h \in Handlers, HandStep(h) \/ HandFault(h)
      PROVE  HandsPlain'
  <2>1. ~ManualClaim(h) /\ ~ManualRun(h) /\ hand[h] \in HandProc
    BY <1>1 DEF ManualClaim, ManualRun, HandAt
  <2>2. CASE StoreResult(h)
    BY <1>2, <2>2 DEF StoreResult, IdleHand
  <2>3. CASE CountSubmissions(h)
    <3>1. \/ HandGoes(h, IdleHand)
          \/ \E x \in Outcomes(Submitted(hand[h].work)) :
               HandGoes(h, [hand[h] EXCEPT !.pc = IF x = None THEN "dispute" ELSE "primary",
                                           !.hash = x])
      BY <2>3 DEF CountSubmissions
    <3>2. ASSUME NEW x, NEW pc \in {"dispute", "primary"},
                 HandGoes(h, [hand[h] EXCEPT !.pc = pc, !.hash = x])
          PROVE  HandsPlain'
      BY <1>2, <2>1, <3>2 DEF HandProc
    <3> QED
      BY <1>5, <3>1, <3>2
  <2>4. CASE ReadPrimary(h)
    <3> PICK p, T :
          HandGoes(h, [hand[h] EXCEPT !.pc = "verify", !.by = result[p].by, !.todo = T])
      BY <2>4 DEF ReadPrimary, Submitted, RowsIn
    <3> QED
      BY <1>2, <2>1 DEF HandProc
  <2>5. CASE WriteVerified(h) \/ Punish(h)
    BY <1>6, <2>5 DEF WriteVerified, Punish
  <2>6. CASE Reckon(h)
    <3> PICK r : HandGoes(h, [hand[h] EXCEPT !.pc = "punish", !.row = r, !.by = result[r].by,
                                 !.rep = worker[result[r].by].rep,
                                 !.stat = worker[result[r].by].status])
      BY <2>6 DEF Reckon
    <3> QED
      BY <1>2, <2>1 DEF HandProc
  <2>10. CASE BeatWrite(h)
    BY <1>2, <2>1, <2>10 DEF BeatWrite, HandProc
  <2>11. CASE WriteDisputed(h) \/ CancelWrite(h) \/ BeatExtend(h) \/ HandFault(h)
    BY <1>5, <2>11 DEF WriteDisputed, CancelWrite, BeatExtend, HandFault
  <2> QED
    BY <1>8, <2>1, <2>2, <2>3, <2>4, <2>5, <2>6, <2>10, <2>11 DEF HandStep
<1>9. CASE Crash
  BY <1>3, <1>9 DEF Crash, HandsPlain
<1>10. ASSUME NEW t \in Ticks, TickStep(t) \/ TickFault(t) PROVE UNCHANGED hand
  BY <1>10 DEF TickStep, TickExpire, TickRequeue, TickReckon, TickPunish, TickList, TickLook,
               TickPick, TickClaim, TickRun, TickSweep, TickFault
<1> QED
  BY <1>4, <1>7, <1>8, <1>9, <1>10, BillsApart
  DEF Next, vars, SubmitWorkItem, RegisterWorker, BeatGrowsStale, LeaseLapses

\* Whatever a request, a worker or the clock does keeps Smooth.
LEMMA OthersSmooth ==
  ASSUME "assign" \notin Ops, WellFormed, WellFormed', HandsPlain, Smooth,
         \/ UNCHANGED vars
         \/ \E h \in Handlers : Request(h) \/ HandStep(h) \/ HandFault(h)
         \/ \E b \in Billers : BillStep(b) \/ PostTimesOut(b) \/ BillFault(b)
         \/ \E i \in Items : SubmitWorkItem(i)
         \/ \E w \in Workers : RegisterWorker(w) \/ BeatGrowsStale(w)
         \/ \E r \in Rows : LeaseLapses(r)
  PROVE  Smooth'
<1> DEFINE Status(i) == \/ item'[i].status = item[i].status
                        \/ item'[i].status \in {"verified", "failed", "disputed"}
                        \/ item[i].status = "none" /\ item'[i].status = "queued"
           Row(r) == /\ result'[r].work = result[r].work
                     /\ \/ result'[r].status = result[r].status
                        \/ result'[r].status = "submitted"
<1>t. /\ result \in [Rows -> ResultRow] /\ result' \in [Rows -> ResultRow]
      /\ item \in [Items -> ItemRow]
      /\ \A h \in Handlers : hand[h].pc \notin {"claim", "run"}
  BY DEF WellFormed, TypeOK, HandsPlain
<1>1. UNCHANGED tick
  BY BillsApart DEF vars, Request, HandStep, ResultRequest, CancelRead, DisputeRead, BeatRead,
     ManualRead, StoreResult, CountSubmissions, ReadPrimary, WriteVerified, Reckon, Punish,
     WriteDisputed, CancelWrite, BeatWrite, BeatExtend, ManualClaim, ManualRun, HandFault,
     SubmitWorkItem, RegisterWorker, BeatGrowsStale, LeaseLapses
<1>2. \A i \in Items : Status(i)
  <2>1. CASE UNCHANGED item
    BY <2>1
  <2>2. ASSUME NEW h \in Handlers, WriteVerified(h) PROVE \A i \in Items : Status(i)
    BY <1>t, <2>2 DEF WriteVerified, ItemRow
  <2>3. ASSUME NEW h \in Handlers, WriteDisputed(h) PROVE \A i \in Items : Status(i)
    BY <1>t, <2>3 DEF WriteDisputed, ItemRow
  <2>4. ASSUME NEW h \in Handlers, CancelWrite(h) PROVE \A i \in Items : Status(i)
    BY <1>t, <2>4 DEF CancelWrite, ItemRow
  <2>5. ASSUME NEW j \in Items, SubmitWorkItem(j) PROVE \A i \in Items : Status(i)
    BY <1>t, <2>5 DEF SubmitWorkItem, ItemRow
  <2>6. \A h \in Handlers : ~ManualRun(h)
    BY <1>t DEF ManualRun, HandAt
  <2> HIDE DEF Status
  <2> QED
    BY <2>1, <2>2, <2>3, <2>4, <2>5, <2>6, BillsApart
    DEF vars, Request, HandStep, ResultRequest, CancelRead, DisputeRead, BeatRead, ManualRead,
     StoreResult, CountSubmissions, ReadPrimary, Reckon, Punish, BeatWrite, BeatExtend,
     ManualClaim, HandFault, RegisterWorker, BeatGrowsStale, LeaseLapses
<1>3. \A r \in Rows : Row(r)
  <2>1. CASE UNCHANGED result
    BY <2>1
  <2>2. ASSUME NEW h \in Handlers, StoreResult(h) PROVE \A r \in Rows : Row(r)
    BY <1>t, <2>2 DEF StoreResult, ResultRow
  <2>3. ASSUME NEW h \in Handlers, BeatExtend(h) PROVE \A r \in Rows : Row(r)
    BY <1>t, <2>3 DEF BeatExtend, ResultRow
  <2>4. ASSUME NEW q \in Rows, LeaseLapses(q) PROVE \A r \in Rows : Row(r)
    BY <1>t, <2>4 DEF LeaseLapses, ResultRow
  <2>5. \A h \in Handlers : ~ManualClaim(h)
    BY <1>t DEF ManualClaim, HandAt
  <2> HIDE DEF Row
  <2> QED
    BY <2>1, <2>2, <2>3, <2>4, <2>5, BillsApart
    DEF vars, Request, HandStep, ResultRequest, CancelRead, DisputeRead, BeatRead, ManualRead,
     CountSubmissions, ReadPrimary, WriteVerified, Reckon, Punish, WriteDisputed, CancelWrite,
     BeatWrite, ManualRun, HandFault, SubmitWorkItem, RegisterWorker, BeatGrowsStale
<1>4. /\ \A i \in Items : /\ Claimed(i)' \subseteq Claimed(i)
                          /\ Submitted(i) \subseteq Submitted(i)'
                          /\ Claimed(i) \subseteq Claimed(i)' \cup Submitted(i)'
      /\ \A r \in Taken : result'[r].work = result[r].work
  BY <1>t, <1>3, RowsOnward
<1> QED
  BY <1>1, <1>2, <1>4, SmoothKept

\* A step of the one tick that leaves rows and items alone, and remembers the
\* rows it has still to put back in the queue.
LEMMA TickOnward ==
  ASSUME WellFormed, Smooth, NEW t \in Ticks, Ticks = {t}, UNCHANGED <<item, result>>,
         tick[t].pc # "run", InOrder(t)',
         ToRequeue(t) \subseteq ToRequeue(t)'
  PROVE  Smooth'
<1>1. \A i \in Items : Claimed(i)' = Claimed(i) /\ Submitted(i)' = Submitted(i)
  BY DEF Claimed, Submitted, RowsIn
<1>2. ASSUME NEW i \in Items PROVE Sole(i)'
  <2>1. Sole(i)
    BY DEF Smooth
  <2>2. item[i].status = "queued" => Claimed(i) = {}
    BY <2>1 DEF Sole
  <2> QED
    BY <1>1, <2>1, <2>2 DEF Sole
<1>3. ASSUME NEW i \in Items PROVE Remembered(i)'
  BY <1>1 DEF Smooth, Remembered
<1> QED
  BY <1>2, <1>3 DEF Smooth

\* InOrder said of a record.
LEMMA InOrderIs ==
  ASSUME NEW t \in Ticks, NEW p, tick'[t] = p,
         p.pc \notin {"requeue", "reckon", "punish"} => p.todo = {},
         \A r \in p.todo : \A i \in Items : result'[r].work = i => Claimed(i)' = {},
         \A r \in p.todo : result'[r].work \in Items,
         p.pc \in {"pick", "claim", "run"} => p.work \in p.list,
         p.pc \in {"look", "pick", "claim", "run"} =>
           \A i \in p.list : /\ item'[i].status # "none"
                             /\ Claimed(i)' = {} \/ (p.pc = "run" /\ i = p.work),
         p.pc = "run" => Claimed(p.work)' \cup Submitted(p.work)' # {}
  PROVE  InOrder(t)'
BY DEF InOrder

LEMMA TickSmooth ==
  ASSUME NEW t \in Ticks, Ticks = {t}, WellFormed, WellFormed', Smooth, TickStep(t)
  PROVE  Smooth'
<1> USE DEF TickAt
<1>t. /\ tick \in [Ticks -> TickProc] /\ tick[t] \in TickProc /\ TickOK(tick[t])
      /\ result \in [Rows -> ResultRow] /\ item \in [Items -> ItemRow] /\ InOrder(t)
      /\ \A r \in Taken : result[r].work \in Items
      /\ \A i \in Items : Sole(i) /\ Remembered(i)
  BY DEF WellFormed, TypeOK, Smooth, RowsOK
<1>p. ASSUME NEW p, TickGoes(t, p) PROVE tick'[t] = p
  BY <1>t, <1>p DEF TickGoes
<1>same. ASSUME UNCHANGED <<item, result>>
         PROVE  /\ \A i \in Items : Claimed(i)' = Claimed(i) /\ Submitted(i)' = Submitted(i)
  BY <1>same DEF Claimed, Submitted, RowsIn
\* The rows of todo, and what is known of them, when nothing of them changes.
<1>todo. ASSUME UNCHANGED <<item, result>>, NEW S \in SUBSET tick[t].todo
         PROVE  \A r \in S : /\ \A i \in Items : result'[r].work = i => Claimed(i)' = {}
                             /\ result'[r].work \in Items
  BY <1>t, <1>same, <1>todo DEF InOrder, TickOK
<1>1. CASE TickReckon(t)
  <2> DEFINE w == result[tick[t].row].by
             p == [tick[t] EXCEPT !.pc = "punish", !.by = w, !.rep = worker[w].rep,
                                  !.stat = worker[w].status]
  <2>1. TickGoes(t, p) /\ UNCHANGED <<item, result>> /\ tick[t].pc = "reckon"
    BY <1>1 DEF TickReckon
  <2>2. p.pc = "punish" /\ p.todo = tick[t].todo /\ p.row = tick[t].row
    BY <1>t DEF TickProc
  <2> HIDE DEF p, w
  <2>3. tick'[t] = p
    BY <1>p, <2>1
  <2>4. InOrder(t)'
    BY <1>todo, <2>1, <2>2, <2>3, InOrderIs
  <2>5. ToRequeue(t)' = ToRequeue(t)
    BY <2>1, <2>2, <2>3 DEF ToRequeue
  <2> QED
    BY <2>1, <2>4, <2>5, TickOnward
<1>2. CASE TickPunish(t)
  <2> DEFINE rest == tick[t].todo \ {tick[t].row}
             p == [IdleTick EXCEPT !.pc = IF rest = {} THEN "list" ELSE "requeue", !.todo = rest]
  <2>1. TickGoes(t, p) /\ UNCHANGED <<item, result>> /\ tick[t].pc = "punish"
    BY <1>2 DEF TickPunish
  <2>2. /\ p.todo = rest /\ p.pc \in {"list", "requeue"}
        /\ p.pc = "list" => rest = {}
    BY DEF IdleTick
  <2>3. rest \in SUBSET tick[t].todo
    OBVIOUS
  <2>4. ToRequeue(t) = rest
    BY <2>1 DEF ToRequeue
  <2> HIDE DEF p, rest
  <2>5. tick'[t] = p
    BY <1>p, <2>1
  <2>6. InOrder(t)'
    BY <1>todo, <2>1, <2>2, <2>3, <2>5, InOrderIs
  <2>7. rest \subseteq ToRequeue(t)'
    BY <2>2, <2>5 DEF ToRequeue
  <2> QED
    BY <2>1, <2>4, <2>6, <2>7, TickOnward
<1>3. CASE TickList(t)
  <2> DEFINE l == OldestQueued
             p == [IdleTick EXCEPT !.pc = IF l = {} THEN "sweep" ELSE "look", !.list = l]
  <2>1. TickGoes(t, p) /\ UNCHANGED <<item, result>> /\ tick[t].pc = "list"
    BY <1>3 DEF TickList
  <2>2. p.todo = {} /\ p.list = l /\ p.pc \in {"sweep", "look"}
    BY DEF IdleTick
  <2>3. \A i \in l : i \in Items /\ item[i].status = "queued"
    BY DEF OldestQueued
  <2>4. \A i \in l : Claimed(i) = {}
    BY <1>t, <2>1, <2>3 DEF Sole
  <2> HIDE DEF p, l
  <2>5. tick'[t] = p
    BY <1>p, <2>1
  <2>6. InOrder(t)'
    BY <1>same, <2>1, <2>2, <2>3, <2>4, <2>5, InOrderIs
  <2>7. ToRequeue(t) = {}
    BY <1>t, <2>1 DEF InOrder, ToRequeue
  <2> QED
    BY <2>1, <2>6, <2>7, TickOnward
\* The steps that go on with the list: nothing is left to put back.
<1>list. ASSUME tick[t].pc \in {"look", "pick", "claim", "run"}
         PROVE  /\ tick[t].todo = {} /\ ToRequeue(t) = {} /\ tick[t].list \subseteq Items
                /\ \A i \in tick[t].list : item[i].status # "none"
                /\ tick[t].pc # "run" => \A i \in tick[t].list : Claimed(i) = {}
                /\ tick[t].pc = "run" =>
                     \A i \in tick[t].list : i # tick[t].work => Claimed(i) = {}
                /\ tick[t].pc # "look" => tick[t].work \in tick[t].list
                /\ tick[t].pc = "run" =>
                     Claimed(tick[t].work) \cup Submitted(tick[t].work) # {}
  BY <1>t, <1>list DEF InOrder, ToRequeue, TickProc
<1>4. CASE TickLook(t)
  <2> DEFINE S(i) == {[by |-> w, rep |-> worker[w].rep] :
                        w \in {v \in Workers : /\ worker[v].status = "active"
                                               /\ worker[v].rep >= RepFloor
                                               /\ <<i, v>> \in Fits}}
             p(i) == [tick[t] EXCEPT !.pc = "pick", !.work = i, !.seen = S(i)]
  <2> PICK i \in tick[t].list : TickGoes(t, p(i))
    BY <1>4 DEF TickLook
  <2>1. UNCHANGED <<item, result>> /\ tick[t].pc = "look"
    BY <1>4 DEF TickLook
  <2> HIDE DEF S
  <2> DEFINE q == p(i)
  <2>2. q.pc = "pick" /\ q.work = i /\ q.todo = tick[t].todo /\ q.list = tick[t].list
    BY <1>t DEF TickProc
  <2>3. tick'[t] = q
    BY <1>p
  <2> HIDE DEF p, q
  <2>4. InOrder(t)'
    BY <1>list, <1>same, <2>1, <2>2, <2>3, InOrderIs
  <2> QED
    BY <1>list, <2>1, <2>4, TickOnward
<1>on. ASSUME Onward(t)
       PROVE  \E p : /\ tick'[t] = p /\ p.todo = {} /\ p.pc \in {"sweep", "look"}
                     /\ p.list = tick[t].list \ {tick[t].work}
  <2> DEFINE rest == tick[t].list \ {tick[t].work}
             p == [IdleTick EXCEPT !.pc = IF rest = {} THEN "sweep" ELSE "look", !.list = rest]
  <2>1. TickGoes(t, p)
    BY <1>on DEF Onward
  <2>2. p.todo = {} /\ p.pc \in {"sweep", "look"} /\ p.list = rest
    BY DEF IdleTick
  <2> HIDE DEF p
  <2> QED
    BY <1>p, <2>1, <2>2
<1>5. CASE TickPick(t)
  <2>1. UNCHANGED <<item, result>> /\ tick[t].pc = "pick"
    BY <1>5 DEF TickPick
  <2>2. PICK q : /\ tick'[t] = q /\ q.todo = {}
                 /\ q.list \subseteq tick[t].list
                 /\ \/ q.pc \in {"sweep", "look"}
                    \/ q.pc = "claim" /\ q.work = tick[t].work /\ q.list = tick[t].list
    <3>1. CASE Onward(t)
      BY <1>on, <3>1
    <3>2. CASE \E c \in tick[t].seen :
                 TickGoes(t, [tick[t] EXCEPT !.pc = "claim", !.by = c.by, !.seen = {}])
      <4> DEFINE p(c) == [tick[t] EXCEPT !.pc = "claim", !.by = c.by, !.seen = {}]
      <4> PICK c \in tick[t].seen : TickGoes(t, p(c))
        BY <3>2
      <4> DEFINE q == p(c)
      <4>1. q.pc = "claim" /\ q.work = tick[t].work /\ q.list = tick[t].list
            /\ q.todo = tick[t].todo
        BY <1>t DEF TickProc
      <4>2. tick'[t] = q
        BY <1>p
      <4> HIDE DEF q, p
      <4> QED
        BY <1>list, <2>1, <4>1, <4>2
    <3> QED
      BY <1>5, <3>1, <3>2 DEF TickPick
  <2>3. InOrder(t)'
    BY <1>list, <1>same, <2>1, <2>2, InOrderIs
  <2> QED
    BY <1>list, <2>1, <2>3, TickOnward
<1>6. CASE TickSweep(t)
  <2>1. TickGoes(t, IdleTick) /\ UNCHANGED <<item, result>> /\ tick[t].pc = "sweep"
    BY <1>6 DEF TickSweep
  <2>2. tick'[t] = IdleTick /\ IdleTick.todo = {} /\ IdleTick.pc = "idle"
    BY <1>p, <2>1 DEF IdleTick
  <2>3. InOrder(t)'
    BY <2>2, InOrderIs
  <2>4. ToRequeue(t) = {}
    BY <1>t, <2>1 DEF InOrder, ToRequeue
  <2> QED
    BY <2>1, <2>3, <2>4, TickOnward
<1>7. CASE TickExpire(t)
  <2> DEFINE p == [IdleTick EXCEPT !.pc = IF Lapsed = {} THEN "list" ELSE "requeue",
                                   !.todo = Lapsed]
  <2>1. /\ TickGoes(t, p) /\ UNCHANGED item /\ tick[t].pc = "idle"
        /\ result' = [r \in Rows |-> IF r \in Lapsed THEN [result[r] EXCEPT !.status = "expired"]
                                                     ELSE result[r]]
    BY <1>7 DEF TickExpire
  <2>2. /\ p.todo = Lapsed /\ p.pc \in {"list", "requeue"}
        /\ p.pc = "list" => Lapsed = {}
    BY DEF IdleTick
  <2>3. \A r \in Rows : /\ result'[r].work = result[r].work
                        /\ r \in Lapsed => result'[r].status = "expired"
                        /\ r \notin Lapsed => result'[r] = result[r]
    BY <1>t, <2>1 DEF ResultRow
  <2> HIDE DEF p
  <2>4. tick'[t] = p
    BY <1>p, <2>1
  <2>5. \A r \in Lapsed : r \in Claimed(result[r].work) /\ r \in Taken
    BY DEF Lapsed, Claimed, RowsIn, Taken
  <2>6. ASSUME NEW i \in Items
        PROVE  /\ Claimed(i)' = Claimed(i) \ Lapsed /\ Submitted(i)' = Submitted(i)
               /\ \A r \in Claimed(i) : result'[r].work = i
    BY <2>3 DEF Claimed, Submitted, RowsIn, Lapsed
  <2>7. InOrder(t)'
    <3>1. \A r \in Lapsed : r \in Rows /\ result'[r].work \in Items
      BY <1>t, <2>3, <2>5 DEF Taken
    <3>2. ASSUME NEW r \in Lapsed, NEW i \in Items, result'[r].work = i PROVE Claimed(i)' = {}
      <4>1. r \in Claimed(i)
        BY <2>3, <2>5, <3>1, <3>2
      <4>2. Claimed(i) \subseteq {r}
        BY <1>t, <4>1 DEF Sole
      <4> QED
        BY <2>6, <4>2
    <3> QED
      BY <2>2, <2>4, <3>1, <3>2, InOrderIs
  <2>8. ASSUME NEW i \in Items PROVE Sole(i)'
    <3>1. Sole(i) /\ Claimed(i)' \subseteq Claimed(i)
      BY <1>t, <2>6
    <3>2. item[i].status = "queued" => Claimed(i) = {}
      BY <2>1, <3>1 DEF Sole
    <3> QED
      BY <2>1, <3>1, <3>2 DEF Sole
  <2>9. ASSUME NEW i \in Items PROVE Remembered(i)'
    <3> SUFFICES ASSUME item'[i].status = "running", Claimed(i)' \cup Submitted(i)' = {}
                 PROVE  \E r \in ToRequeue(t)' : result'[r].work = i
      BY DEF Remembered
    <3>1. ToRequeue(t) = {}
      BY <1>t, <2>1 DEF InOrder, ToRequeue
    <3>2. Claimed(i) \cup Submitted(i) # {}
      BY <1>t, <2>1, <3>1 DEF Remembered
    <3>3. PICK r \in Claimed(i) : r \in Lapsed
      BY <2>6, <3>2
    <3>4. result'[r].work = i /\ r \in p.todo /\ p.pc = "requeue"
      BY <2>2, <2>6, <3>3
    <3>5. r \in ToRequeue(t)'
      BY <2>4, <3>4 DEF ToRequeue
    <3> QED
      BY <3>4, <3>5
  <2> QED
    BY <2>7, <2>8, <2>9 DEF Smooth
<1>8. CASE TickRequeue(t)
  <2> PICK r \in tick[t].todo :
        /\ item' = IF item[result[r].work].status = "running"
                   THEN [item EXCEPT ![result[r].work].status = "queued"] ELSE item
        /\ TickGoes(t, [tick[t] EXCEPT !.pc = "reckon", !.row = r])
    BY <1>8 DEF TickRequeue
  <2> DEFINE p == [tick[t] EXCEPT !.pc = "reckon", !.row = r]
  <2> PICK j \in Items : j = result[r].work
    BY <1>t DEF TickOK
  <2>1. UNCHANGED result /\ tick[t].pc = "requeue" /\ r \in Taken /\ j \in Items
    BY <1>8, <1>t DEF TickRequeue, TickOK
  <2>2. p.pc = "reckon" /\ p.todo = tick[t].todo /\ p.row = r
    BY <1>t DEF TickProc
  <2>3. tick'[t] = p
    BY <1>p
  <2>4. Claimed(j) = {}
    BY <1>t DEF InOrder
  <2>5. /\ \A i \in Items : i # j => item'[i] = item[i]
        /\ item'[j].status # "running"
        /\ item'[j].status = "none" => item[j].status = "none"
    BY <1>t, <2>1 DEF ItemRow
  <2>6. \A i \in Items : Claimed(i)' = Claimed(i) /\ Submitted(i)' = Submitted(i)
    BY <2>1 DEF Claimed, Submitted, RowsIn
  <2> HIDE DEF p
  <2>7. InOrder(t)'
    <3>1. \A q \in tick[t].todo : q \in Taken
      BY <1>t DEF TickOK
    <3>2. \A q \in tick[t].todo : result'[q].work \in Items
      BY <1>t, <2>1, <3>1
    <3>3. \A q \in tick[t].todo : \A i \in Items : result'[q].work = i => Claimed(i)' = {}
      BY <1>t, <2>1, <2>6 DEF InOrder
    <3> QED
      BY <2>2, <2>3, <3>2, <3>3, InOrderIs
  <2>8. ASSUME NEW i \in Items PROVE Sole(i)'
    <3>1. Sole(i) /\ Claimed(i)' = Claimed(i)
      BY <1>t, <2>6
    <3>2. item[i].status = "queued" => Claimed(i) = {}
      BY <2>1, <3>1 DEF Sole
    <3>3. CASE i = j
      BY <2>4, <3>1, <3>3 DEF Sole
    <3>4. CASE i # j
      BY <2>5, <3>1, <3>2, <3>4 DEF Sole
    <3> QED
      BY <3>3, <3>4
  <2>9. ASSUME NEW i \in Items PROVE Remembered(i)'
    <3> SUFFICES ASSUME item'[i].status = "running", Claimed(i)' \cup Submitted(i)' = {}
                 PROVE  \E q \in ToRequeue(t)' : result'[q].work = i
      BY DEF Remembered
    <3>1. i # j /\ item[i].status = "running" /\ Claimed(i) \cup Submitted(i) = {}
      BY <2>5, <2>6
    <3>2. PICK q \in ToRequeue(t) : result[q].work = i
      BY <1>t, <3>1 DEF Remembered
    <3>3. q \in tick[t].todo /\ q # r
      BY <2>1, <3>1, <3>2 DEF ToRequeue
    <3>4. q \in ToRequeue(t)'
      BY <2>2, <2>3, <3>3 DEF ToRequeue
    <3> QED
      BY <2>1, <3>2, <3>4
  <2> QED
    BY <2>7, <2>8, <2>9 DEF Smooth
<1>9. CASE TickClaim(t)
  <2> PICK j \in Items : j = tick[t].work
    BY <1>9, <1>t DEF TickClaim, TickOK
  <2> PICK c : c = CHOOSE q \in Spare : TRUE
    OBVIOUS
  <2> DEFINE w == tick[t].by
             p == [tick[t] EXCEPT !.pc = "run"]
             new == [status |-> "claimed", work |-> j, by |-> w, hash |-> None,
                     lease |-> "live", via |-> "tick"]
  <2>1. /\ Spare # {} /\ result' = [result EXCEPT ![c] = new]
        /\ TickGoes(t, p) /\ UNCHANGED item /\ tick[t].pc = "claim"
    BY <1>9 DEF TickClaim, ClaimRow
  <2>2. c \in Rows /\ result[c].status \in {"free", "expired"}
    BY <2>1 DEF Spare, RowsIn
  <2>3. p.pc = "run" /\ p.work = j /\ p.list = tick[t].list /\ p.todo = tick[t].todo
    BY <1>t DEF TickProc
  <2>4. new.status = "claimed" /\ new.work = j
    OBVIOUS
  <2>5. j \in tick[t].list /\ j \in Items
    BY <1>list, <2>1
  <2> HIDE DEF p, new
  <2>6. tick'[t] = p
    BY <1>p, <2>1
  <2>7. result'[c] = new /\ \A q \in Rows : q # c => result'[q] = result[q]
    BY <1>t, <2>1, <2>2
  <2>8. ASSUME NEW i \in Items
        PROVE  /\ i # j => Claimed(i)' = Claimed(i)
               /\ Claimed(j)' = Claimed(j) \cup {c}
               /\ Submitted(i)' = Submitted(i)
    BY <2>2, <2>4, <2>7 DEF Claimed, Submitted, RowsIn
  <2>9. Claimed(j) = {} /\ item[j].status # "none"
    BY <1>list, <2>1, <2>5
  <2>10. InOrder(t)'
    <3>1. p.todo = {} /\ p.work \in p.list
      BY <1>list, <2>1, <2>3, <2>5
    <3>2. \A i \in p.list : /\ item'[i].status # "none"
                            /\ Claimed(i)' = {} \/ i = j
      BY <1>list, <2>1, <2>3, <2>8
    <3>3. Claimed(j)' # {}
      BY <2>5, <2>8
    <3> QED
      BY <2>3, <2>6, <3>1, <3>2, <3>3, InOrderIs
  <2>11. ASSUME NEW i \in Items PROVE Sole(i)'
    <3>1. Sole(i) /\ (item[i].status = "queued" => Claimed(i) = {})
      BY <1>t, <2>1 DEF Sole
    <3>2. CASE i = j
      <4>1. Claimed(j)' = {c} /\ item'[j].status # "none"
        BY <2>1, <2>5, <2>8, <2>9
      <4>2. tick'[t].pc = "run" /\ tick'[t].work = j
        BY <2>3, <2>6
      <4> QED
        BY <3>2, <4>1, <4>2 DEF Sole
    <3>3. CASE i # j
      BY <2>1, <2>8, <3>1, <3>3 DEF Sole
    <3> QED
      BY <3>2, <3>3
  <2>12. ASSUME NEW i \in Items PROVE Remembered(i)'
    <3>1. ToRequeue(t) = {}
      BY <1>list, <2>1
    <3>2. Claimed(i) \cup Submitted(i) \subseteq Claimed(i)' \cup Submitted(i)'
      BY <2>8
    <3> QED
      BY <1>t, <2>1, <3>1, <3>2 DEF Remembered
  <2> QED
    BY <2>10, <2>11, <2>12 DEF Smooth
<1>10. CASE TickRun(t)
  <2> PICK j \in Items : j = tick[t].work
    BY <1>10, <1>t DEF TickRun, TickOK
  <2>1. /\ item' = [item EXCEPT ![j].status = "running"] /\ Onward(t)
        /\ UNCHANGED result /\ tick[t].pc = "run"
    BY <1>10 DEF TickRun
  <2>2. j \in tick[t].list /\ j \in Items /\ Claimed(j) \cup Submitted(j) # {}
    BY <1>list, <2>1
  <2>3. PICK q : /\ tick'[t] = q /\ q.todo = {} /\ q.pc \in {"sweep", "look"}
                 /\ q.list = tick[t].list \ {j}
    BY <1>on, <2>1
  <2>4. item'[j].status = "running" /\ \A i \in Items : i # j => item'[i] = item[i]
    BY <1>t, <2>1, <2>2 DEF ItemRow
  <2>5. \A i \in Items : Claimed(i)' = Claimed(i) /\ Submitted(i)' = Submitted(i)
    BY <2>1 DEF Claimed, Submitted, RowsIn
  <2>6. InOrder(t)'
    <3>1. \A i \in q.list : i \in Items /\ item'[i].status # "none" /\ Claimed(i)' = {}
      BY <1>list, <2>1, <2>3, <2>4, <2>5
    <3> QED
      BY <2>3, <3>1, InOrderIs
  <2>7. ASSUME NEW i \in Items PROVE Sole(i)'
    <3>1. Sole(i) /\ Claimed(i)' = Claimed(i)
      BY <1>t, <2>5
    <3>2. CASE i = j
      BY <2>4, <3>1, <3>2 DEF Sole
    <3>3. CASE i # j
      <4>1. item[i].status = "queued" => Claimed(i) = {}
        BY <3>1, <3>3 DEF Sole
      <4> QED
        BY <2>4, <3>1, <3>3, <4>1 DEF Sole
    <3> QED
      BY <3>2, <3>3
  <2>8. ASSUME NEW i \in Items PROVE Remembered(i)'
    <3>1. ToRequeue(t) = {}
      BY <1>list, <2>1
    <3>2. CASE i = j
      BY <2>2, <2>5, <3>2 DEF Remembered
    <3>3. CASE i # j
      BY <1>t, <2>4, <2>5, <3>1, <3>3 DEF Remembered
    <3> QED
      BY <3>2, <3>3
  <2> QED
    BY <2>6, <2>7, <2>8 DEF Smooth
<1> QED
  BY <1>1, <1>2, <1>3, <1>4, <1>5, <1>6, <1>7, <1>8, <1>9, <1>10 DEF TickStep

LEMMA StartSole == Init => SoleInv
<1> SUFFICES ASSUME Init PROVE SoleInv
  OBVIOUS
<1>1. HandsPlain
  BY DEF Init, IdleHand, HandsPlain
<1>2. \A i \in Items : Claimed(i) = {} /\ item[i].status = "none"
  BY DEF Init, Claimed, RowsIn
<1>3. ASSUME NEW t \in Ticks PROVE InOrder(t)
  BY DEF Init, IdleTick, InOrder
<1> QED
  BY <1>1, <1>2, <1>3 DEF SoleInv, Smooth, Sole, Remembered

LEMMA OneTick ==
  ASSUME Cardinality(Ticks) = 1
  PROVE  \E t \in Ticks : Ticks = {t}
BY SetsAssumption, FS_CardinalityType, FS_Singleton

LEMMA StepSole ==
  ASSUME Cardinality(Ticks) = 1, "assign" \notin Ops,
         WellFormed, WellFormed', SoleInv, [Next]_vars
  PROVE  SoleInv'
<1>1. HandsPlain'
  BY HandsStayPlain DEF SoleInv
<1>2. ASSUME faults' = 0 PROVE Smooth'
  <2>1. faults \in Nat
    BY DEF WellFormed, TypeOK
  <2>2. ASSUME faults' = faults + 1 PROVE FALSE
    BY <1>2, <2>1, <2>2
  <2>3. PICK t \in Ticks : Ticks = {t}
    BY OneTick
  <2>4. CASE TickFault(t) \/ Crash
    BY <2>2, <2>4 DEF TickFault, Crash
  <2>5. CASE TickStep(t)
    <3>1. UNCHANGED faults
      BY <2>5 DEF TickStep, TickExpire, TickRequeue, TickReckon, TickPunish, TickList, TickLook,
                  TickPick, TickClaim, TickRun, TickSweep
    <3> QED
      BY <1>2, <2>3, <2>5, <3>1, TickSmooth DEF SoleInv
  <2>6. ASSUME \/ \E h \in Handlers : HandFault(h)
               \/ \E b \in Billers : PostTimesOut(b) \/ BillFault(b)
        PROVE  FALSE
    BY <2>2, <2>6 DEF PostTimesOut, HandFault, BillFault
  <2>7. CASE \/ UNCHANGED vars
             \/ \E h \in Handlers : Request(h) \/ HandStep(h)
             \/ \E b \in Billers : BillStep(b)
             \/ \E i \in Items : SubmitWorkItem(i)
             \/ \E w \in Workers : RegisterWorker(w) \/ BeatGrowsStale(w)
             \/ \E r \in Rows : LeaseLapses(r)
    <3>1. UNCHANGED faults
      BY <2>7 DEF vars, Request, HandStep, ResultRequest, CancelRead, DisputeRead, BeatRead,
         ManualRead, StoreResult, CountSubmissions, ReadPrimary, WriteVerified, Reckon, Punish,
         WriteDisputed, CancelWrite, BeatWrite, BeatExtend, ManualClaim, ManualRun, BillStep,
         BillItem, BillAudit, PostUsage, LogBilling, SubmitWorkItem, RegisterWorker,
         BeatGrowsStale, LeaseLapses
    <3> QED
      BY <1>2, <2>7, <3>1, OthersSmooth DEF SoleInv
  <2> QED
    BY <2>3, <2>4, <2>5, <2>6, <2>7 DEF Next
<1> QED
  BY <1>1, <1>2 DEF SoleInv

LEMMA AlwaysSole ==
  ASSUME Cardinality(Ticks) = 1, "assign" \notin Ops
  PROVE  Spec => [](WellFormed /\ SoleInv)
<1>1. WellFormed /\ WellFormed' /\ SoleInv /\ [Next]_vars => SoleInv'
  BY StepSole
<1> QED
  BY <1>1, InitWellFormed, NextWellFormed, StartSole, PTL DEF Spec

\* With one scheduler and no manual assignment, an item is never leased twice at
\* once, up to the first fault: whichever sweeps, late answers, cancellations and
\* disputes come in between (schedulerTick).
THEOREM OneLeaseAtATime ==
  ASSUME Cardinality(Ticks) = 1, "assign" \notin Ops
  PROVE  Spec => [](faults = 0 => OneClaim)
<1>1. ASSUME WellFormed, SoleInv, faults = 0, NEW i \in Items
      PROVE  Cardinality(Claimed(i))
               + Cardinality({t \in Ticks : tick[t].pc = "claim" /\ tick[t].work = i}) <= 1
  <2>1. Smooth /\ Sole(i)
    BY <1>1 DEF SoleInv, Smooth
  <2> DEFINE C == Claimed(i)  P == {t \in Ticks : tick[t].pc = "claim" /\ tick[t].work = i}
  <2>2. P # {} => C = {}
    BY <2>1 DEF Smooth, InOrder
  <2>3. C = {} \/ \E r : C = {r}
    BY <2>1 DEF Sole
  <2>4. P = {} \/ \E t : P = {t}
    BY OneTick
  <2> HIDE DEF C, P
  <2>5. Cardinality({}) = 0 /\ \A x : Cardinality({x}) = 1
    BY FS_EmptySet, FS_Singleton
  <2>6. (C = {} \/ Cardinality(C) = 1) /\ (P = {} \/ Cardinality(P) = 1)
    BY <2>3, <2>4, <2>5
  <2>7. Cardinality(C) + Cardinality(P) <= 1
    BY <2>2, <2>5, <2>6
  <2> QED
    BY <2>7 DEF C, P
<1>2. WellFormed /\ SoleInv => (faults = 0 => OneClaim)
  BY <1>1 DEF OneClaim
<1> QED
  BY <1>2, AlwaysSole, PTL

\* With one scheduler and no manual assignment, an item marked running is held by
\* a worker, has been answered or is about to be put back in the queue, up to the
\* first fault: it is never forgotten (schedulerTick, assignItemToWorker).
THEOREM RunningIsRemembered ==
  ASSUME Cardinality(Ticks) = 1, "assign" \notin Ops
  PROVE  Spec => [](faults = 0 => NoOrphan)
<1>1. WellFormed /\ SoleInv => (faults = 0 => NoOrphan)
  BY DEF SoleInv, Smooth, Remembered, NoOrphan
<1> QED
  BY <1>1, AlwaysSole, PTL

-----------------------------------------------------------------------------
(* Billing.                                                                *)

\* The billings that may still charge an item: until the audit has a record of it,
\* also those that have not read the audit yet.
AtRisk(i) == IF audit[i] THEN {"post"} ELSE {"item", "audit", "post"}
Risk(i) == {b \in Billers : bill[b].work = i /\ bill[b].pc \in AtRisk(i)}

\* Each charge but the first is one that a billing begun beside another made, or that
\* a fault kept from being noted; and so is the first when nothing is noted and no
\* billing is left to note it.
Billed(i) ==
  /\ ledger[i] + Cardinality(Risk(i)) <= 1 + overlaps[i] + faults
  /\ ~audit[i] /\ Busy(i) = {} => ledger[i] <= overlaps[i] + faults
BillInv == \A i \in Items : Billed(i)

\* The arithmetic of one item: its charges l, the billings r that may add one, the
\* overlaps o, the faults f; q says that it has no record and no billing.
LEMMA BillSum ==
  ASSUME NEW l \in Nat, NEW r \in Nat, NEW o \in Nat, NEW f \in Nat,
         NEW l2 \in Nat, NEW r2 \in Nat, NEW o2 \in Nat, NEW f2 \in Nat, NEW q, NEW q2,
         l + r <= 1 + o + f, q => l <= o + f,
         \/ l2 = l /\ o2 = o /\ f2 = f /\ r2 <= r /\ (q2 => q \/ r >= 1)
         \/ l2 = l /\ o2 = o /\ f2 = f + 1 /\ r2 <= r
         \/ l2 = l + 1 /\ o2 = o /\ f2 = f /\ r2 = r - 1 /\ ~q2
         \/ l2 = l + 1 /\ o2 = o /\ f2 = f + 1 /\ r2 = r - 1
         \/ l2 = l /\ o2 = o + 1 /\ f2 = f /\ r2 <= r + 1 /\ ~q2
         \/ l2 = l /\ o2 = o /\ f2 = f /\ r2 <= 1 /\ q /\ ~q2
  PROVE  l2 + r2 <= 1 + o2 + f2 /\ (q2 => l2 <= o2 + f2)
OBVIOUS

LEMMA BillersFinite ==
  ASSUME NEW S \in SUBSET Billers
  PROVE  /\ IsFiniteSet(S) /\ Cardinality(S) \in Nat
         /\ \A b \in S : Cardinality(S \ {b}) = Cardinality(S) - 1
         /\ \A b \in Billers : Cardinality(S \cup {b}) <= Cardinality(S) + 1
         /\ \A T \in SUBSET S : Cardinality(T) <= Cardinality(S)
         /\ S # {} => Cardinality(S) >= 1
<1>1. IsFiniteSet(S)
  BY SetsAssumption, FS_Subset
<1>2. Cardinality(S) \in Nat
  BY <1>1, FS_CardinalityType
<1>3. \A b \in S : Cardinality(S \ {b}) = Cardinality(S) - 1
  BY <1>1, FS_RemoveElement
<1>4. ASSUME NEW b \in Billers PROVE Cardinality(S \cup {b}) <= Cardinality(S) + 1
  <2>1. CASE b \in S
    <3>1. S \cup {b} = S
      BY <2>1
    <3>2. Cardinality(S \cup {b}) = Cardinality(S)
      BY <3>1
    <3> QED
      BY <1>2, <3>2
  <2>2. CASE b \notin S
    <3>1. Cardinality(S \cup {b}) = Cardinality(S) + 1
      BY <1>1, <2>2, FS_AddElement
    <3> QED
      BY <1>2, <3>1
  <2> QED
    BY <2>1, <2>2
<1>5. \A T \in SUBSET S : Cardinality(T) <= Cardinality(S)
  BY <1>1, FS_Subset
<1>6. S # {} => Cardinality(S) >= 1
  <2>1. Cardinality(S) = 0 <=> S = {}
    BY <1>1, FS_EmptySet
  <2> QED
    BY <1>2, <2>1
<1> QED
  BY <1>1, <1>2, <1>3, <1>4, <1>5, <1>6

LEMMA StartBilled == Init => BillInv
<1> SUFFICES ASSUME Init, NEW i \in Items PROVE Billed(i)
  BY DEF BillInv
<1>1. ledger[i] = 0 /\ overlaps[i] = 0 /\ faults = 0
  BY DEF Init
<1>2. Risk(i) = {}
  BY DEF Init, Risk, AtRisk, IdleBill
<1>3. Cardinality({}) = 0
  BY FS_EmptySet
<1> QED
  BY <1>1, <1>2, <1>3 DEF Billed

\* What a step does to the billing of one item.
LEMMA ItemBilled ==
  ASSUME WellFormed, WellFormed', NEW i \in Items, Billed(i),
         LET q == ~audit[i] /\ Busy(i) = {}
             q2 == ~audit'[i] /\ Busy(i)' = {}
             r == Cardinality(Risk(i))
             r2 == Cardinality(Risk(i)')
             l == ledger[i]  l2 == ledger'[i]  o == overlaps[i]  o2 == overlaps'[i]
         IN  \/ l2 = l /\ o2 = o /\ faults' = faults /\ r2 <= r /\ (q2 => q \/ r >= 1)
             \/ l2 = l /\ o2 = o /\ faults' = faults + 1 /\ r2 <= r
             \/ l2 = l + 1 /\ o2 = o /\ faults' = faults /\ r2 = r - 1 /\ ~q2
             \/ l2 = l + 1 /\ o2 = o /\ faults' = faults + 1 /\ r2 = r - 1
             \/ l2 = l /\ o2 = o + 1 /\ faults' = faults /\ r2 <= r + 1 /\ ~q2
             \/ l2 = l /\ o2 = o /\ faults' = faults /\ r2 <= 1 /\ q /\ ~q2
  PROVE  Billed(i)'
<1> DEFINE q == ~audit[i] /\ Busy(i) = {}
           q2 == ~audit'[i] /\ Busy(i)' = {}
           r == Cardinality(Risk(i))
           r2 == Cardinality(Risk(i)')
           l == ledger[i]
           l2 == ledger'[i]
           o == overlaps[i]
           o2 == overlaps'[i]
           f == faults
           f2 == faults'
<1>1. l \in Nat /\ l2 \in Nat /\ o \in Nat /\ o2 \in Nat /\ f \in Nat /\ f2 \in Nat
  BY DEF WellFormed, TypeOK
<1>2. r \in Nat /\ r2 \in Nat
  <2>1. Risk(i) \in SUBSET Billers /\ Risk(i)' \in SUBSET Billers
    BY DEF Risk
  <2> QED
    BY <2>1, BillersFinite
<1>3. l + r <= 1 + o + f /\ (q => l <= o + f)
  BY DEF Billed
<1>4. \/ l2 = l /\ o2 = o /\ f2 = f /\ r2 <= r /\ (q2 => q \/ r >= 1)
      \/ l2 = l /\ o2 = o /\ f2 = f + 1 /\ r2 <= r
      \/ l2 = l + 1 /\ o2 = o /\ f2 = f /\ r2 = r - 1 /\ ~q2
      \/ l2 = l + 1 /\ o2 = o /\ f2 = f + 1 /\ r2 = r - 1
      \/ l2 = l /\ o2 = o + 1 /\ f2 = f /\ r2 <= r + 1 /\ ~q2
      \/ l2 = l /\ o2 = o /\ f2 = f /\ r2 <= 1 /\ q /\ ~q2
  OBVIOUS
<1> HIDE DEF q, q2, r, r2, l, l2, o, o2, f, f2
<1>5. l2 + r2 <= 1 + o2 + f2 /\ (q2 => l2 <= o2 + f2)
  BY <1>1, <1>2, <1>3, <1>4, BillSum
<1> QED
  BY <1>5 DEF Billed, q2, r2, l2, o2, f2

\* A step that neither charges, notes nor bills.
LEMMA NothingBilled ==
  ASSUME WellFormed, WellFormed', NEW i \in Items, Billed(i),
         UNCHANGED <<bill, overlaps, ledger, audit>>, faults' = faults \/ faults' = faults + 1
  PROVE  Billed(i)'
<1>1. Risk(i)' = Risk(i) /\ Busy(i)' = Busy(i)
  BY DEF Risk, AtRisk, Busy
<1>2. Cardinality(Risk(i)) \in Nat
  <2>1. Risk(i) \in SUBSET Billers
    BY DEF Risk
  <2> QED
    BY <2>1, BillersFinite
<1>3. Cardinality(Risk(i)') <= Cardinality(Risk(i))
  BY <1>1, <1>2
<1> QED
  BY <1>1, <1>3, ItemBilled

\* A billing begins.
LEMMA StartsBilled ==
  ASSUME WellFormed, WellFormed', NEW i \in Items, Billed(i), NEW b \in Billers, NEW j \in Items,
         Billing(b, j), UNCHANGED <<ledger, audit, faults>>
  PROVE  Billed(i)'
<1> DEFINE p == [pc |-> "item", work |-> j]
           n == IF Busy(j) = {} THEN overlaps[j] ELSE overlaps[j] + 1
<1>t. /\ bill \in [Billers -> BillProc] /\ overlaps \in [Items -> Nat]
      /\ Risk(i) \in SUBSET Billers /\ Risk(i)' \in SUBSET Billers
  BY DEF WellFormed, TypeOK, Risk
<1>1. /\ bill[b] = IdleBill /\ bill' = [bill EXCEPT ![b] = p]
      /\ overlaps' = [overlaps EXCEPT ![j] = n]
  BY DEF Billing
<1>2. \A c \in Billers : bill'[c] = IF c = b THEN p ELSE bill[c]
  BY <1>t, <1>1
<1>3. b \notin Risk(i) /\ p.pc = "item" /\ p.work = j /\ p # IdleBill
  BY <1>1 DEF Risk, AtRisk, IdleBill
<1> HIDE DEF p
<1>c. /\ \A T \in SUBSET Risk(i) : Cardinality(T) <= Cardinality(Risk(i))
      /\ \A T \in SUBSET (Risk(i) \cup {b}) : Cardinality(T) <= Cardinality(Risk(i)) + 1
      /\ Cardinality(Risk(i)) \in Nat /\ Cardinality(Risk(i)') \in Nat
  <2>1. Risk(i) \cup {b} \in SUBSET Billers
    BY <1>t
  <2>2. /\ \A T \in SUBSET (Risk(i) \cup {b}) : Cardinality(T) <= Cardinality(Risk(i) \cup {b})
        /\ Cardinality(Risk(i) \cup {b}) \in Nat
    BY <2>1, BillersFinite
  <2>3. Cardinality(Risk(i) \cup {b}) <= Cardinality(Risk(i)) + 1
    BY <1>t, BillersFinite
  <2>4. \A T \in SUBSET (Risk(i) \cup {b}) : Cardinality(T) \in Nat
    BY <2>1, BillersFinite
  <2>5. Cardinality(Risk(i)) \in Nat /\ Cardinality(Risk(i)') \in Nat
    BY <1>t, BillersFinite
  <2>6. \A T \in SUBSET Risk(i) : Cardinality(T) <= Cardinality(Risk(i))
    BY <1>t, BillersFinite
  <2> QED
    BY <2>2, <2>3, <2>4, <2>5, <2>6
<1>4. CASE i # j
  <2>1. Risk(i)' = Risk(i)
    BY <1>2, <1>3, <1>4 DEF Risk, AtRisk
  <2>2. Busy(i)' = Busy(i)
    BY <1>1, <1>2, <1>3, <1>4 DEF Busy
  <2>3. overlaps'[i] = overlaps[i]
    BY <1>t, <1>1, <1>4
  <2>4. Cardinality(Risk(i)') <= Cardinality(Risk(i))
    BY <1>c, <2>1
  <2> QED
    BY <2>2, <2>3, <2>4, ItemBilled
<1>5. CASE i = j /\ Busy(i) # {}
  <2>1. Risk(i)' \subseteq Risk(i) \cup {b}
    BY <1>2 DEF Risk, AtRisk
  <2>2. b \in Busy(i)'
    BY <1>2, <1>3, <1>5 DEF Busy
  <2>3. overlaps'[i] = overlaps[i] + 1
    BY <1>t, <1>1, <1>5
  <2>4. Cardinality(Risk(i)') <= Cardinality(Risk(i)) + 1
    BY <1>c, <2>1
  <2> QED
    BY <2>2, <2>3, <2>4, ItemBilled
<1>6. CASE i = j /\ Busy(i) = {}
  <2>1. b \in Busy(i)'
    BY <1>2, <1>3, <1>6 DEF Busy
  <2>2. overlaps'[i] = overlaps[i]
    BY <1>t, <1>1, <1>6
  <2>3. Risk(i) = {}
    BY <1>6 DEF Risk, AtRisk, Busy, IdleBill
  <2>4. CASE audit[i]
    <3>1. Risk(i)' \subseteq Risk(i)
      BY <1>2, <1>3, <2>4 DEF Risk, AtRisk
    <3>2. Cardinality(Risk(i)') <= Cardinality(Risk(i))
      BY <1>c, <3>1
    <3> QED
      BY <2>1, <2>2, <3>2, ItemBilled
  <2>5. CASE ~audit[i]
    <3>1. Risk(i)' \subseteq Risk(i) \cup {b}
      BY <1>2 DEF Risk, AtRisk
    <3>2. Cardinality(Risk(i)) = 0
      BY <2>3, FS_EmptySet
    <3>3. Cardinality(Risk(i)') <= 1
      BY <1>c, <3>1, <3>2
    <3> QED
      BY <1>6, <2>1, <2>2, <2>5, <3>3, ItemBilled
  <2> QED
    BY <2>4, <2>5
<1> QED
  BY <1>4, <1>5, <1>6

\* A billing takes a step.
LEMMA GoesBilled ==
  ASSUME WellFormed, WellFormed', NEW i \in Items, Billed(i), NEW b \in Billers,
         BillStep(b) \/ PostTimesOut(b) \/ BillFault(b)
  PROVE  Billed(i)'
<1>t. /\ bill \in [Billers -> BillProc] /\ audit \in [Items -> BOOLEAN]
      /\ ledger \in [Items -> Nat] /\ bill[b] \in BillProc
      /\ Risk(i) \in SUBSET Billers /\ Risk(i)' \in SUBSET Billers
  BY DEF WellFormed, TypeOK, Risk
<1>n. /\ \A T \in SUBSET Risk(i) : Cardinality(T) <= Cardinality(Risk(i))
      /\ \A c \in Risk(i) : Cardinality(Risk(i) \ {c}) = Cardinality(Risk(i)) - 1
      /\ Risk(i) # {} => Cardinality(Risk(i)) >= 1
      /\ Cardinality(Risk(i)) \in Nat
  BY <1>t, BillersFinite
<1>p. PICK p : /\ BillGoes(b, p)
               /\ p = IdleBill \/ \E pc \in {"audit", "post", "log"} : p = [bill[b] EXCEPT !.pc = pc]
  BY BillMoves DEF BillTo
<1>o. UNCHANGED overlaps
  BY BillsApart
<1>m. \A c \in Billers : bill'[c] = IF c = b THEN p ELSE bill[c]
  BY <1>t, <1>p DEF BillGoes
<1>b. bill[b].pc # "idle" /\ bill[b] # IdleBill
  BY BillMoves DEF IdleBill
<1>w. p = IdleBill \/ (p.work = bill[b].work /\ p.pc \in {"audit", "post", "log"})
  BY <1>t, <1>p DEF BillProc
<1>e. p = IdleBill => p.pc = "idle"
  BY DEF IdleBill
<1>k. p # IdleBill /\ bill[b].work = i => b \in Busy(i)'
  BY <1>m, <1>w DEF Busy
\* Another item's billing.
<1>1. CASE bill[b].work # i
  <2>1. ledger'[i] = ledger[i] /\ audit'[i] = audit[i]
    BY <1>t, <1>1 DEF BillStep, BillItem, BillAudit, PostUsage, LogBilling, PostTimesOut, BillFault
  <2>2. faults' = faults \/ faults' = faults + 1
    BY DEF BillStep, BillItem, BillAudit, PostUsage, LogBilling, PostTimesOut, BillFault
  <2>3. Risk(i)' = Risk(i)
    BY <1>m, <1>w, <1>e, <1>1, <2>1 DEF Risk, AtRisk
  <2>4. Busy(i)' = Busy(i)
    BY <1>m, <1>w, <1>1 DEF Busy
  <2>5. Cardinality(Risk(i)') <= Cardinality(Risk(i))
    BY <1>n, <2>3
  <2> QED
    BY <1>o, <2>1, <2>2, <2>4, <2>5, ItemBilled
\* A step that does not charge: the billing stays at risk or leaves it.
<1>s. ASSUME UNCHANGED <<ledger, audit>>, bill[b].work = i, Risk(i)' \subseteq Risk(i),
             \/ faults' = faults /\ (b \in Risk(i) \/ audit[i] \/ p # IdleBill)
             \/ faults' = faults + 1
      PROVE  Billed(i)'
  <2>1. Cardinality(Risk(i)') <= Cardinality(Risk(i))
    BY <1>n, <1>s
  <2>2. CASE faults' = faults + 1
    BY <1>o, <1>s, <2>1, <2>2, ItemBilled
  <2>3. CASE faults' = faults /\ (b \in Risk(i) \/ audit[i] \/ p # IdleBill)
    <3>1. ~audit'[i] /\ Busy(i)' = {} => Cardinality(Risk(i)) >= 1
      BY <1>k, <1>n, <1>s, <2>3
    <3> QED
      BY <1>o, <1>s, <2>1, <2>3, <3>1, ItemBilled
  <2> QED
    BY <1>s, <2>2, <2>3
<1>2. CASE bill[b].work = i /\ BillItem(b)
  <2>1. UNCHANGED <<ledger, audit, faults>> /\ bill[b].pc = "item" /\ p.pc \in {"idle", "audit"}
    <3>1. BillGoes(b, IdleBill) \/ BillTo(b, "audit")
      BY <1>2 DEF BillItem
    <3>2. p.pc \in {"idle", "audit"}
      BY <1>t, <1>m, <3>1 DEF BillGoes, BillTo, BillProc, IdleBill
    <3> QED
      BY <1>2, <3>2 DEF BillItem, BillAt
  <2>2. b \in Risk(i) \/ audit[i]
    BY <1>2, <2>1 DEF Risk, AtRisk
  <2>3. Risk(i)' \subseteq Risk(i)
    BY <1>m, <2>1, <2>2 DEF Risk, AtRisk
  <2> QED
    BY <1>2, <1>s, <2>1, <2>2, <2>3
<1>3. CASE bill[b].work = i /\ BillAudit(b)
  <2>1. /\ UNCHANGED <<ledger, audit, faults>> /\ bill[b].pc = "audit"
        /\ p.pc = IF audit[i] THEN "idle" ELSE "post"
    <3>1. IF audit[i] THEN BillGoes(b, IdleBill) ELSE BillTo(b, "post")
      BY <1>3 DEF BillAudit
    <3>2. p.pc = IF audit[i] THEN "idle" ELSE "post"
      BY <1>t, <1>m, <3>1 DEF BillGoes, BillTo, BillProc, IdleBill
    <3> QED
      BY <1>3, <3>2 DEF BillAudit, BillAt
  <2>2. b \in Risk(i) \/ audit[i]
    BY <1>3, <2>1 DEF Risk, AtRisk
  <2>3. Risk(i)' \subseteq Risk(i)
    BY <1>m, <2>1, <2>2 DEF Risk, AtRisk
  <2> QED
    BY <1>3, <1>s, <2>1, <2>2, <2>3
<1>4. CASE bill[b].work = i /\ (PostUsage(b) \/ PostTimesOut(b))
  <2>1. UNCHANGED audit /\ b \in Risk(i)
    BY <1>4 DEF PostUsage, PostTimesOut, BillAt, Risk, AtRisk
  <2>2. p.pc \in {"idle", "log"}
    <3>1. BillGoes(b, IdleBill) \/ BillTo(b, "log")
      BY <1>4 DEF PostUsage, PostTimesOut
    <3> QED
      BY <1>t, <1>m, <3>1 DEF BillGoes, BillTo, BillProc, IdleBill
  <2>3. Risk(i)' = Risk(i) \ {b}
    BY <1>m, <2>1, <2>2 DEF Risk, AtRisk
  <2>4. CASE UNCHANGED <<ledger, faults>>
    BY <1>4, <1>s, <2>1, <2>3, <2>4
  <2>c. Cardinality(Risk(i)') = Cardinality(Risk(i)) - 1
    BY <1>n, <2>1, <2>3
  <2>5. CASE ledger' = [ledger EXCEPT ![bill[b].work] = @ + 1] /\ faults' = faults + 1
    <3>1. ledger'[i] = ledger[i] + 1
      BY <1>t, <1>4, <2>5
    <3> QED
      BY <1>o, <2>c, <2>5, <3>1, ItemBilled
  <2>6. CASE /\ ledger' = [ledger EXCEPT ![bill[b].work] = @ + 1] /\ faults' = faults
             /\ BillTo(b, "log")
    <3>1. ledger'[i] = ledger[i] + 1
      BY <1>t, <1>4, <2>6
    <3>2. p.pc = "log"
      BY <1>t, <1>m, <2>6 DEF BillGoes, BillTo, BillProc
    <3>3. Busy(i)' # {}
      BY <1>e, <1>k, <1>4, <3>2
    <3> QED
      BY <1>o, <2>c, <2>6, <3>1, <3>3, ItemBilled
  <2> QED
    BY <1>4, <2>4, <2>5, <2>6 DEF PostUsage, PostTimesOut
<1>5. CASE bill[b].work = i /\ LogBilling(b)
  <2>1. UNCHANGED <<ledger, faults>> /\ BillGoes(b, IdleBill) /\ audit'[i] = TRUE
    BY <1>t, <1>5 DEF LogBilling
  <2>2. p = IdleBill
    BY <1>t, <1>m, <2>1 DEF BillGoes
  <2>3. Risk(i)' \subseteq Risk(i)
    BY <1>m, <1>e, <2>1, <2>2 DEF Risk, AtRisk
  <2>4. Cardinality(Risk(i)') <= Cardinality(Risk(i))
    BY <1>n, <2>3
  <2> QED
    BY <1>o, <2>1, <2>4, ItemBilled
<1>6. CASE bill[b].work = i /\ BillFault(b)
  <2>1. UNCHANGED <<ledger, audit>> /\ BillGoes(b, IdleBill) /\ faults' = faults + 1
    BY <1>6 DEF BillFault
  <2>2. p = IdleBill
    BY <1>t, <1>m, <2>1 DEF BillGoes
  <2>3. Risk(i)' \subseteq Risk(i)
    BY <1>m, <1>e, <2>1, <2>2 DEF Risk, AtRisk
  <2> QED
    BY <1>6, <1>s, <2>1, <2>3
<1> QED
  BY <1>1, <1>2, <1>3, <1>4, <1>5, <1>6 DEF BillStep

LEMMA StepBilled ==
  ASSUME WellFormed, WellFormed', BillInv, [Next]_vars, NEW i \in Items
  PROVE  Billed(i)'
<1>1. Billed(i)
  BY DEF BillInv
<1>2. ASSUME UNCHANGED <<bill, overlaps, ledger, audit>>, faults' = faults \/ faults' = faults + 1
      PROVE  Billed(i)'
  BY <1>1, <1>2, NothingBilled
<1>3. ASSUME NEW t \in Ticks, TickStep(t) \/ TickFault(t) PROVE Billed(i)'
  <2>1. UNCHANGED <<bill, overlaps, ledger, audit>> /\ (faults' = faults \/ faults' = faults + 1)
    BY <1>3 DEF TickStep, TickExpire, TickRequeue, TickReckon, TickPunish, TickList, TickLook,
                TickPick, TickClaim, TickRun, TickSweep, TickFault
  <2> QED
    BY <1>2, <2>1
<1>4. ASSUME NEW h \in Handlers, WriteVerified(h) \/ Punish(h) PROVE Billed(i)'
  <2>1. UNCHANGED <<ledger, audit, faults>> /\ \E todo : AfterVerdict(h, todo)
    BY <1>4 DEF WriteVerified, Punish
  <2>2. hand[h].work \in Items
    BY <1>4 DEF WriteVerified, Punish, HandAt, WellFormed, HandOK
  <2>3. \/ UNCHANGED <<bill, overlaps>>
        \/ \E b \in Billers : Billing(b, hand[h].work)
    BY <2>1, AfterVerdictGoes
  <2> QED
    BY <1>1, <1>2, <2>1, <2>2, <2>3, StartsBilled
<1>5. ASSUME NEW h \in Handlers, Request(h) \/ HandStep(h) \/ HandFault(h) PROVE Billed(i)'
  <2>1. \/ WriteVerified(h) \/ Punish(h)
        \/ /\ UNCHANGED <<bill, overlaps, ledger, audit>>
           /\ faults' = faults \/ faults' = faults + 1
    BY <1>5 DEF Request, HandStep, ResultRequest, CancelRead, DisputeRead, BeatRead, ManualRead,
         StoreResult, CountSubmissions, ReadPrimary, Reckon, WriteDisputed, CancelWrite,
         BeatWrite, BeatExtend, ManualClaim, ManualRun, HandFault
  <2> QED
    BY <1>2, <1>4, <2>1
<1>6. ASSUME NEW b \in Billers, BillStep(b) \/ PostTimesOut(b) \/ BillFault(b) PROVE Billed(i)'
  BY <1>1, <1>6, GoesBilled
<1>7. CASE Crash
  <2>1. /\ UNCHANGED <<overlaps, ledger, audit>> /\ faults' = faults + 1
        /\ bill' = [b \in Billers |-> IdleBill]
    BY <1>7 DEF Crash
  <2>2. Risk(i)' = {} /\ Risk(i) \in SUBSET Billers
    BY <2>1 DEF Risk, AtRisk, IdleBill
  <2>3. Cardinality(Risk(i)') <= Cardinality(Risk(i))
    BY <2>2, BillersFinite
  <2> QED
    BY <1>1, <2>1, <2>3, ItemBilled
<1>8. CASE \/ UNCHANGED vars
           \/ \E j \in Items : SubmitWorkItem(j)
           \/ \E w \in Workers : RegisterWorker(w) \/ BeatGrowsStale(w)
           \/ \E r \in Rows : LeaseLapses(r)
  BY <1>2, <1>8 DEF vars, SubmitWorkItem, RegisterWorker, BeatGrowsStale, LeaseLapses
<1> QED
  BY <1>3, <1>5, <1>6, <1>7, <1>8 DEF Next

LEMMA AlwaysBilled == Spec => [](WellFormed /\ BillInv)
<1>1. WellFormed /\ WellFormed' /\ BillInv /\ [Next]_vars => BillInv'
  <2> SUFFICES ASSUME WellFormed, WellFormed', BillInv, [Next]_vars, NEW i \in Items
               PROVE  Billed(i)'
    BY DEF BillInv
  <2> QED
    BY StepBilled
<1> QED
  BY <1>1, StartBilled, InitWellFormed, NextWellFormed, PTL DEF Spec

\* For each item the payer is charged once, once more for each billing that began
\* beside another of the item and once more for each fault, for any number of requests
\* and of billings that outlive them: reading the audit before the POST and writing it
\* after bounds what racing billings and lost answers can do (billVerifiedWorkItem).
THEOREM ChargesAreBounded == Spec => []ChargesBounded
<1>1. ASSUME WellFormed, BillInv, NEW i \in Items
      PROVE  ledger[i] <= 1 + overlaps[i] + faults
  <2> DEFINE r == Cardinality(Risk(i))  l == ledger[i]  o == overlaps[i]  f == faults
  <2>1. l \in Nat /\ o \in Nat /\ f \in Nat /\ Risk(i) \in SUBSET Billers
    BY <1>1 DEF WellFormed, TypeOK, Risk
  <2>2. r \in Nat
    BY <2>1, BillersFinite
  <2>3. l + r <= 1 + o + f
    BY <1>1 DEF BillInv, Billed
  <2> HIDE DEF r, l, o, f
  <2>4. l <= 1 + o + f
    BY <2>1, <2>2, <2>3
  <2> QED
    BY <2>4 DEF l, o, f
<1>2. WellFormed /\ BillInv => ChargesBounded
  BY <1>1 DEF ChargesBounded
<1> QED
  BY <1>2, AlwaysBilled, PTL

=============================================================================
