-------------------------- MODULE NodePresaleProofs --------------------------
(***************************************************************************)
(* Theorems about the presale, for any number of reservations, payments,   *)
(* requests and faults: whatever the interleaving, a unit is held only for *)
(* a deposit whose hash is booked, confirmed only for a balance whose hash *)
(* is booked, and the escrow pays out only against what it took in.        *)
(*                                                                         *)
(* Neither property is inductive: a request that has passed its checks     *)
(* writes the status or the credit later, from what it remembers.          *)
(* Remembered says what a request at each step may rely on; each of these  *)
(* facts, once true, stays true (a hash stays booked, a released lock      *)
(* stays released), which is why it survives the other requests.           *)
(***************************************************************************)
EXTENDS NodePresale, TLAPS

-----------------------------------------------------------------------------
(* The inductive invariant.                                                *)

\* The deposit that a reservation names is in.
DepositIn(r) == res[r].reserve # None /\ PaidIn(res[r].reserve)

RowPaid(r) ==
  /\ res[r].status \in {"spot_held", "awaiting_confirm", "confirmed"} => DepositIn(r)
  /\ res[r].confirm # None => PaidIn(res[r].confirm)
  /\ res[r].status = "confirmed" => res[r].confirm # None
  /\ lock[r].yield => lock[r].state = "released"
RowsPaid == \A r \in Reservations : RowPaid(r)

\* No two reservations name the same hash for their deposits, or balances.
Unshared ==
  \A r, s \in Reservations :
    r # s => /\ res[r].reserve # None => res[s].reserve # res[r].reserve
             /\ res[r].confirm # None => res[s].confirm # res[r].confirm

\* What a request at each step relies on.
Earned(hd) == hd.tx \in Overrides \/ lock[hd.res].state = "released"
Remembered(hd) ==
  /\ hd.pc \notin {"idle", "cancelStale", "sweep"} => hd.res \in Reservations
  /\ hd.pc = "cancelStale" /\ hd.tx # None => hd.res \in Reservations /\ hd.purpose = "deposit"
  /\ hd.pc \in {"debit", "debitInsert"} =>
       /\ hd.tx \in Txs
       /\ hd.purpose = "balance" => DepositIn(hd.res) /\ (hd.yield => Earned(hd))
  /\ hd.pc = "hold" => hd.tx \in Txs /\ PaidIn(hd.tx)
  /\ hd.pc \in {"open", "unlock", "unlockWrite", "refund", "refundInsert"} => DepositIn(hd.res)
  /\ hd.pc \in {"unlock", "unlockWrite"} => hd.tx \in Txs
  /\ hd.pc \in {"credit", "creditInsert", "confirm"} =>
       hd.tx \in Txs /\ DepositIn(hd.res) /\ PaidIn(hd.tx)
  /\ hd.pc \in {"credit", "creditInsert"} => Earned(hd)
  /\ hd.pc = "refundInsert" => hd.key \in Millis

HandsRemember == \A h \in Handlers : Remembered(hand[h])
IInv == TypeOK /\ RowsPaid /\ Unshared /\ HandsRemember /\ CreditsBacked

-----------------------------------------------------------------------------
(* What every step keeps, and the steps that move one request.             *)

\* A hash stays booked, a paid deposit stays paid, a released lock released.
Kept ==
  /\ escrow \subseteq escrow'
  /\ \A r \in Reservations : DepositIn(r) => DepositIn(r)'
  /\ \A r \in Reservations : lock[r].state = "released" => lock'[r].state = "released"

LEMMA MemoryKept ==
  ASSUME Kept, NEW g, Remembered(hand[g]), hand'[g] = hand[g]
  PROVE  Remembered(hand[g])'
<1>1. hand[g].pc \notin {"idle", "cancelStale", "sweep"} => hand[g].res \in Reservations
  BY DEF Remembered
<1>2. hand[g].res \in Reservations /\ DepositIn(hand[g].res) => DepositIn(hand[g].res)'
  BY DEF Kept, DepositIn, PaidIn
<1>3. hand[g].res \in Reservations /\ Earned(hand[g]) => Earned(hand[g])'
  BY DEF Kept, Earned
<1>4. PaidIn(hand[g].tx) => PaidIn(hand[g].tx)'
  BY DEF Kept, PaidIn
<1> QED
  BY <1>1, <1>2, <1>3, <1>4 DEF Remembered

LEMMA Moves ==
  ASSUME IInv, Kept, NEW h \in Handlers, NEW p \in Hand, Goes(h, p),
         Remembered(hand[h])', RowsPaid', Unshared', CreditsBacked',
         res' \in [Reservations -> ResRow], escrow' \subseteq Entry,
         lock' \in [Reservations -> LockRow], faults' \in Nat
  PROVE  IInv'
<1>1. TypeOK'
  BY DEF IInv, TypeOK, Goes
<1>2. HandsRemember'
  <2> SUFFICES ASSUME NEW g \in Handlers PROVE Remembered(hand[g])'
    BY DEF HandsRemember
  <2>1. CASE g = h
    BY <2>1
  <2>2. CASE g # h
    <3>1. hand'[g] = hand[g] /\ Remembered(hand[g])
      BY <2>2 DEF IInv, TypeOK, Goes, HandsRemember
    <3> QED
      BY <3>1, MemoryKept
  <2> QED
    BY <2>1, <2>2
<1> QED
  BY <1>1, <1>2 DEF IInv

LEMMA CreditsKept ==
  ASSUME IInv, escrow' = escrow, Unshared',
         \A r \in Reservations : DepositIn(r) => DepositIn(r)',
         \A r \in Reservations : lock[r].state = "released" => lock'[r].state = "released"
  PROVE  CreditsBacked'
<1> SUFFICES ASSUME NEW e \in escrow
             PROVE  /\ e.purpose = "refund" =>
                         DepositIn(e.res)' /\ ~ReserveTaken(e.res, res[e.res].reserve)'
                    /\ e.purpose = "yield_credit" =>
                         /\ PaidIn(e.key)'
                         /\ e.key \in Overrides \/ lock'[e.res].state = "released"
  BY DEF CreditsBacked, DepositIn
<1>1. e.res \in Reservations
  BY DEF IInv, TypeOK, Entry
<1>2. e.purpose = "refund" => DepositIn(e.res)'
  BY <1>1 DEF IInv, CreditsBacked, DepositIn
<1>3. DepositIn(e.res)' => ~ReserveTaken(e.res, res[e.res].reserve)'
  BY <1>1 DEF Unshared, DepositIn, ReserveTaken
<1>4. e.purpose = "yield_credit" =>
        PaidIn(e.key)' /\ (e.key \in Overrides \/ lock'[e.res].state = "released")
  BY <1>1 DEF IInv, CreditsBacked, PaidIn
<1> QED
  BY <1>2, <1>3, <1>4

\* A request that reads, or goes on without writing.
LEMMA Reads ==
  ASSUME IInv, NEW h \in Handlers, NEW p \in Hand, Goes(h, p), Remembered(p),
         UNCHANGED <<res, escrow, lock>>, faults' \in Nat
  PROVE  IInv'
<1>1. Kept /\ RowsPaid' /\ Unshared'
  BY DEF Kept, IInv, RowsPaid, RowPaid, DepositIn, PaidIn, Unshared
<1>2. CreditsBacked'
  BY <1>1, CreditsKept DEF Kept
<1>3. hand'[h] = p
  BY DEF IInv, TypeOK, Goes
<1>4. Remembered(hand[h])'
  BY <1>3 DEF Remembered, DepositIn, Earned, PaidIn
<1> QED
  BY <1>1, <1>2, <1>4, Moves DEF IInv, TypeOK

\* A request that writes reservations and ends, or goes on to need less.
LEMMA Writes ==
  ASSUME IInv, NEW h \in Handlers, NEW p \in Hand, Goes(h, p), Remembered(p),
         p.pc \in {"idle", "sweep", "lock", "debit"}, p.pc = "debit" => p.purpose = "deposit",
         UNCHANGED <<escrow, lock, faults>>, res' \in [Reservations -> ResRow],
         \A r \in Reservations : DepositIn(r) => DepositIn(r)',
         RowsPaid', Unshared'
  PROVE  IInv'
<1>1. Kept /\ CreditsBacked'
  BY CreditsKept DEF Kept
<1>2. hand'[h] = p
  BY DEF IInv, TypeOK, Goes
<1>3. Remembered(hand[h])'
  BY <1>2 DEF Remembered
<1> QED
  BY <1>1, <1>3, Moves DEF IInv, TypeOK


-----------------------------------------------------------------------------
(* Requests start.                                                         *)

LEMMA IdleRemembers == Idle \in Hand /\ Remembered(Idle)
BY DEF Idle, Hand, Remembered

LEMMA RequestKeeps ==
  ASSUME IInv, NEW h \in Handlers, Request(h)
  PROVE  IInv'
<1>1. CASE FundRead(h)
  <2> PICK r \in Reservations, tx \in Txs :
        Goes(h, [Idle EXCEPT !.pc = IF r \in StalePending THEN "cancelStale" ELSE "debit",
                             !.res = r, !.tx = tx, !.opt = res[r].opt,
                             !.todo = {r} \cap StalePending])
    BY <1>1 DEF FundRead
  <2> DEFINE p == [Idle EXCEPT !.pc = IF r \in StalePending THEN "cancelStale" ELSE "debit",
                               !.res = r, !.tx = tx, !.opt = res[r].opt,
                               !.todo = {r} \cap StalePending]
  <2>1. res[r].opt \in BOOLEAN
    BY DEF IInv, TypeOK, ResRow
  <2>2. p \in Hand
    BY <2>1 DEF Hand, Idle, StalePending
  <2>3. Remembered(p)
    BY DEF Remembered, Idle
  <2> QED
    BY <1>1, <2>2, <2>3, Reads DEF FundRead, IInv, TypeOK
<1>2. CASE ListRead(h)
  <2> PICK S \in SUBSET StalePending : Goes(h, [Idle EXCEPT !.pc = "cancelStale", !.todo = S])
    BY <1>2 DEF ListRead
  <2> DEFINE p == [Idle EXCEPT !.pc = "cancelStale", !.todo = S]
  <2>1. p \in Hand /\ Remembered(p)
    BY DEF Hand, Idle, StalePending, Remembered
  <2> QED
    BY <1>2, <2>1, Reads DEF ListRead, IInv, TypeOK
<1>3. CASE OpenRead(h)
  <2> PICK r \in Reservations :
        res[r].status = "spot_held" /\ Goes(h, [Idle EXCEPT !.pc = "open", !.res = r])
    BY <1>3 DEF OpenRead
  <2> DEFINE p == [Idle EXCEPT !.pc = "open", !.res = r]
  <2>1. p \in Hand /\ Remembered(p)
    BY DEF Hand, Idle, Remembered, IInv, RowsPaid, RowPaid
  <2> QED
    BY <1>3, <2>1, Reads DEF OpenRead, IInv, TypeOK
<1>4. CASE ConfirmRead(h)
  <2> PICK r \in Reservations, tx \in Txs :
        /\ res[r].status = "awaiting_confirm"
        /\ Goes(h, [Idle EXCEPT !.pc = IF res[r].opt THEN "unlock" ELSE "debit",
                                !.res = r, !.tx = tx, !.purpose = "balance",
                                !.same = res[r].confirm = tx, !.yield = tx \in Overrides])
    BY <1>4 DEF ConfirmRead
  <2> DEFINE p == [Idle EXCEPT !.pc = IF res[r].opt THEN "unlock" ELSE "debit",
                               !.res = r, !.tx = tx, !.purpose = "balance",
                               !.same = res[r].confirm = tx, !.yield = tx \in Overrides]
  <2>1. DepositIn(r)
    BY DEF IInv, RowsPaid, RowPaid
  <2>2. p \in Hand
    <3>1. \A pc \in {"unlock", "debit"}, same, yield \in BOOLEAN :
            [Idle EXCEPT !.pc = pc, !.res = r, !.tx = tx, !.purpose = "balance",
                         !.same = same, !.yield = yield] \in Hand
      BY DEF Hand, Idle
    <3>2. (res[r].confirm = tx) \in BOOLEAN /\ (tx \in Overrides) \in BOOLEAN
      OBVIOUS
    <3> QED
      BY <3>1, <3>2
  <2>3. Remembered(p)
    BY <2>1 DEF Remembered, Idle, Earned
  <2> QED
    BY <1>4, <2>2, <2>3, Reads DEF ConfirmRead, IInv, TypeOK
<1>5. CASE ReleaseRead(h)
  <2> PICK r \in Reservations :
        /\ res[r].status \in {"pending_funding", "spot_held", "awaiting_confirm"}
        /\ Goes(h, [Idle EXCEPT !.pc = IF res[r].status = "pending_funding" THEN "free" ELSE "refund",
                                !.res = r])
    BY <1>5 DEF ReleaseRead
  <2> DEFINE p == [Idle EXCEPT !.pc = IF res[r].status = "pending_funding" THEN "free" ELSE "refund",
                               !.res = r]
  <2>1. p \in Hand
    BY DEF Hand, Idle
  <2>2. Remembered(p)
    BY DEF Idle, Remembered, IInv, RowsPaid, RowPaid
  <2> QED
    BY <1>5, <2>1, <2>2, Reads DEF ReleaseRead, IInv, TypeOK
<1>6. CASE SweepRead(h)
  <2> PICK S \in SUBSET Reservations : Goes(h, [Idle EXCEPT !.pc = "sweep", !.todo = S])
    BY <1>6 DEF SweepRead
  <2> DEFINE p == [Idle EXCEPT !.pc = "sweep", !.todo = S]
  <2>1. p \in Hand /\ Remembered(p)
    BY DEF Hand, Idle, Remembered
  <2> QED
    BY <1>6, <2>1, Reads DEF SweepRead, IInv, TypeOK
<1> QED
  BY <1>1, <1>2, <1>3, <1>4, <1>5, <1>6 DEF Request

-----------------------------------------------------------------------------
(* The escrow ledger.                                                      *)

LEMMA StepHolds ==
  ASSUME IInv, NEW h \in Handlers
  PROVE  hand[h] \in Hand /\ Remembered(hand[h])
BY DEF IInv, TypeOK, HandsRemember

\* A hash that stands as a debit, of any reservation and purpose, is paid in.
LEMMA DebitIsIn ==
  ASSUME NEW r, NEW purpose \in {"deposit", "balance"}, NEW tx, Stands(Debit(r, purpose, tx))
  PROVE  PaidIn(tx)
<1>1. PICK f \in escrow :
        /\ f.key = tx
        /\ f.purpose = purpose \/ {f.purpose, purpose} = {"deposit", "balance"}
  BY DEF Stands, Debit
<1>2. f.purpose \in {"deposit", "balance"}
  BY <1>1
<1> QED
  BY <1>1, <1>2 DEF PaidIn

LEMMA LedgerKeeps ==
  ASSUME IInv, NEW h \in Handlers,
         DebitLookUp(h) \/ CreditLookUp(h) \/ RefundLookUp(h) \/ Refuse(h)
  PROVE  IInv'
<1>1. CASE DebitLookUp(h)
  <2> DEFINE p == [hand[h] EXCEPT !.pc = IF Stands(DebitOf(hand[h])) THEN AfterDebit(h)
                                         ELSE "debitInsert"]
  <2>1. p \in Hand
    BY StepHolds DEF Hand, AfterDebit
  <2>2. Stands(DebitOf(hand[h])) => PaidIn(hand[h].tx)
    BY StepHolds, DebitIsIn DEF DebitOf, Hand
  <2>3. Remembered(p)
    BY <1>1, <2>2, StepHolds DEF DebitLookUp, At, Hand, AfterDebit, Remembered, Earned
  <2> QED
    BY <1>1, <2>1, <2>3, Reads DEF DebitLookUp, LookUp, To, IInv, TypeOK
<1>2. CASE CreditLookUp(h)
  <2> DEFINE p == [hand[h] EXCEPT !.pc = IF Stands(CreditOf(hand[h])) THEN "confirm"
                                         ELSE "creditInsert"]
  <2>1. p \in Hand
    BY StepHolds DEF Hand
  <2>2. Remembered(p)
    BY <1>2, StepHolds DEF CreditLookUp, At, Hand, Remembered, Earned
  <2> QED
    BY <1>2, <2>1, <2>2, Reads DEF CreditLookUp, LookUp, To, IInv, TypeOK
<1>3. CASE RefundLookUp(h)
  <2> PICK k \in Millis :
        Goes(h, [hand[h] EXCEPT !.key = k,
          !.pc = IF Stands(RefundCredit(hand[h].res, k)) THEN "free" ELSE "refundInsert"])
    BY <1>3 DEF RefundLookUp
  <2> DEFINE p == [hand[h] EXCEPT !.key = k,
          !.pc = IF Stands(RefundCredit(hand[h].res, k)) THEN "free" ELSE "refundInsert"]
  <2>1. p \in Hand
    BY StepHolds DEF Hand
  <2>2. Remembered(p)
    BY <1>3, StepHolds DEF RefundLookUp, At, Hand, Remembered
  <2> QED
    BY <1>3, <2>1, <2>2, Reads DEF RefundLookUp, IInv, TypeOK
<1>4. CASE Refuse(h)
  BY <1>4, IdleRemembers, Reads DEF Refuse, Ends, IInv, TypeOK
<1> QED
  BY <1>1, <1>2, <1>3, <1>4

\* An entry that is backed when it is inserted.
LEMMA InsertKeeps ==
  ASSUME IInv, NEW h \in Handlers, NEW e \in Entry, NEW pc, Insert(h, e, pc),
         [hand[h] EXCEPT !.pc = pc] \in Hand,
         (/\ escrow' = escrow \cup {e}
          /\ hand' = [hand EXCEPT ![h] = [hand[h] EXCEPT !.pc = pc]]) => Remembered(hand[h])',
         e.purpose = "refund" => DepositIn(e.res),
         e.purpose = "yield_credit" =>
           PaidIn(e.key) /\ (e.key \in Overrides \/ lock[e.res].state = "released")
  PROVE  IInv'
<1>1. CASE Stands(e)
  BY <1>1, IdleRemembers, Reads DEF Insert, Ends, IInv, TypeOK
<1>2. CASE ~Stands(e)
  <2>1. /\ Goes(h, [hand[h] EXCEPT !.pc = pc]) /\ escrow' = escrow \cup {e}
        /\ UNCHANGED <<res, lock, faults>>
    BY <1>2 DEF Insert, To
  <2>2. Remembered(hand[h])'
    BY <2>1 DEF Goes
  <2>3. Kept /\ RowsPaid' /\ Unshared'
    BY <2>1 DEF Kept, IInv, RowsPaid, RowPaid, DepositIn, PaidIn, Unshared
  <2>4. CreditsBacked'
    <3> SUFFICES ASSUME NEW f \in escrow \cup {e}
                 PROVE  /\ f.purpose = "refund" =>
                             DepositIn(f.res)' /\ ~ReserveTaken(f.res, res[f.res].reserve)'
                        /\ f.purpose = "yield_credit" =>
                             /\ PaidIn(f.key)'
                             /\ f.key \in Overrides \/ lock'[f.res].state = "released"
      BY <2>1 DEF CreditsBacked, DepositIn
    <3>1. /\ f.purpose = "refund" => DepositIn(f.res)
          /\ f.purpose = "yield_credit" =>
               PaidIn(f.key) /\ (f.key \in Overrides \/ lock[f.res].state = "released")
      BY DEF IInv, CreditsBacked, DepositIn
    <3>2. f.res \in Reservations
      BY DEF IInv, TypeOK, Entry
    <3>3. DepositIn(f.res)' => ~ReserveTaken(f.res, res[f.res].reserve)'
      BY <2>3, <3>2 DEF Unshared, DepositIn, ReserveTaken
    <3>4. (DepositIn(f.res) => DepositIn(f.res)') /\ (PaidIn(f.key) => PaidIn(f.key)')
      BY <2>3, <3>2 DEF Kept, PaidIn
    <3> QED
      BY <2>1, <3>1, <3>3, <3>4
  <2>5. escrow' \subseteq Entry
    BY <2>1 DEF IInv, TypeOK
  <2> QED
    BY <2>1, <2>2, <2>3, <2>4, <2>5, Moves DEF IInv, TypeOK
<1> QED
  BY <1>1, <1>2

LEMMA InsertsKeep ==
  ASSUME IInv, NEW h \in Handlers, DebitInsert(h) \/ CreditInsert(h) \/ RefundInsert(h)
  PROVE  IInv'
<1> DEFINE hd == hand[h]
<1>h. hd \in Hand /\ Remembered(hd)
  BY StepHolds
<1>1. CASE DebitInsert(h)
  <2> DEFINE p == [hd EXCEPT !.pc = AfterDebit(h)]
  <2>1. hd.pc = "debitInsert" /\ Insert(h, DebitOf(hd), AfterDebit(h))
    BY <1>1 DEF DebitInsert, At
  <2>2. hd.tx \in Txs /\ hd.res \in Reservations /\ hd.purpose \in {"deposit", "balance"}
    BY <1>h, <2>1 DEF Remembered, Hand
  <2>3. /\ DebitOf(hd) \in Entry /\ DebitOf(hd).key = hd.tx
        /\ DebitOf(hd).purpose \in {"deposit", "balance"}
    BY <2>2 DEF DebitOf, Debit, Entry
  <2>4. p \in Hand /\ p.tx = hd.tx /\ p.res = hd.res
    BY <1>h DEF Hand, AfterDebit
  <2>5. ASSUME escrow' = escrow \cup {DebitOf(hd)}, hand' = [hand EXCEPT ![h] = p]
        PROVE  Remembered(hand[h])'
    <3>1. hand'[h] = p
      BY <2>5 DEF IInv, TypeOK
    <3>2. PaidIn(hand[h].tx)' /\ res' = res /\ lock' = lock
      BY <2>1, <2>3, <2>4, <2>5, <3>1 DEF PaidIn, Insert
    <3>3. DepositIn(hd.res) => DepositIn(hand[h].res)'
      BY <2>4, <2>5, <3>1, <3>2 DEF DepositIn, PaidIn
    <3> QED
      BY <1>h, <2>1, <2>4, <3>1, <3>2, <3>3 DEF Hand, Remembered, AfterDebit, Earned
  <2> QED
    BY <2>1, <2>3, <2>4, <2>5, InsertKeeps
<1>2. CASE CreditInsert(h)
  <2> DEFINE p == [hd EXCEPT !.pc = "confirm"]
  <2>1. hd.pc = "creditInsert" /\ Insert(h, CreditOf(hd), "confirm")
    BY <1>2 DEF CreditInsert, At
  <2>2. /\ hd.tx \in Txs /\ hd.res \in Reservations
        /\ PaidIn(hd.tx) /\ Earned(hd) /\ DepositIn(hd.res)
    BY <1>h, <2>1 DEF Remembered
  <2>3. /\ CreditOf(hd) \in Entry /\ CreditOf(hd).purpose = "yield_credit"
        /\ CreditOf(hd).key = hd.tx /\ CreditOf(hd).res = hd.res
    BY <2>2 DEF CreditOf, YieldCredit, Entry
  <2>4. p \in Hand /\ p.pc = "confirm" /\ p.tx = hd.tx /\ p.res = hd.res
    BY <1>h DEF Hand
  <2>5. ASSUME escrow' = escrow \cup {CreditOf(hd)}, hand' = [hand EXCEPT ![h] = p]
        PROVE  Remembered(hand[h])'
    <3>1. hand'[h] = p
      BY <2>5 DEF IInv, TypeOK
    <3>2. PaidIn(hand[h].tx)' /\ DepositIn(hand[h].res)'
      BY <2>1, <2>2, <2>4, <2>5, <3>1 DEF Insert, PaidIn, DepositIn
    <3> QED
      BY <2>2, <2>4, <3>1, <3>2 DEF Remembered
  <2> QED
    BY <2>1, <2>2, <2>3, <2>4, <2>5, InsertKeeps DEF Earned
<1>3. CASE RefundInsert(h)
  <2>1. hd.pc = "refundInsert" /\ Insert(h, RefundCredit(hd.res, hd.key), "free")
    BY <1>3 DEF RefundInsert, At
  <2>2. hd.res \in Reservations /\ hd.key \in Millis /\ DepositIn(hd.res)
    BY <1>h, <2>1 DEF Remembered
  <2>3. /\ RefundCredit(hd.res, hd.key) \in Entry
        /\ RefundCredit(hd.res, hd.key).purpose = "refund"
        /\ RefundCredit(hd.res, hd.key).res = hd.res
    BY <2>2 DEF RefundCredit, Entry
  <2>4. [hd EXCEPT !.pc = "free"] \in Hand
    BY <1>h DEF Hand
  <2>5. ASSUME hand' = [hand EXCEPT ![h] = [hd EXCEPT !.pc = "free"]]
        PROVE  Remembered(hand[h])'
    <3>1. hand'[h] = [hd EXCEPT !.pc = "free"]
      BY <2>5 DEF IInv, TypeOK
    <3> QED
      BY <1>h, <2>2, <3>1 DEF Hand, Remembered
  <2> QED
    BY <2>1, <2>2, <2>3, <2>4, <2>5, InsertKeeps
<1> QED
  BY <1>1, <1>2, <1>3

-----------------------------------------------------------------------------
(* The reservation's row.                                                  *)

\* A row whose hashes stay, and whose new status is earned.
LEMMA RowKept ==
  ASSUME NEW r \in Reservations, RowPaid(r), escrow' = escrow, lock' = lock,
         res'[r].reserve = res[r].reserve, res'[r].confirm = res[r].confirm,
         res'[r].status \in {"spot_held", "awaiting_confirm", "confirmed"} => DepositIn(r),
         res'[r].status = "confirmed" => res[r].confirm # None
  PROVE  RowPaid(r)' /\ (DepositIn(r) => DepositIn(r)')
<1>1. DepositIn(r) => DepositIn(r)'
  BY DEF DepositIn, PaidIn
<1> QED
  BY <1>1 DEF RowPaid, PaidIn

\* Rows that keep the hashes they name, and whose new status is earned.
LEMMA HashesStay ==
  ASSUME IInv, res' \in [Reservations -> ResRow], UNCHANGED <<escrow, lock>>,
         \A r \in Reservations :
           /\ res'[r].reserve = res[r].reserve /\ res'[r].confirm = res[r].confirm
           /\ \/ res'[r].status \in {res[r].status, "pending_funding", "released"}
              \/ res'[r].status = "awaiting_confirm" /\ DepositIn(r)
  PROVE  RowsPaid' /\ Unshared' /\ \A r \in Reservations : DepositIn(r) => DepositIn(r)'
<1>1. \A r \in Reservations : RowPaid(r)' /\ (DepositIn(r) => DepositIn(r)')
  BY RowKept DEF IInv, RowsPaid, RowPaid
<1>2. Unshared'
  BY DEF IInv, Unshared
<1> QED
  BY <1>1, <1>2 DEF RowsPaid

LEMMA StatusWritesKeep ==
  ASSUME IInv, NEW h \in Handlers,
         CancelStale(h) \/ Hold(h) \/ OptOut(h) \/ OpenWrite(h) \/ Confirm(h) \/ Free(h)
           \/ SweepWrite(h)
  PROVE  IInv'
<1> DEFINE hd == hand[h]
<1>h. hd \in Hand /\ Remembered(hd)
  BY StepHolds
<1>s. ASSUME NEW S \in SUBSET Reservations, res' = Released(S), UNCHANGED <<escrow, lock>>
      PROVE  /\ res' \in [Reservations -> ResRow]
             /\ \A r \in Reservations : DepositIn(r) => DepositIn(r)'
             /\ RowsPaid' /\ Unshared'
  <2>1. res' \in [Reservations -> ResRow]
    BY <1>s DEF Released, IInv, TypeOK, ResRow, Status
  <2>2. \A r \in Reservations :
          /\ res'[r].reserve = res[r].reserve /\ res'[r].confirm = res[r].confirm
          /\ res'[r].status \in {res[r].status, "released"}
    BY <1>s DEF Released, IInv, TypeOK, ResRow
  <2> QED
    BY <1>s, <2>1, <2>2, HashesStay
<1>1. CASE CancelStale(h)
  <2>1. hd.pc = "cancelStale" /\ res' = Released(hd.todo) /\ UNCHANGED <<escrow, lock, faults>>
    BY <1>1 DEF CancelStale, At
  <2>2. hd.todo \in SUBSET Reservations
    BY <1>h DEF Hand
  <2>3. CASE hd.tx = None
    BY <1>s, <1>1, <2>1, <2>2, <2>3, IdleRemembers, Writes DEF CancelStale, Ends, Idle
  <2>4. CASE hd.tx # None
    <3> DEFINE p == [hd EXCEPT !.pc = "debit", !.todo = {}]
    <3>a. /\ hd.purpose = "deposit" /\ hd.tx \in Txs /\ hd.res \in Reservations
          /\ hd.purpose # "balance"
      BY <1>h, <2>1, <2>4 DEF Remembered, Hand
    <3>1. p \in Hand /\ p.pc = "debit" /\ p.tx = hd.tx /\ p.res = hd.res /\ p.purpose = hd.purpose
      BY <1>h DEF Hand
    <3>2. Remembered(p)
      BY <3>a, <3>1 DEF Remembered
    <3> QED
      BY <1>s, <1>1, <2>1, <2>2, <2>4, <3>a, <3>1, <3>2, Writes DEF CancelStale
  <2> QED
    BY <2>3, <2>4
<1>2. CASE Hold(h)
  <2>1. hd.pc = "hold" /\ UNCHANGED <<escrow, lock, faults>>
    BY <1>2 DEF Hold, At
  <2>2. hd.res \in Reservations /\ hd.tx \in Txs /\ hd.tx # None /\ PaidIn(hd.tx)
    BY <1>h, <2>1, NoneAssumption DEF Remembered
  <2>3. CASE ReserveTaken(hd.res, hd.tx)
    BY <1>2, <2>1, <2>3, IdleRemembers, Reads DEF Hold, Ends, IInv, TypeOK
  <2>4. CASE ~ReserveTaken(hd.res, hd.tx)
    <3>1. /\ res' = [res EXCEPT ![hd.res].status = "spot_held", ![hd.res].reserve = hd.tx]
          /\ IF hd.opt THEN To(h, "lock") ELSE Ends(h)
      BY <1>2, <2>4 DEF Hold
    <3>2. res' \in [Reservations -> ResRow]
      BY <2>2, <3>1 DEF IInv, TypeOK, ResRow, Status
    <3>3. \A r \in Reservations :
            /\ res'[r].confirm = res[r].confirm
            /\ r # hd.res => res'[r] = res[r]
            /\ r = hd.res => res'[r].status = "spot_held" /\ res'[r].reserve = hd.tx
      BY <2>2, <3>1 DEF IInv, TypeOK, ResRow
    <3>4. \A r \in Reservations : (DepositIn(r) \/ r = hd.res) => DepositIn(r)'
      <4> HIDE DEF hd
      <4> QED
        BY <2>1, <2>2, <3>3 DEF DepositIn, PaidIn
    <3>5. ASSUME NEW r \in Reservations PROVE RowPaid(r)'
      <4>1. CASE r = hd.res
        <5>1. DepositIn(r)' /\ res'[r].status = "spot_held" /\ res'[r].confirm = res[r].confirm
          BY <3>3, <3>4, <4>1
        <5>2. /\ res[r].confirm # None => PaidIn(res[r].confirm)
              /\ lock[r].yield => lock[r].state = "released"
          BY DEF IInv, RowsPaid, RowPaid
        <5>3. escrow' = escrow /\ lock' = lock
          BY <2>1
        <5> QED
          BY <5>1, <5>2, <5>3 DEF RowPaid, PaidIn
      <4>2. CASE r # hd.res
        BY <2>1, <3>3, <4>2, RowKept DEF IInv, RowsPaid, RowPaid
      <4> QED
        BY <4>1, <4>2
    <3>6. Unshared'
      <4>1. \A s \in Reservations : s # hd.res => res[s].reserve # hd.tx
        BY <2>4 DEF ReserveTaken
      <4> HIDE DEF hd
      <4> QED
        BY <2>2, <3>3, <4>1 DEF Unshared, IInv
    <3>7. RowsPaid' /\ Unshared' /\ \A r \in Reservations : DepositIn(r) => DepositIn(r)'
      BY <3>4, <3>5, <3>6 DEF RowsPaid
    <3>8. CASE hd.opt
      <4> DEFINE p == [hd EXCEPT !.pc = "lock"]
      <4>1. p \in Hand /\ p.pc = "lock" /\ p.res = hd.res
        BY <1>h DEF Hand
      <4>2. Remembered(p)
        BY <2>2, <4>1 DEF Remembered
      <4> QED
        BY <2>1, <3>1, <3>2, <3>7, <3>8, <4>1, <4>2, Writes DEF To
    <3>9. CASE ~hd.opt
      BY <2>1, <3>1, <3>2, <3>7, <3>9, IdleRemembers, Writes DEF Ends, Idle
    <3> QED
      BY <3>8, <3>9
  <2> QED
    BY <2>3, <2>4
<1>3. CASE OptOut(h)
  <2>1. /\ hd.pc = "optOut" /\ UNCHANGED <<escrow, lock, faults>> /\ Goes(h, Idle)
        /\ res' = [res EXCEPT ![hd.res].opt = FALSE]
    BY <1>3 DEF OptOut, At, Ends
  <2>2. res' \in [Reservations -> ResRow]
    BY <2>1 DEF IInv, TypeOK, ResRow
  <2>3. \A r \in Reservations : /\ res'[r].status = res[r].status
                                /\ res'[r].reserve = res[r].reserve
                                /\ res'[r].confirm = res[r].confirm
    BY <2>1 DEF IInv, TypeOK, ResRow
  <2> QED
    BY <2>1, <2>2, <2>3, HashesStay, IdleRemembers, Writes DEF Idle
<1>4. CASE OpenWrite(h)
  <2>1. /\ hd.pc = "open" /\ UNCHANGED <<escrow, lock, faults>> /\ Goes(h, Idle)
        /\ res' = [res EXCEPT ![hd.res].status = "awaiting_confirm", ![hd.res].window = "open"]
    BY <1>4 DEF OpenWrite, At, Ends
  <2>2. hd.res \in Reservations /\ DepositIn(hd.res)
    BY <1>h, <2>1 DEF Remembered
  <2>3. res' \in [Reservations -> ResRow]
    BY <2>1, <2>2 DEF IInv, TypeOK, ResRow, Status
  <2>4. \A r \in Reservations :
          /\ res'[r].reserve = res[r].reserve /\ res'[r].confirm = res[r].confirm
          /\ r = hd.res => res'[r].status = "awaiting_confirm"
          /\ r # hd.res => res'[r].status = res[r].status
    BY <2>1, <2>2 DEF IInv, TypeOK, ResRow
  <2>5. RowsPaid' /\ Unshared' /\ \A r \in Reservations : DepositIn(r) => DepositIn(r)'
    <3> HIDE DEF hd
    <3> QED
      BY <2>1, <2>2, <2>3, <2>4, HashesStay
  <2> QED
    BY <2>1, <2>3, <2>5, IdleRemembers, Writes DEF Idle
<1>5. CASE Confirm(h)
  <2>1. hd.pc = "confirm" /\ UNCHANGED <<escrow, lock, faults>> /\ Goes(h, Idle)
    BY <1>5 DEF Confirm, At, Ends
  <2>2. /\ hd.res \in Reservations /\ DepositIn(hd.res)
        /\ hd.tx \in Txs /\ hd.tx # None /\ PaidIn(hd.tx)
    BY <1>h, <2>1, NoneAssumption DEF Remembered
  <2>3. CASE ConfirmTaken(hd.res, hd.tx)
    BY <1>5, <2>1, <2>3, IdleRemembers, Reads DEF Confirm, IInv, TypeOK
  <2>4. CASE ~ConfirmTaken(hd.res, hd.tx)
    <3>1. res' = [res EXCEPT ![hd.res].status = "confirmed", ![hd.res].confirm = hd.tx]
      BY <1>5, <2>4 DEF Confirm
    <3>2. res' \in [Reservations -> ResRow]
      BY <2>2, <3>1 DEF IInv, TypeOK, ResRow, Status
    <3>3. \A r \in Reservations :
            /\ res'[r].reserve = res[r].reserve
            /\ r # hd.res => res'[r] = res[r]
            /\ r = hd.res => res'[r].confirm = hd.tx
      BY <2>2, <3>1 DEF IInv, TypeOK, ResRow
    <3>4. \A r \in Reservations : DepositIn(r) => DepositIn(r)'
      BY <2>1, <3>3 DEF DepositIn, PaidIn
    <3>5. ASSUME NEW r \in Reservations PROVE RowPaid(r)'
      <4>1. CASE r = hd.res
        <5>1. DepositIn(r)' /\ PaidIn(res'[r].confirm) /\ res'[r].confirm # None
          BY <2>2, <3>3, <3>4, <4>1
        <5>2. (lock[r].yield => lock[r].state = "released") /\ lock' = lock /\ escrow' = escrow
          BY <2>1 DEF IInv, RowsPaid, RowPaid
        <5> QED
          BY <5>1, <5>2 DEF RowPaid, PaidIn
      <4>2. CASE r # hd.res
        BY <2>1, <3>3, <4>2, RowKept DEF IInv, RowsPaid, RowPaid
      <4> QED
        BY <4>1, <4>2
    <3>6. Unshared'
      <4>1. \A s \in Reservations : s # hd.res => res[s].confirm # hd.tx
        BY <2>4 DEF ConfirmTaken
      <4> HIDE DEF hd
      <4> QED
        BY <2>2, <3>3, <4>1 DEF Unshared, IInv
    <3>7. RowsPaid'
      BY <3>5 DEF RowsPaid
    <3> QED
      BY <2>1, <3>2, <3>4, <3>6, <3>7, IdleRemembers, Writes DEF Idle
  <2> QED
    BY <2>3, <2>4
<1>6. CASE Free(h)
  <2>1. hd.res \in Reservations /\ res' = Released({hd.res}) /\ UNCHANGED <<escrow, lock, faults>>
    BY <1>6, <1>h DEF Free, At, Remembered
  <2> QED
    BY <1>s, <1>6, <2>1, IdleRemembers, Writes DEF Free, Ends, Idle
<1>7. CASE SweepWrite(h)
  <2>1. hd.pc = "sweep" /\ UNCHANGED <<escrow, lock, faults>>
    BY <1>7 DEF SweepWrite, At
  <2> PICK r \in hd.todo : /\ res' = Released({r})
                           /\ IF hd.todo = {r} THEN Ends(h)
                              ELSE Goes(h, [hd EXCEPT !.todo = @ \ {r}])
    BY <1>7 DEF SweepWrite
  <2>2. {r} \in SUBSET Reservations
    BY <1>h DEF Hand
  <2>3. CASE hd.todo = {r}
    BY <1>s, <2>1, <2>2, <2>3, IdleRemembers, Writes DEF Ends, Idle
  <2>4. CASE hd.todo # {r}
    <3> DEFINE p == [hd EXCEPT !.todo = @ \ {r}]
    <3>1. p \in Hand /\ p.pc = "sweep"
      BY <1>h, <2>1 DEF Hand
    <3>2. Remembered(p)
      BY <3>1 DEF Remembered
    <3> QED
      BY <1>s, <2>1, <2>2, <2>4, <3>1, <3>2, Writes
  <2> QED
    BY <2>3, <2>4
<1> QED
  BY <1>1, <1>2, <1>3, <1>4, <1>5, <1>6, <1>7

-----------------------------------------------------------------------------
(* The yield lock.                                                         *)

LEMMA UnlockedKeeps ==
  ASSUME IInv, NEW h \in Handlers, hand[h].pc \in {"unlock", "unlockWrite"}, NEW y \in BOOLEAN,
         y => lock[hand[h].res].state = "released", Unlocked(h, y),
         UNCHANGED <<res, escrow, lock>>, faults' \in Nat
  PROVE  IInv'
<1>1. CASE hand[h].same
  BY <1>1, IdleRemembers, Reads DEF Unlocked, Ends
<1>2. CASE ~hand[h].same
  <2> DEFINE p == [hand[h] EXCEPT !.pc = "debit", !.yield = y \/ hand[h].tx \in Overrides]
  <2>1. (y \/ hand[h].tx \in Overrides) \in BOOLEAN
    OBVIOUS
  <2>2. p \in Hand
    BY <2>1, StepHolds DEF Hand
  <2>3. Remembered(p)
    BY StepHolds DEF Hand, Remembered, Earned
  <2> QED
    BY <1>2, <2>2, <2>3, Reads DEF Unlocked
<1> QED
  BY <1>1, <1>2

LEMMA LockKeeps ==
  ASSUME IInv, NEW h \in Handlers,
         LockDeposit(h) \/ StampLock(h) \/ UnlockRead(h) \/ UnlockWrite(h)
  PROVE  IInv'
<1> DEFINE hd == hand[h]
<1>h. hd \in Hand /\ Remembered(hd)
  BY StepHolds
<1>1. CASE LockDeposit(h)
  <2>1. hd.pc = "lock" /\ hd.res \in Reservations /\ UNCHANGED <<res, escrow, faults>>
    BY <1>1, <1>h DEF LockDeposit, At, Remembered
  <2>2. CASE lock[hd.res].state = "none"
    <3>1. lock' = [lock EXCEPT ![hd.res].state = "locked"] /\ Goes(h, [hd EXCEPT !.pc = "stampLock"])
      BY <1>1, <2>2 DEF LockDeposit, To
    <3>2. lock' \in [Reservations -> LockRow]
      BY <3>1 DEF IInv, TypeOK, LockRow
    <3>3. \A r \in Reservations :
            /\ r # hd.res => lock'[r] = lock[r]
            /\ r = hd.res => lock'[r].yield = lock[r].yield
      BY <2>1, <3>1 DEF IInv, TypeOK, LockRow
    <3>4. ~lock[hd.res].yield
      BY <2>1, <2>2 DEF IInv, RowsPaid, RowPaid
    <3>5. Kept /\ Unshared' /\ CreditsBacked'
      BY <2>1, <2>2, <3>3, CreditsKept DEF IInv, Kept, DepositIn, PaidIn, Unshared
    <3>6. RowsPaid'
      BY <2>1, <3>3, <3>4 DEF IInv, RowsPaid, RowPaid, DepositIn, PaidIn
    <3>7. [hd EXCEPT !.pc = "stampLock"] \in Hand
      BY <1>h DEF Hand
    <3>8. hand'[h] = [hd EXCEPT !.pc = "stampLock"]
      BY <3>1 DEF Goes, IInv, TypeOK
    <3>9. hand'[h].pc = "stampLock" /\ hand'[h].res \in Reservations
      BY <1>h, <2>1, <3>8 DEF Hand
    <3>10. Remembered(hand[h])'
      BY <3>9 DEF Remembered
    <3> QED
      BY <2>1, <3>1, <3>2, <3>5, <3>6, <3>7, <3>10, Moves DEF IInv, TypeOK
  <2>3. CASE lock[hd.res].state # "none"
    <3> DEFINE p == [hd EXCEPT !.pc = "optOut"]
    <3>1. p \in Hand /\ p.pc = "optOut" /\ p.res = hd.res
      BY <1>h DEF Hand
    <3>2. Remembered(p)
      BY <2>1, <3>1 DEF Remembered
    <3> QED
      BY <1>1, <2>1, <2>3, <3>1, <3>2, Reads DEF LockDeposit, To, IInv, TypeOK
  <2> QED
    BY <2>2, <2>3
<1>2. CASE StampLock(h)
  BY <1>2, IdleRemembers, Reads DEF StampLock, Ends, IInv, TypeOK
<1>3. CASE UnlockRead(h)
  <2>1. hd.pc = "unlock" /\ hd.res \in Reservations /\ UNCHANGED <<res, escrow, lock, faults>>
    BY <1>3, <1>h DEF UnlockRead, At, Remembered
  <2>2. CASE lock[hd.res].state # "locked" /\ Unlocked(h, lock[hd.res].yield)
    <3>1. lock[hd.res].yield \in BOOLEAN
      BY <2>1 DEF IInv, TypeOK, LockRow
    <3>2. lock[hd.res].yield => lock[hd.res].state = "released"
      BY <2>1 DEF IInv, RowsPaid, RowPaid
    <3> QED
      BY <2>1, <2>2, <3>1, <3>2, UnlockedKeeps DEF IInv, TypeOK
  <2>3. CASE \E y \in BOOLEAN : Goes(h, [hd EXCEPT !.pc = "unlockWrite", !.yield = y])
    <3> PICK y \in BOOLEAN : Goes(h, [hd EXCEPT !.pc = "unlockWrite", !.yield = y])
      BY <2>3
    <3> DEFINE p == [hd EXCEPT !.pc = "unlockWrite", !.yield = y]
    <3>1. p \in Hand /\ p.pc = "unlockWrite" /\ p.res = hd.res /\ p.tx = hd.tx
      BY <1>h DEF Hand
    <3>2. Remembered(p)
      BY <1>h, <2>1, <3>1 DEF Remembered
    <3> QED
      BY <2>1, <3>1, <3>2, Reads DEF IInv, TypeOK
  <2> QED
    BY <1>3, <2>2, <2>3 DEF UnlockRead
<1>4. CASE UnlockWrite(h)
  <2>1. /\ hd.pc = "unlockWrite" /\ UNCHANGED <<res, escrow, faults>> /\ Unlocked(h, hd.yield)
        /\ lock' = [lock EXCEPT ![hd.res] = [state |-> "released", yield |-> hd.yield]]
    BY <1>4 DEF UnlockWrite, At
  <2>2. hd.res \in Reservations /\ hd.yield \in BOOLEAN /\ DepositIn(hd.res) /\ hd.tx \in Txs
    BY <1>h, <2>1 DEF Remembered, Hand
  <2>3. lock' \in [Reservations -> LockRow]
    BY <2>1, <2>2 DEF IInv, TypeOK, LockRow
  <2>4. \A r \in Reservations : /\ r # hd.res => lock'[r] = lock[r]
                                /\ r = hd.res => lock'[r].state = "released"
    BY <2>1, <2>2 DEF IInv, TypeOK
  <2>5. Kept /\ Unshared' /\ CreditsBacked'
    BY <2>1, <2>4, CreditsKept DEF IInv, Kept, DepositIn, PaidIn, Unshared
  <2>6. RowsPaid'
    <3> SUFFICES ASSUME NEW r \in Reservations PROVE RowPaid(r)'
      BY DEF RowsPaid
    <3>1. lock'[r].yield => lock'[r].state = "released"
      BY <2>4 DEF IInv, RowsPaid, RowPaid
    <3>2. RowPaid(r) /\ res' = res /\ escrow' = escrow
      BY <2>1 DEF IInv, RowsPaid
    <3> QED
      BY <3>1, <3>2 DEF RowPaid, DepositIn, PaidIn
  <2>7. CASE hd.same
    <3>1. Goes(h, Idle) /\ hand'[h] = Idle
      BY <2>1, <2>7 DEF Unlocked, Ends, Goes, IInv, TypeOK
    <3>2. Remembered(hand[h])'
      BY <3>1 DEF Remembered, Idle
    <3> QED
      BY <2>1, <2>3, <2>5, <2>6, <3>1, <3>2, IdleRemembers, Moves DEF IInv, TypeOK
  <2>8. CASE ~hd.same
    <3> DEFINE p == [hd EXCEPT !.pc = "debit", !.yield = hd.yield \/ hd.tx \in Overrides]
    <3>1. Goes(h, p) /\ hand'[h] = p
      BY <2>1, <2>8 DEF Unlocked, Goes, IInv, TypeOK
    <3>2. (hd.yield \/ hd.tx \in Overrides) \in BOOLEAN
      OBVIOUS
    <3>3. p \in Hand /\ p.pc = "debit" /\ p.tx = hd.tx /\ p.res = hd.res
      BY <1>h, <3>2 DEF Hand
    <3>4. /\ hand'[h].pc = "debit" /\ hand'[h].tx \in Txs
          /\ hand'[h].res \in Reservations /\ lock'[hand'[h].res].state = "released"
      BY <2>2, <2>4, <3>1, <3>3
    <3>5. DepositIn(hand[h].res)'
      BY <2>1, <2>2, <3>1, <3>3 DEF DepositIn, PaidIn
    <3>6. Remembered(hand[h])'
      BY <3>4, <3>5 DEF Remembered, Earned
    <3> QED
      BY <2>1, <2>3, <2>5, <2>6, <3>1, <3>3, <3>6, Moves DEF IInv, TypeOK
  <2> QED
    BY <2>7, <2>8
<1> QED
  BY <1>1, <1>2, <1>3, <1>4

-----------------------------------------------------------------------------
(* New reservations, time and failures.                                    *)

LEMMA RowsMoveKeep ==
  ASSUME IInv, NEW r \in Reservations,
         CreateNodeReservation(r) \/ GrowsOld(r) \/ WindowCloses(r)
  PROVE  IInv'
<1>1. UNCHANGED <<escrow, lock, hand, faults>>
  BY DEF CreateNodeReservation, GrowsOld, WindowCloses
<1>2. res' \in [Reservations -> ResRow]
  <2>1. CASE CreateNodeReservation(r)
    <3> PICK opt \in BOOLEAN :
          res' = [res EXCEPT ![r].status = "pending_funding", ![r].opt = opt]
      BY <2>1 DEF CreateNodeReservation
    <3> DEFINE row == [res[r] EXCEPT !.status = "pending_funding", !.opt = opt]
    <3>1. res \in [Reservations -> ResRow]
      BY DEF IInv, TypeOK
    <3>2. row \in ResRow
      BY <3>1 DEF ResRow, Status
    <3>3. res' = [res EXCEPT ![r] = row]
      BY <3>1
    <3> HIDE DEF row
    <3> QED
      BY <3>1, <3>2, <3>3
  <2>2. CASE GrowsOld(r)
    BY <2>2 DEF GrowsOld, IInv, TypeOK, ResRow
  <2>3. CASE WindowCloses(r)
    BY <2>3 DEF WindowCloses, IInv, TypeOK, ResRow
  <2> QED
    BY <2>1, <2>2, <2>3
<1>3. \A n \in Reservations :
        /\ res'[n].reserve = res[n].reserve /\ res'[n].confirm = res[n].confirm
        /\ res'[n].status \in {res[n].status, "pending_funding"}
  BY DEF CreateNodeReservation, GrowsOld, WindowCloses, IInv, TypeOK, ResRow
<1>4. RowsPaid' /\ Unshared' /\ \A n \in Reservations : DepositIn(n) => DepositIn(n)'
  BY <1>1, <1>2, <1>3, HashesStay
<1>5. Kept /\ CreditsBacked'
  BY <1>1, <1>4, CreditsKept DEF Kept
<1>6. HandsRemember'
  BY <1>1, <1>5, MemoryKept DEF IInv, HandsRemember
<1> QED
  BY <1>1, <1>2, <1>4, <1>5, <1>6 DEF IInv, TypeOK

LEMMA FaultsKeep ==
  ASSUME IInv, (\E h \in Handlers : HandFault(h)) \/ Crash
  PROVE  IInv'
<1>1. faults' \in Nat /\ UNCHANGED <<res, escrow, lock>>
  <2>1. faults \in Nat
    BY DEF IInv, TypeOK
  <2>2. faults' = faults + 1 /\ UNCHANGED <<res, escrow, lock>>
    BY DEF HandFault, Crash
  <2> QED
    BY <2>1, <2>2
<1>2. ASSUME NEW h \in Handlers, HandFault(h) PROVE IInv'
  <2>1. CASE hand[h].pc \in {"lock", "stampLock"}
    <3> DEFINE p == [hand[h] EXCEPT !.pc = "optOut"]
    <3>1. p \in Hand /\ p.pc = "optOut" /\ p.res = hand[h].res
      BY StepHolds DEF Hand
    <3>2. Remembered(p)
      BY <2>1, <3>1, StepHolds DEF Remembered
    <3> QED
      BY <1>1, <1>2, <2>1, <3>1, <3>2, Reads DEF HandFault, To
  <2>2. CASE hand[h].pc \in {"unlock", "unlockWrite"}
    BY <1>1, <1>2, <2>2, UnlockedKeeps DEF HandFault
  <2>3. CASE hand[h].pc \notin {"lock", "stampLock", "unlock", "unlockWrite"}
    BY <1>1, <1>2, <2>3, IdleRemembers, Reads DEF HandFault, Ends
  <2> QED
    BY <2>1, <2>2, <2>3
<1>3. CASE Crash
  <2>1. hand' = [h \in Handlers |-> Idle]
    BY <1>3 DEF Crash
  <2>2. TypeOK' /\ HandsRemember'
    BY <1>1, <2>1, IdleRemembers DEF IInv, TypeOK, HandsRemember, Remembered, Idle
  <2>3. RowsPaid' /\ Unshared' /\ \A r \in Reservations : DepositIn(r) => DepositIn(r)'
    BY <1>1 DEF IInv, RowsPaid, RowPaid, DepositIn, PaidIn, Unshared
  <2>4. CreditsBacked'
    BY <1>1, <2>3, CreditsKept
  <2> QED
    BY <2>2, <2>3, <2>4 DEF IInv
<1> QED
  BY <1>2, <1>3

-----------------------------------------------------------------------------
(* The theorems.                                                           *)

LEMMA InitIInv == Init => IInv
<1> SUFFICES ASSUME Init PROVE IInv
  OBVIOUS
<1>1. TypeOK
  BY DEF Init, TypeOK, ResRow, Status, LockRow, Hand, Idle
<1>2. RowsPaid
  BY DEF Init, RowsPaid, RowPaid
<1>3. HandsRemember
  BY IdleRemembers DEF Init, HandsRemember
<1>4. Unshared /\ CreditsBacked
  BY DEF Init, Unshared, CreditsBacked
<1> QED
  BY <1>1, <1>2, <1>3, <1>4 DEF IInv

LEMMA NextKeeps == IInv /\ [Next]_vars => IInv'
<1> SUFFICES ASSUME IInv, [Next]_vars PROVE IInv'
  OBVIOUS
<1>1. CASE \E r \in Reservations : CreateNodeReservation(r) \/ GrowsOld(r) \/ WindowCloses(r)
  BY <1>1, RowsMoveKeep
<1>2. ASSUME NEW h \in Handlers, Request(h) PROVE IInv'
  BY <1>2, RequestKeeps
<1>3. ASSUME NEW h \in Handlers, HandStep(h) PROVE IInv'
  BY <1>3, LedgerKeeps, InsertsKeep, StatusWritesKeep, LockKeeps DEF HandStep
<1>4. CASE (\E h \in Handlers : HandFault(h)) \/ Crash
  BY <1>4, FaultsKeep
<1>5. CASE UNCHANGED vars
  BY <1>5 DEF vars, IInv, TypeOK, RowsPaid, RowPaid, Unshared, HandsRemember, Remembered,
     CreditsBacked, DepositIn, PaidIn, Earned, ReserveTaken
<1> QED
  BY <1>1, <1>2, <1>3, <1>4, <1>5 DEF Next

LEMMA Invariance == Spec => []IInv
BY InitIInv, NextKeeps, PTL DEF Spec

\* Every table and every request stays in its type, whatever the interleaving:
\* a ledger entry always carries the hash it is booked under.
THEOREM PresaleTypeCorrect == Spec => []TypeOK
<1>1. IInv => TypeOK
  BY DEF IInv
<1> QED
  BY <1>1, Invariance, PTL

\* No unit is held without a debit in the ledger under the hash its reservation
\* names for the deposit, none is confirmed without one under the hash it names for
\* the balance, and no debit is the deposit, or the balance, of two reservations:
\* whatever hashes are quoted again.
THEOREM HoldingIsPaid == Spec => []HeldIsPaid
<1>1. ASSUME IInv PROVE HeldIsPaid
  <2> SUFFICES ASSUME NEW r \in Reservations
               PROVE  /\ RowPaid(r) /\ (res[r].reserve # None => ~ReserveTaken(r, res[r].reserve))
                      /\ res[r].confirm # None => ~ConfirmTaken(r, res[r].confirm)
    BY DEF HeldIsPaid, RowPaid, DepositIn
  <2> QED
    BY <1>1 DEF IInv, RowsPaid, Unshared, ReserveTaken, ConfirmTaken
<1> QED
  BY <1>1, Invariance, PTL

\* No refund without a deposit that is in and that no other reservation names,
\* and no yield without a debit under its hash and, unless the client states the
\* yield, a released lock.
THEOREM CreditsAreBacked == Spec => []CreditsBacked
<1>1. IInv => CreditsBacked
  BY DEF IInv
<1> QED
  BY <1>1, Invariance, PTL

=============================================================================
