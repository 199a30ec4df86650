----------------------------- MODULE NodePresale -----------------------------
(***************************************************************************)
(* The hardware presale (services/compute, node-reservations.ts): a user   *)
(* reserves a unit, pays a deposit, and when the operator opens the        *)
(* confirm window pays the balance or gives the unit up.  Payments are     *)
(* booked in an escrow ledger (escrow.ts) keyed by transaction hash; the   *)
(* deposit may earn yield in a lock (qearn-lock.ts).  A hash that stands   *)
(* in the ledger already is taken for booked, whatever it was booked for.  *)
(*                                                                         *)
(* No transaction is opened: each SQL statement is a step, each request a  *)
(* process that carries the row it read at the start to its last write.    *)
(* Amounts and rates are left out; of a yield only whether it is positive. *)
(***************************************************************************)
EXTENDS Integers, FiniteSets

CONSTANTS
  Reservations,  \* the reservations users may make
  Txs,           \* the transaction hashes they may quote, each for any payment
  Overrides,     \* balances confirmed with a yield the client states itself
  Handlers,      \* requests in flight
  Millis,        \* values of Date.now() in the key of a refund (a bound)
  None,          \* the SQL NULL
  MaxFaults      \* crashes and failed statements (a bound)

ASSUME OverridesAssumption == Overrides \subseteq Txs
ASSUME NoneAssumption == None \notin Txs \cup Reservations \cup Millis
ASSUME FaultsAssumption == MaxFaults \in Nat

VARIABLES
  res,     \* compute_node_reservations
  escrow,  \* compute_node_escrow
  lock,    \* compute_node_yield_locks, unique by reservation
  hand,    \* the requests
  faults

vars == <<res, escrow, lock, hand, faults>>

-----------------------------------------------------------------------------
Status == {"none", "pending_funding", "spot_held", "awaiting_confirm",
           "confirmed", "released"}

ResRow  == [status: Status,
            reserve: Txs \cup {None}, confirm: Txs \cup {None},  \* the two tx hashes
            opt: BOOLEAN,                                        \* yieldOptIn
            old: BOOLEAN,                                        \* created over 24 h ago
            window: {"none", "open", "closed"}]
Entry   == [purpose: {"deposit", "balance", "yield_credit"}, key: Txs, res: Reservations]
             \cup [purpose: {"refund"}, key: Millis, res: Reservations]
LockRow == [state: {"none", "locked", "released"}, yield: BOOLEAN]
Hand    == [pc: {"idle", "cancelStale", "debit", "debitInsert", "hold", "lock", "stampLock",
                 "optOut", "open", "unlock", "unlockWrite", "credit", "creditInsert",
                 "confirm", "refund", "refundInsert", "free", "sweep"},
            res: Reservations \cup {None}, tx: Txs \cup {None},
            purpose: {"deposit", "balance"}, opt: BOOLEAN, same: BOOLEAN, yield: BOOLEAN,
            key: Millis \cup {None}, todo: SUBSET Reservations]

TypeOK ==
  /\ res \in [Reservations -> ResRow]
  /\ escrow \subseteq Entry
  /\ lock \in [Reservations -> LockRow]
  /\ hand \in [Handlers -> Hand]
  /\ faults \in Nat

Idle == [pc |-> "idle", res |-> None, tx |-> None, purpose |-> "deposit", opt |-> FALSE,
         same |-> FALSE, yield |-> FALSE, key |-> None, todo |-> {}]

Init ==
  /\ res = [r \in Reservations |-> [status |-> "none", reserve |-> None, confirm |-> None,
                                    opt |-> FALSE, old |-> FALSE, window |-> "none"]]
  /\ escrow = {}
  /\ lock = [r \in Reservations |-> [state |-> "none", yield |-> FALSE]]
  /\ hand = [h \in Handlers |-> Idle]
  /\ faults = 0

At(h, pc) == hand[h].pc = pc
Goes(h, rec) == hand' = [hand EXCEPT ![h] = rec]
To(h, pc) == Goes(h, [hand[h] EXCEPT !.pc = pc])
Ends(h) == Goes(h, Idle)

-----------------------------------------------------------------------------
(* The escrow ledger: look the hash up, insert if absent; a racing insert  *)
(* of the same hash violates the unique index and the request fails.       *)

Debit(r, purpose, tx) == [purpose |-> purpose, key |-> tx, res |-> r]
YieldCredit(r, tx)    == [purpose |-> "yield_credit", key |-> tx, res |-> r]
RefundCredit(r, k)    == [purpose |-> "refund", key |-> k, res |-> r]

\* The hash of an entry stands in the ledger: debits share one space of hashes,
\* whatever reservation and purpose they are for; the hash of a yield credit is
\* made of the hash of its balance only, that of a refund names the reservation.
Stands(e) ==
  \E f \in escrow :
    /\ f.key = e.key
    /\ f.purpose = e.purpose \/ {f.purpose, e.purpose} = {"deposit", "balance"}
    /\ e.purpose = "refund" => f.res = e.res

LookUp(h, e, insert, next) ==
  /\ To(h, IF Stands(e) THEN next ELSE insert)
  /\ UNCHANGED <<res, escrow, lock, faults>>

Insert(h, e, next) ==
  /\ IF Stands(e) THEN Ends(h) /\ UNCHANGED escrow
     ELSE To(h, next) /\ escrow' = escrow \cup {e}
  /\ UNCHANGED <<res, lock, faults>>

DebitOf(hd) == Debit(hd.res, hd.purpose, hd.tx)
CreditOf(hd) == YieldCredit(hd.res, hd.tx)

\* What follows the debit of a deposit, and of a balance with and without yield.
AfterDebit(h) ==
  IF hand[h].purpose = "deposit" THEN "hold"
  ELSE IF hand[h].yield THEN "credit" ELSE "confirm"

\* Mutant of DebitLookUp: an unknown hash is booked after the status is written.
DebitLookUpLate(h) ==
  At(h, "debit") /\ LookUp(h, DebitOf(hand[h]), AfterDebit(h), AfterDebit(h))

DebitLookUp(h) ==
  At(h, "debit") /\ LookUp(h, DebitOf(hand[h]), "debitInsert", AfterDebit(h))

DebitInsert(h) ==
  At(h, "debitInsert") /\ Insert(h, DebitOf(hand[h]), AfterDebit(h))

CreditLookUp(h) ==
  At(h, "credit") /\ LookUp(h, CreditOf(hand[h]), "creditInsert", "confirm")

CreditInsert(h) ==
  At(h, "creditInsert") /\ Insert(h, CreditOf(hand[h]), "confirm")

\* A rate or an amount that is not positive, a yield above the balance, or a
\* hash that stands in the ledger for an entry of the other direction.
Refuse(h) ==
  /\ hand[h].pc \in {"debit", "credit", "refund"}
  /\ Ends(h)
  /\ UNCHANGED <<res, escrow, lock, faults>>

-----------------------------------------------------------------------------
(* Create and fund.                                                        *)

CreateNodeReservation(r) ==
  /\ res[r].status = "none"
  /\ \E opt \in BOOLEAN :
       res' = [res EXCEPT ![r].status = "pending_funding", ![r].opt = opt]
  /\ UNCHANGED <<escrow, lock, hand, faults>>

StalePending == {r \in Reservations : res[r].status = "pending_funding" /\ res[r].old}

\* The row is read once; autoCancelStalePending may release it next, but the
\* status checked afterwards is the one that was read.
FundRead(h) ==
  /\ At(h, "idle")
  /\ \E r \in Reservations, tx \in Txs :
       /\ res[r].status = "pending_funding" /\ res[r].reserve # tx
       /\ Goes(h, [Idle EXCEPT !.pc = IF r \in StalePending THEN "cancelStale" ELSE "debit",
                               !.res = r, !.tx = tx, !.opt = res[r].opt,
                               !.todo = {r} \cap StalePending])
  /\ UNCHANGED <<res, escrow, lock, faults>>

\* The read routes cancel the stale rows they come across.
ListRead(h) ==
  /\ At(h, "idle")
  /\ \E S \in SUBSET StalePending \ {{}} : Goes(h, [Idle EXCEPT !.pc = "cancelStale", !.todo = S])
  /\ UNCHANGED <<res, escrow, lock, faults>>

Released(S) == [r \in Reservations |->
                  IF r \in S THEN [res[r] EXCEPT !.status = "released"] ELSE res[r]]

CancelStale(h) ==
  /\ At(h, "cancelStale")
  /\ res' = Released(hand[h].todo)
  /\ IF hand[h].tx = None THEN Ends(h)
     ELSE Goes(h, [hand[h] EXCEPT !.pc = "debit", !.todo = {}])
  /\ UNCHANGED <<escrow, lock, faults>>

\* Another reservation names the hash already, for its deposit or its balance.
ReserveTaken(r, tx) == \E s \in Reservations \ {r} : res[s].reserve = tx
ConfirmTaken(r, tx) == \E s \in Reservations \ {r} : res[s].confirm = tx

\* The hash of a deposit is unique among the reservations: a second reservation
\* that names it violates the index, and the request fails.
Hold(h) ==
  /\ At(h, "hold")
  /\ LET hd == hand[h]
     IN  IF ReserveTaken(hd.res, hd.tx) THEN Ends(h) /\ UNCHANGED res
         ELSE /\ res' = [res EXCEPT ![hd.res].status = "spot_held", ![hd.res].reserve = hd.tx]
              /\ IF hd.opt THEN To(h, "lock") ELSE Ends(h)
  /\ UNCHANGED <<escrow, lock, faults>>

\* A second lock of the reservation violates the unique index; any error opts
\* the reservation out of the yield.
LockDeposit(h) ==
  /\ At(h, "lock")
  /\ IF lock[hand[h].res].state = "none"
     THEN /\ lock' = [lock EXCEPT ![hand[h].res].state = "locked"]
          /\ To(h, "stampLock")
     ELSE To(h, "optOut") /\ UNCHANGED lock
  /\ UNCHANGED <<res, escrow, faults>>

StampLock(h) == At(h, "stampLock") /\ Ends(h) /\ UNCHANGED <<res, escrow, lock, faults>>

OptOut(h) ==
  /\ At(h, "optOut")
  /\ res' = [res EXCEPT ![hand[h].res].opt = FALSE]
  /\ Ends(h)
  /\ UNCHANGED <<escrow, lock, faults>>

-----------------------------------------------------------------------------
(* Open the window and confirm.                                            *)

OpenRead(h) ==
  /\ At(h, "idle")
  /\ \E r \in Reservations : /\ res[r].status = "spot_held"
                             /\ Goes(h, [Idle EXCEPT !.pc = "open", !.res = r])
  /\ UNCHANGED <<res, escrow, lock, faults>>

OpenWrite(h) ==
  /\ At(h, "open")
  /\ res' = [res EXCEPT ![hand[h].res].status = "awaiting_confirm",
                        ![hand[h].res].window = "open"]
  /\ Ends(h)
  /\ UNCHANGED <<escrow, lock, faults>>

\* The row is read once; `same` says that it already names this transaction.
ConfirmRead(h) ==
  /\ At(h, "idle")
  /\ \E r \in Reservations, tx \in Txs :
       /\ res[r].status = "awaiting_confirm" /\ res[r].window # "closed"
       /\ res[r].opt \/ res[r].confirm # tx
       /\ Goes(h, [Idle EXCEPT !.pc = IF res[r].opt THEN "unlock" ELSE "debit",
                               !.res = r, !.tx = tx, !.purpose = "balance",
                               !.same = res[r].confirm = tx, !.yield = tx \in Overrides])
  /\ UNCHANGED <<res, escrow, lock, faults>>

\* With the yield in hand, or the client's own: return if this transaction has
\* confirmed the reservation before, else debit.
Unlocked(h, yield) ==
  IF hand[h].same THEN Ends(h)
  ELSE Goes(h, [hand[h] EXCEPT !.pc = "debit",
                               !.yield = yield \/ hand[h].tx \in Overrides])

\* releaseLock: the yield captured before, or the one accrued by now.
UnlockRead(h) ==
  /\ At(h, "unlock")
  /\ LET l == lock[hand[h].res]
     IN  \/ l.state # "locked" /\ Unlocked(h, l.yield)
         \/ /\ l.state = "locked"
            /\ \E y \in BOOLEAN : Goes(h, [hand[h] EXCEPT !.pc = "unlockWrite", !.yield = y])
  /\ UNCHANGED <<res, escrow, lock, faults>>

UnlockWrite(h) ==
  /\ At(h, "unlockWrite")
  /\ lock' = [lock EXCEPT ![hand[h].res] = [state |-> "released", yield |-> hand[h].yield]]
  /\ Unlocked(h, hand[h].yield)
  /\ UNCHANGED <<res, escrow, faults>>

\* The hash of a balance is unique among the reservations as well.
Confirm(h) ==
  /\ At(h, "confirm")
  /\ Ends(h)
  /\ LET hd == hand[h]
     IN  IF ConfirmTaken(hd.res, hd.tx) THEN UNCHANGED res
         ELSE res' = [res EXCEPT ![hd.res].status = "confirmed", ![hd.res].confirm = hd.tx]
  /\ UNCHANGED <<escrow, lock, faults>>

-----------------------------------------------------------------------------
(* Release and auto-release.                                               *)

\* Mutant of ReleaseRead: an unfunded reservation is refunded like a held one.
ReleaseReadRefundsAll(h) ==
  /\ At(h, "idle")
  /\ \E r \in Reservations :
       /\ res[r].status \in {"pending_funding", "spot_held", "awaiting_confirm"}
       /\ Goes(h, [Idle EXCEPT !.pc = "refund", !.res = r])
  /\ UNCHANGED <<res, escrow, lock, faults>>

ReleaseRead(h) ==
  /\ At(h, "idle")
  /\ \E r \in Reservations :
       /\ res[r].status \in {"pending_funding", "spot_held", "awaiting_confirm"}
       /\ Goes(h, [Idle EXCEPT !.pc = IF res[r].status = "pending_funding" THEN "free" ELSE "refund",
                               !.res = r])
  /\ UNCHANGED <<res, escrow, lock, faults>>

\* Mutant of RefundLookUp: the ledger entry is made without its key.
RefundLookUpUnkeyed(h) ==
  At(h, "refund") /\ To(h, "refundInsert") /\ UNCHANGED <<res, escrow, lock, faults>>

\* The key of a refund ends in Date.now(): each attempt has its own.
RefundLookUp(h) ==
  /\ At(h, "refund")
  /\ \E k \in Millis :
       Goes(h, [hand[h] EXCEPT !.key = k,
         !.pc = IF Stands(RefundCredit(hand[h].res, k)) THEN "free" ELSE "refundInsert"])
  /\ UNCHANGED <<res, escrow, lock, faults>>

RefundInsert(h) ==
  At(h, "refundInsert") /\ Insert(h, RefundCredit(hand[h].res, hand[h].key), "free")

Free(h) ==
  /\ At(h, "free")
  /\ res' = Released({hand[h].res})
  /\ Ends(h)
  /\ UNCHANGED <<escrow, lock, faults>>

\* autoReleaseExpiredConfirmWindows: list the closed windows, then release each.
SweepRead(h) ==
  /\ At(h, "idle")
  /\ LET expired == {r \in Reservations : /\ res[r].status = "awaiting_confirm"
                                          /\ res[r].window = "closed"}
     IN  expired # {} /\ Goes(h, [Idle EXCEPT !.pc = "sweep", !.todo = expired])
  /\ UNCHANGED <<res, escrow, lock, faults>>

SweepWrite(h) ==
  /\ At(h, "sweep")
  /\ \E r \in hand[h].todo :
       /\ res' = Released({r})
       /\ IF hand[h].todo = {r} THEN Ends(h)
          ELSE Goes(h, [hand[h] EXCEPT !.todo = @ \ {r}])
  /\ UNCHANGED <<escrow, lock, faults>>

-----------------------------------------------------------------------------
(* Time and failures.                                                      *)

GrowsOld(r) ==
  /\ res[r].status = "pending_funding" /\ ~res[r].old
  /\ res' = [res EXCEPT ![r].old = TRUE]
  /\ UNCHANGED <<escrow, lock, hand, faults>>

WindowCloses(r) ==
  /\ res[r].window = "open"
  /\ res' = [res EXCEPT ![r].window = "closed"]
  /\ UNCHANGED <<escrow, lock, hand, faults>>

\* A statement throws.  Errors of the lock are caught: funding goes on without
\* yield, confirming with none; any other error ends the request.
HandFault(h) ==
  /\ ~At(h, "idle") /\ faults < MaxFaults
  /\ faults' = faults + 1
  /\ IF hand[h].pc \in {"lock", "stampLock"} THEN To(h, "optOut")
     ELSE IF hand[h].pc \in {"unlock", "unlockWrite"} THEN Unlocked(h, FALSE)
     ELSE Ends(h)
  /\ UNCHANGED <<res, escrow, lock>>

Crash ==
  /\ faults < MaxFaults
  /\ faults' = faults + 1
  /\ hand' = [h \in Handlers |-> Idle]
  /\ UNCHANGED <<res, escrow, lock>>

Request(h) ==
  \/ FundRead(h) \/ ListRead(h) \/ OpenRead(h) \/ ConfirmRead(h) \/ ReleaseRead(h)
  \/ SweepRead(h)

HandStep(h) ==
  \/ DebitLookUp(h) \/ DebitInsert(h) \/ CreditLookUp(h) \/ CreditInsert(h) \/ Refuse(h)
  \/ CancelStale(h) \/ Hold(h) \/ LockDeposit(h) \/ StampLock(h) \/ OptOut(h)
  \/ OpenWrite(h) \/ UnlockRead(h) \/ UnlockWrite(h) \/ Confirm(h)
  \/ RefundLookUp(h) \/ RefundInsert(h) \/ Free(h) \/ SweepWrite(h)

Next ==
  \/ \E r \in Reservations : CreateNodeReservation(r) \/ GrowsOld(r) \/ WindowCloses(r)
  \/ \E h \in Handlers : Request(h) \/ HandStep(h) \/ HandFault(h)
  \/ Crash

Spec == Init /\ [][Next]_vars

-----------------------------------------------------------------------------
(* What the presale guarantees.                                            *)

Booked(r, purpose) == \E e \in escrow : e.res = r /\ e.purpose = purpose

\* A payment is in: a debit stands in the ledger under its hash.
PaidIn(tx) == \E e \in escrow : e.key = tx /\ e.purpose \in {"deposit", "balance"}

\* A unit is held only for a deposit that is in and confirmed only for a balance
\* that is in as well, each under the hash the reservation names.  The ledger does
\* not compare what a hash was booked for, so that a debit may count for another
\* reservation or for both payments; still it is the deposit of one reservation
\* at most and the balance of one at most.  So also when funding and confirming
\* race with releases, sweeps, retries under other hashes and crashes between
\* the booking and the status.
HeldIsPaid ==
  \A r \in Reservations :
    /\ res[r].status \in {"spot_held", "awaiting_confirm", "confirmed"}
         => res[r].reserve # None /\ PaidIn(res[r].reserve)
    /\ res[r].status = "confirmed" => res[r].confirm # None /\ PaidIn(res[r].confirm)
    /\ res[r].reserve # None => ~ReserveTaken(r, res[r].reserve)
    /\ res[r].confirm # None => ~ConfirmTaken(r, res[r].confirm)

\* Escrow pays out only against what it took in: a refund is booked only for a
\* reservation that names a deposit which is in and which no other reservation
\* names as its deposit; a yield credit only after a debit under its hash and,
\* unless the client states the yield itself, once the deposit's lock is released.
CreditsBacked ==
  \A e \in escrow :
    /\ e.purpose = "refund" =>
         LET tx == res[e.res].reserve
         IN  tx # None /\ PaidIn(tx) /\ ~ReserveTaken(e.res, tx)
    /\ e.purpose = "yield_credit" =>
         PaidIn(e.key) /\ (e.key \in Overrides \/ lock[e.res].state = "released")

\* node-reservations.ts says that the state machine is enforced server-side:
\* no request makes a transition that the lifecycle does not have.
Lifecycle == {<<"none", "pending_funding">>, <<"pending_funding", "spot_held">>,
              <<"spot_held", "awaiting_confirm">>, <<"awaiting_confirm", "confirmed">>,
              <<"awaiting_confirm", "released">>, <<"spot_held", "released">>,
              <<"pending_funding", "released">>}
TransitionsAllowed ==
  [][\A r \in Reservations :
       res'[r].status # res[r].status => <<res[r].status, res'[r].status>> \in Lifecycle]_vars

\* The presale proposal says that a window which closes with no action releases
\* the reservation with a penalty of 5% only: the rest of the deposit goes back.
ReleasedIsRefunded ==
  \A r \in Reservations :
    (res[r].status = "released" /\ Booked(r, "deposit")
       /\ \A h \in Handlers : hand[h] = Idle) => Booked(r, "refund")

=============================================================================
