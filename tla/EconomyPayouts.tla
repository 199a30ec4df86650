--------------------------- MODULE EconomyPayouts ---------------------------
(***************************************************************************)
(* Payouts of the economy service: contributors hold shares of what an ANN *)
(* earns (contributors.ts); a payout run splits the revenue of a period    *)
(* over them (splits.ts); settling the run looks up the wallet of every    *)
(* recipient at the identity service and asks the qubic service for one    *)
(* transfer each (payouts.ts).                                             *)
(*                                                                         *)
(* Each request is a process; a step ends where the code awaits a SQL      *)
(* statement or an HTTP answer.  The two transactions are one step each.   *)
(* Shares and fees are basis points of 10000, amounts whole QUBIC.         *)
(***************************************************************************)
EXTENDS Integers, Sequences, FiniteSets, Functions

CONSTANTS
  Users,       \* contributors of the ANN
  Wallets,     \* Qubic addresses
  Owner,       \* [Wallets -> Users]
  Periods,     \* (period_start, period_end) of the ANN
  Runs,        \* ids of payout runs
  Handlers,    \* requests in flight
  Shares,      \* basis points a share may be set to
  Lists,       \* share lists a replacement may ask for: functions from some Users
  Revenues,    \* revenue reported for a period
  Fees,        \* platform fee in basis points
  None,        \* the SQL NULL
  MaxCalls,    \* assemblies and settlements asked for (a bound)
  MaxFaults    \* refused or lost transfers, failed statements, crashes (a bound)

ASSUME OwnerAssumption == Owner \in [Wallets -> Users]
ASSUME SharesAssumption ==
  /\ IsFiniteSet(Users)
  /\ \A b \in Shares : b \in Nat /\ b <= 10000
  /\ \A l \in Lists : /\ DOMAIN l \subseteq Users
                      /\ \A u \in DOMAIN l : l[u] \in Nat /\ l[u] <= 10000
ASSUME MoneyAssumption ==
  /\ \A m \in Revenues : m \in Nat
  /\ \A f \in Fees : f \in Nat /\ f <= 10000
ASSUME NoneAssumption == None \notin Users \cup Wallets \cup Periods \cup Runs
ASSUME BoundsAssumption == MaxCalls \in Nat /\ MaxFaults \in Nat

VARIABLES
  share,    \* economy_contributor_shares of the ANN, unique by user
  run,      \* economy_payout_runs
  recip,    \* economy_payout_recipients, by run and user
  sent,     \* the transfers the Qubic network has made for a recipient
  hand,     \* the requests
  faults,
  calls,    \* assemblies and settlements asked for
  past      \* history: assemblies and settlements that overlapped, runs with a
            \* transfer that was made and not recorded, settlements cut short,
            \* and recipients given a new address after they were paid

used == <<faults, calls>>
vars == <<share, run, recip, sent, hand, used, past>>

-----------------------------------------------------------------------------
Share  == [bps: Nat, active: BOOLEAN]
Run    == [status: {"none", "pending", "settling", "settled", "partial"},
           period: Periods \cup {None}, revenue: Nat, fee: Nat]
Recip  == [status: {"pending", "confirmed", "failed", "skipped"},
           wallet: Wallets \cup {None}, amount: Nat]
ASSUME RowsAssumption == None \notin Recip
Hand   == [pc: {"idle", "shares", "insert", "mark", "list", "settle", "confirm", "fail",
                "finish"},
           period: Periods \cup {None}, revenue: Nat, feeBps: Nat,
           run: Runs \cup {None}, seen: {"pending", "partial", "settled"},
           rows: [Users -> Recip \cup {None}],
           lookup: SUBSET Users, write: SUBSET Users, due: SUBSET Users,
           cur: Users \cup {None}]
Past   == [doubled: SUBSET Periods, raced: SUBSET Runs, lost: SUBSET Runs,
           dropped: SUBSET Runs, moved: SUBSET (Runs \X Users)]

TypeOK ==
  /\ share \in [Users -> Share \cup {None}]
  /\ run \in [Runs -> Run]
  /\ recip \in [Runs -> [Users -> Recip \cup {None}]]
  /\ sent \in [Runs -> [Users -> Seq(Wallets)]]
  /\ hand \in [Handlers -> Hand]
  /\ faults \in Nat
  /\ calls \in Nat
  /\ past \in Past

Nobody == [u \in Users |-> None]
Idle == [pc |-> "idle", period |-> None, revenue |-> 0, feeBps |-> 0, run |-> None,
         seen |-> "pending", rows |-> Nobody, lookup |-> {}, write |-> {}, due |-> {},
         cur |-> None]

Init ==
  /\ share = Nobody
  /\ run = [r \in Runs |-> [status |-> "none", period |-> None, revenue |-> 0, fee |-> 0]]
  /\ recip = [r \in Runs |-> Nobody]
  /\ sent = [r \in Runs |-> [u \in Users |-> <<>>]]
  /\ hand = [h \in Handlers |-> Idle]
  /\ faults = 0
  /\ calls = 0
  /\ past = [doubled |-> {}, raced |-> {}, lost |-> {}, dropped |-> {}, moved |-> {}]

At(h, pc) == hand[h].pc = pc
Goes(h, rec) == hand' = [hand EXCEPT ![h] = rec]
To(h, pc) == Goes(h, [hand[h] EXCEPT !.pc = pc])
Ends(h) == Goes(h, Idle)

-----------------------------------------------------------------------------
(* Contributor shares.                                                     *)

\* The row is looked up and updated, or inserted: of two racing inserts the
\* unique index refuses one.  The sum of the shares is not looked at.
UpsertShare(u, bps) ==
  /\ share' = [share EXCEPT ![u] = [bps |-> bps, active |-> TRUE]]
  /\ UNCHANGED <<run, recip, sent, hand, used, past>>

\* One transaction: every row is deactivated and the new ones are inserted, which
\* the unique index allows only for users who have never had a share.
ReplaceShares(list) ==
  /\ SumFunction(list) = 10000
  /\ \A u \in DOMAIN list : share[u] = None
  /\ share' = [u \in Users |-> IF u \in DOMAIN list THEN [bps |-> list[u], active |-> TRUE]
                               ELSE IF share[u] = None THEN None
                               ELSE [share[u] EXCEPT !.active = FALSE]]
  /\ UNCHANGED <<run, recip, sent, hand, used, past>>

-----------------------------------------------------------------------------
(* Assembling a run.                                                       *)

Assembling(p) == {h \in Handlers : hand[h].pc \in {"shares", "insert"} /\ hand[h].period = p}

\* Mutant of Existing: settled runs are not found again.
ExistingUnsettled(p) ==
  {r \in Runs : run[r].status \notin {"none", "settled"} /\ run[r].period = p}

Existing(p) == {r \in Runs : run[r].status # "none" /\ run[r].period = p}

\* A run of the period that exists is returned as it is.
AssembleRead(h, p, revenue, feeBps) ==
  /\ At(h, "idle")
  /\ calls < MaxCalls
  /\ calls' = calls + 1
  /\ Existing(p) = {}
  /\ Goes(h, [Idle EXCEPT !.pc = "shares", !.period = p, !.revenue = revenue,
                          !.feeBps = feeBps])
  /\ past' = [past EXCEPT !.doubled = IF Assembling(p) = {} THEN @ ELSE @ \cup {p}]
  /\ UNCHANGED <<share, run, recip, sent, faults>>

\* Mutant of Fee: basis points are taken for percent.
FeePercent(revenue, feeBps) == (revenue * feeBps) \div 100

Fee(revenue, feeBps) == (revenue * feeBps) \div 10000
Part(revenue, feeBps, bps) == ((revenue - Fee(revenue, feeBps)) * bps) \div 10000

ActiveShares == {u \in Users : share[u] # None /\ share[u].active}

\* Mutant of Splittable: the shares are not summed up.
SplittableAny(S) == S # {}

Splittable(S) ==
  /\ Cardinality(S) \in 1..64
  /\ SumFunction([u \in S |-> share[u].bps]) <= 10000

applySplit(h) ==
  [u \in Users |->
     IF u \in ActiveShares
     THEN [status |-> "pending", wallet |-> None,
           amount |-> Part(hand[h].revenue, hand[h].feeBps, share[u].bps)]
     ELSE None]

\* Without shares, or with shares above 100%, the request fails.
ReadShares(h) ==
  /\ At(h, "shares")
  /\ IF Splittable(ActiveShares)
     THEN Goes(h, [hand[h] EXCEPT !.pc = "insert", !.rows = applySplit(h)])
     ELSE Ends(h)
  /\ UNCHANGED <<share, run, recip, sent, used, past>>

\* One transaction: the run and its recipients.
InsertRun(h) ==
  /\ At(h, "insert")
  /\ \E r \in Runs :
       /\ run[r].status = "none"
       /\ run' = [run EXCEPT ![r] = [status |-> "pending", period |-> hand[h].period,
                                     revenue |-> hand[h].revenue,
                                     fee |-> Fee(hand[h].revenue, hand[h].feeBps)]]
       /\ recip' = [recip EXCEPT ![r] = hand[h].rows]
  /\ Ends(h)
  /\ UNCHANGED <<share, sent, used, past>>

-----------------------------------------------------------------------------
(* Settling a run.                                                         *)

\* UPDATE of one recipient's row.
Row(r, u, row) == recip' = [recip EXCEPT ![r][u] = row]

Settling(r) == {h \in Handlers : hand[h].run = r}

\* Mutant of SettleRead: a settled run is settled again.
SettleReadAny(h, r) ==
  /\ At(h, "idle")
  /\ calls < MaxCalls
  /\ calls' = calls + 1
  /\ run[r].status \in {"pending", "partial", "settled"}
  /\ Goes(h, [Idle EXCEPT !.pc = "mark", !.run = r, !.seen = run[r].status])
  /\ past' = [past EXCEPT !.raced = IF Settling(r) = {} THEN @ ELSE @ \cup {r}]
  /\ UNCHANGED <<share, run, recip, sent, faults>>

\* A settled run is returned, one in another status refused.
SettleRead(h, r) ==
  /\ At(h, "idle")
  /\ calls < MaxCalls
  /\ calls' = calls + 1
  /\ run[r].status \in {"pending", "partial"}
  /\ Goes(h, [Idle EXCEPT !.pc = "mark", !.run = r, !.seen = run[r].status])
  /\ past' = [past EXCEPT !.raced = IF Settling(r) = {} THEN @ ELSE @ \cup {r}]
  /\ UNCHANGED <<share, run, recip, sent, faults>>

\* Only if the status is still the one read; nothing looks whether it was.
Mark(h) ==
  /\ At(h, "mark")
  /\ run' = IF run[hand[h].run].status = hand[h].seen
            THEN [run EXCEPT ![hand[h].run].status = "settling"] ELSE run
  /\ To(h, "list")
  /\ UNCHANGED <<share, recip, sent, used, past>>

Listed(rows) == {u \in Users : rows[u] # None}

\* Mutant of Due: a row that was paid before is paid again.
DueAll(rows) == Listed(rows)

Due(rows) == {u \in Listed(rows) : rows[u].status # "confirmed"}

ListRecipients(h) ==
  /\ At(h, "list")
  /\ LET rows == recip[hand[h].run]
     IN  Goes(h, [hand[h] EXCEPT !.pc = "settle", !.rows = rows, !.lookup = Listed(rows),
                                 !.write = {}, !.due = Due(rows)])
  /\ UNCHANGED <<share, run, recip, sent, used, past>>

Addressed(rows, u, w) == [rows EXCEPT ![u] = [@ EXCEPT !.wallet = w]]

\* Users verify and revoke wallets at any time, so the first of the answer is any
\* of theirs, or there is none.  Without one, or when the lookup fails, the row
\* keeps the address an earlier settlement has given it.
Resolve(h) ==
  /\ At(h, "settle")
  /\ \E u \in hand[h].lookup, w \in Wallets \cup {None} :
       /\ w # None => Owner[w] = u
       /\ IF w = None \/ w = hand[h].rows[u].wallet
          THEN Goes(h, [hand[h] EXCEPT !.lookup = @ \ {u}])
          ELSE Goes(h, [hand[h] EXCEPT !.lookup = @ \ {u}, !.write = @ \cup {u},
                                       !.rows = Addressed(@, u, w)])
  /\ UNCHANGED <<share, run, recip, sent, used, past>>

\* Mutant of Persist: the address stays in memory.
PersistNot(h) ==
  /\ At(h, "settle") /\ hand[h].lookup = {}
  /\ \E u \in hand[h].write : Goes(h, [hand[h] EXCEPT !.write = @ \ {u}])
  /\ UNCHANGED <<share, run, recip, sent, used, past>>

\* All lookups done, each new address is written to its row, paid or not.
Persist(h) ==
  /\ At(h, "settle") /\ hand[h].lookup = {}
  /\ \E u \in hand[h].write :
       LET r == hand[h].run IN
       /\ Row(r, u, [recip[r][u] EXCEPT !.wallet = hand[h].rows[u].wallet])
       /\ past' = [past EXCEPT !.moved = IF recip[r][u].status # "confirmed" THEN @
                                         ELSE @ \cup {<<r, u>>}]
       /\ Goes(h, [hand[h] EXCEPT !.write = @ \ {u}])
  /\ UNCHANGED <<share, run, sent, used>>

\* The recipients the loop does not pass over.
Payable(h) == {u \in hand[h].due : hand[h].rows[u].wallet # None}
Paying(h) == At(h, "settle") /\ hand[h].lookup = {} /\ hand[h].write = {}

Skip(h) ==
  /\ Paying(h)
  /\ \E u \in Payable(h) :
       /\ hand[h].rows[u].amount = 0
       /\ Row(hand[h].run, u, [recip[hand[h].run][u] EXCEPT !.status = "skipped"])
       /\ Goes(h, [hand[h] EXCEPT !.due = @ \ {u}])
  /\ UNCHANGED <<share, run, sent, used, past>>

Pays(r, u, w) == sent' = [sent EXCEPT ![r][u] = Append(@, w)]

\* The POST to the qubic service is answered: the transfer is made.
Transfer(h) ==
  /\ Paying(h)
  /\ \E u \in Payable(h) :
       /\ hand[h].rows[u].amount > 0
       /\ Pays(hand[h].run, u, hand[h].rows[u].wallet)
       /\ Goes(h, [hand[h] EXCEPT !.pc = "confirm", !.cur = u, !.due = @ \ {u}])
  /\ UNCHANGED <<share, run, recip, used, past>>

\* It is refused; or made, and its answer lost or the statement that would record
\* it thrown: the payment counts as failed.
TransferFails(h) ==
  /\ Paying(h)
  /\ faults < MaxFaults
  /\ faults' = faults + 1
  /\ \E u \in Payable(h) :
       /\ hand[h].rows[u].amount > 0
       /\ \/ UNCHANGED <<sent, past>>
          \/ /\ Pays(hand[h].run, u, hand[h].rows[u].wallet)
             /\ past' = [past EXCEPT !.lost = @ \cup {hand[h].run}]
       /\ Goes(h, [hand[h] EXCEPT !.pc = "fail", !.cur = u, !.due = @ \ {u}])
  /\ UNCHANGED <<share, run, recip, calls>>

Writes(h, status) ==
  /\ Row(hand[h].run, hand[h].cur, [recip[hand[h].run][hand[h].cur] EXCEPT !.status = status])
  /\ Goes(h, [hand[h] EXCEPT !.pc = "settle", !.cur = None])
  /\ UNCHANGED <<share, run, sent, used, past>>

Confirm(h) == At(h, "confirm") /\ Writes(h, "confirmed")
Fail(h)    == At(h, "fail") /\ Writes(h, "failed")

\* Mutant of Unpaid: recipients without a wallet do not count.
UnpaidFailed(r) == {u \in Users : recip[r][u] # None /\ recip[r][u].status = "failed"}

Unpaid(r) == {u \in Users : recip[r][u] # None /\ recip[r][u].status \in {"failed", "pending"}}

Reread(h) ==
  /\ Paying(h)
  /\ Payable(h) = {}
  /\ Goes(h, [hand[h] EXCEPT !.pc = "finish",
                             !.seen = IF Unpaid(hand[h].run) = {} THEN "settled" ELSE "partial"])
  /\ UNCHANGED <<share, run, recip, sent, used, past>>

\* Mutant of Finish: the status is written as in Mark, over the one remembered.
FinishIfSettling(h) ==
  /\ At(h, "finish")
  /\ run' = IF run[hand[h].run].status = hand[h].seen
            THEN [run EXCEPT ![hand[h].run].status = hand[h].seen] ELSE run
  /\ Ends(h)
  /\ UNCHANGED <<share, recip, sent, used, past>>

Finish(h) ==
  /\ At(h, "finish")
  /\ run' = [run EXCEPT ![hand[h].run].status = hand[h].seen]
  /\ Ends(h)
  /\ UNCHANGED <<share, recip, sent, used, past>>

-----------------------------------------------------------------------------
\* Any other statement throws, or the process stops: the request is gone, and a
\* run it was settling stays as it is.
HandFault(h) ==
  /\ ~At(h, "idle")
  /\ faults < MaxFaults
  /\ faults' = faults + 1
  /\ Ends(h)
  /\ past' = [past EXCEPT !.dropped = IF hand[h].run = None THEN @ ELSE @ \cup {hand[h].run}]
  /\ UNCHANGED <<share, run, recip, sent, calls>>

Settles(h) ==
  \/ Mark(h) \/ ListRecipients(h) \/ Resolve(h) \/ Persist(h) \/ Skip(h) \/ Transfer(h)
  \/ Confirm(h) \/ Fail(h) \/ Reread(h) \/ Finish(h)

Next ==
  \/ \E u \in Users, bps \in Shares : UpsertShare(u, bps)
  \/ \E list \in Lists : ReplaceShares(list)
  \/ \E h \in Handlers :
       \/ \E p \in Periods, revenue \in Revenues, f \in Fees : AssembleRead(h, p, revenue, f)
       \/ ReadShares(h) \/ InsertRun(h)
       \/ \E r \in Runs : SettleRead(h, r)
       \/ Settles(h)
       \/ TransferFails(h) \/ HandFault(h)

\* What a request awaits is answered, or throws.
Fairness == \A h \in Handlers : WF_vars(Settles(h))

Spec == Init /\ [][Next]_vars /\ Fairness

-----------------------------------------------------------------------------
(* Properties.                                                             *)

\* payouts.ts returns the existing run of a period: a period is paid out by one
\* run, unless two assemblies of it overlapped between the look and the insert.
OneRunPerPeriod ==
  \A r, q \in Runs :
    run[r].status # "none" /\ run[r].period = run[q].period =>
      r = q \/ run[r].period \in past.doubled

\* A settled run has paid everyone: whoever raced, retried, crashed or changed
\* wallets, a transfer was made for each recipient that has anything to get.
SettledIsPaid ==
  \A r \in Runs : run[r].status = "settled" =>
    \A u \in Users : recip[r][u] # None /\ recip[r][u].amount > 0 => sent[r][u] # <<>>

\* Settling again, as often as the run is partial, pays nobody twice, unless two
\* settlements overlapped or a transfer was made that could not be recorded.
PaidOnce ==
  \A r \in Runs \ (past.raced \cup past.lost) : \A u \in Users : Len(sent[r][u]) <= 1

Paid(r) == {u \in Users : sent[r][u] # <<>>}

\* What a run has paid out, and its fee, are within the revenue of its period,
\* whatever the shares of the contributors were set to meanwhile.
WithinRevenue ==
  \A r \in Runs \ (past.raced \cup past.lost) :
    run[r].fee + SumFunction([u \in Paid(r) |-> Len(sent[r][u]) * recip[r][u].amount])
      <= run[r].revenue

\* The address on a confirmed row is one that was paid, "so the persistent state
\* matches what we actually paid": true until a later settlement of the run
\* writes the user's new wallet over it, or two of them overlap.
AddressIsPaid ==
  \A r \in Runs \ past.raced, u \in Users :
    recip[r][u] # None /\ <<r, u>> \notin past.moved =>
      (recip[r][u].status = "confirmed" =>
         \E i \in DOMAIN sent[r][u] : sent[r][u][i] = recip[r][u].wallet)

\* A run does not stay in "settling", which nobody can settle again, unless a
\* settlement of it was cut short.
SettlingEnds ==
  \A r \in Runs : run[r].status = "settling" ~> run[r].status # "settling" \/ r \in past.dropped

=============================================================================
