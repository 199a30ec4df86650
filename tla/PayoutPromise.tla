---------------------------- MODULE PayoutPromise ----------------------------
(***************************************************************************)
(* What a payout run promises its recipients, without requests, statuses,  *)
(* wallets on record or retries: the amounts are fixed when the run is     *)
(* opened, whoever is due one gets it once and at an address of their own, *)
(* a run closes when all have, and stays closed.                           *)
(*                                                                         *)
(* A run becomes loose when two settlements of it overlap or a transfer is *)
(* made and not recorded: then it may pay again, and open again, but still *)
(* pays nobody else and closes only when all are paid.                     *)
(***************************************************************************)
EXTENDS Integers, Sequences

CONSTANTS Users, Wallets, Owner, Runs

VARIABLES
  opened,  \* the runs there are
  due,     \* what each recipient of a run is to get, 0 for the others
  paid,    \* the addresses each has been paid at
  closed,  \* the runs that are settled
  loose

vars == <<opened, due, paid, closed, loose>>

Init ==
  /\ opened = {}
  /\ due = [r \in Runs |-> [u \in Users |-> 0]]
  /\ paid = [r \in Runs |-> [u \in Users |-> <<>>]]
  /\ closed = {}
  /\ loose = {}

Open(r) ==
  /\ r \notin opened
  /\ opened' = opened \cup {r}
  /\ due' \in [Runs -> [Users -> Nat]]
  /\ \A q \in Runs \ {r} : due'[q] = due[q]
  /\ UNCHANGED <<paid, closed, loose>>

\* One payment, which may be the one that is not recorded.
Pay(r, u, w) ==
  /\ due[r][u] > 0
  /\ Owner[w] = u
  /\ r \in loose \/ (r \notin closed /\ paid[r][u] = <<>>)
  /\ paid' = [paid EXCEPT ![r][u] = Append(@, w)]
  /\ loose' \in {loose, loose \cup {r}}
  /\ UNCHANGED <<opened, due, closed>>

Close(r) ==
  /\ r \in opened
  /\ \A u \in Users : due[r][u] > 0 => paid[r][u] # <<>>
  /\ closed' = closed \cup {r}
  /\ UNCHANGED <<opened, due, paid, loose>>

Loosen(r) ==
  /\ loose' = loose \cup {r}
  /\ UNCHANGED <<opened, due, paid, closed>>

Reopen(r) ==
  /\ r \in loose
  /\ closed' = closed \ {r}
  /\ UNCHANGED <<opened, due, paid, loose>>

Next ==
  \E r \in Runs :
    \/ Open(r) \/ Close(r) \/ Loosen(r) \/ Reopen(r)
    \/ \E u \in Users, w \in Wallets : Pay(r, u, w)

Spec == Init /\ [][Next]_vars

=============================================================================
