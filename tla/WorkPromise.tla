----------------------------- MODULE WorkPromise -----------------------------
(***************************************************************************)
(* What the Work Runtime promises a payer, without workers, leases, ticks  *)
(* or requests: answers are accepted and never lost, a verdict stands on   *)
(* enough of them, and only a decided item is charged.                     *)
(***************************************************************************)
EXTENDS Integers, FiniteSets

CONSTANTS Items, Answers, Workers, Hashes, None, Replicas

VARIABLES
  accepted,  \* the answers to each item, each with its worker
  verdict,   \* the decided hash of each item, or None
  winner,    \* the worker credited with it
  charged    \* how often its payer was charged

vars == <<accepted, verdict, winner, charged>>

Init ==
  /\ accepted = [i \in Items |-> {}]
  /\ verdict = [i \in Items |-> None]
  /\ winner = [i \in Items |-> None]
  /\ charged = [i \in Items |-> 0]

\* An answer counts for one item, once.
Accept(i, a, w) ==
  /\ \A j \in Items, v \in Workers : <<a, v>> \notin accepted[j]
  /\ accepted' = [accepted EXCEPT ![i] = @ \cup {<<a, w>>}]
  /\ UNCHANGED <<verdict, winner, charged>>

\* The verdict may be given again, and differently, by a later verification.
Decide(i, x, a, w) ==
  /\ Cardinality(accepted[i]) >= Replicas[i]
  /\ <<a, w>> \in accepted[i]
  /\ verdict' = [verdict EXCEPT ![i] = x]
  /\ winner' = [winner EXCEPT ![i] = w]
  /\ UNCHANGED <<accepted, charged>>

Charge(i) ==
  /\ verdict[i] # None
  /\ charged' = [charged EXCEPT ![i] = @ + 1]
  /\ UNCHANGED <<accepted, verdict, winner>>

Next ==
  \E i \in Items :
    \/ \E a \in Answers, w \in Workers : Accept(i, a, w)
    \/ \E x \in Hashes, a \in Answers, w \in Workers : Decide(i, x, a, w)
    \/ Charge(i)

Spec == Init /\ [][Next]_vars

=============================================================================
