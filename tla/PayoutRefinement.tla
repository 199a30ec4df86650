-------------------------- MODULE PayoutRefinement --------------------------
(* How EconomyPayouts implements PayoutPromise.                            *)
EXTENDS EconomyPayouts

Amount(r, u) == IF recip[r][u] = None THEN 0 ELSE recip[r][u].amount

\* The economy service keeps the promise of PayoutPromise: a run is opened by its
\* insert, its rows are what is due, the transfers of the network what is paid,
\* and "settled" closes it (assemblePayout, settleRun).
Promise == INSTANCE PayoutPromise WITH
  opened <- {r \in Runs : run[r].status # "none"},
  due <- [r \in Runs |-> [u \in Users |-> Amount(r, u)]],
  paid <- sent,
  closed <- {r \in Runs : run[r].status = "settled"},
  loose <- past.raced \cup past.lost
KeepsPromise == Promise!Spec

=============================================================================
