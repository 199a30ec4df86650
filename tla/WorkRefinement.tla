--------------------------- MODULE WorkRefinement ---------------------------
(* How WorkRuntime implements WorkPromise.                                 *)
EXTENDS WorkRuntime

\* The runtime keeps the promise of WorkPromise: submitted rows are the
\* accepted answers, the result columns the verdict, the external ledger the
\* charges (submitResult, finalizeVerification, billVerifiedWorkItem).
Promise == INSTANCE WorkPromise WITH
  Answers <- Rows,
  accepted <- [i \in Items |-> {<<r, result[r].by>> : r \in Submitted(i)}],
  verdict <- [i \in Items |-> item[i].hash],
  winner <- [i \in Items |-> item[i].by],
  charged <- ledger
KeepsPromise == Promise!Spec

=============================================================================
