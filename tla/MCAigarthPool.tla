---------------------------- MODULE MCAigarthPool ----------------------------
\* One user, one ANN, three identities of which two may sign, and the signer
\* changes that add, remove, replace, and replace with a removal listed twice.
EXTENDS AigarthPool

CONSTANTS s1, s2, s3

MCShares == {[creator |-> 3000, user |-> 6000]}
MCDeployments == {[signers |-> {s1, s2}, first |-> s1, threshold |-> 2]}
MCChanges ==
  {[add |-> {s3}, remove |-> <<>>, threshold |-> None],
   [add |-> {}, remove |-> <<s1>>, threshold |-> None],
   [add |-> {s1, s3}, remove |-> <<s1, s1>>, threshold |-> 1]}

=============================================================================
