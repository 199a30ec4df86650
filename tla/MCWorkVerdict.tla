---------------------------- MODULE MCWorkVerdict ----------------------------
\* One item that wants three answers, three workers, two requests at a time:
\* racing verifications, cancellations and disputes.
EXTENDS WorkRefinement, TLC

CONSTANTS i1, w1, w2, w3, a, b, c, t1, h1, h2, p1

MCReplicas == [i \in Items |-> 3]
MCFits == Items \X Workers
Symm == Permutations(Workers) \cup Permutations(Hashes) \cup Permutations(Handlers)

=============================================================================
