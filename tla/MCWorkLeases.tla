---------------------------- MODULE MCWorkLeases ----------------------------
\* Two ticks of the assignment loop overlap, with requests, manual assignments
\* and a fault beside them: one worker, one item that wants one answer, so that a
\* second one finds it verified and billed.
EXTENDS WorkRefinement, TLC

CONSTANTS i1, w1, a, t1, t2, h1, p1, p2

MCReplicas == [i \in Items |-> 1]
MCFits == Items \X Workers
Symm == Permutations(Ticks) \cup Permutations(Billers)

=============================================================================
