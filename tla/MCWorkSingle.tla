---------------------------- MODULE MCWorkSingle ----------------------------
\* The deployment the source documents: one scheduler whose ticks do not
\* overlap, no manual assignment, no fault.  Two items, one worker.
EXTENDS WorkRuntime

CONSTANTS i1, i2, w1, a, t1, h1, h2, p1, p2

MCReplicas == [i \in Items |-> 1]
MCFits == Items \X Workers

=============================================================================
