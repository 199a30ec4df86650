---------------------------- MODULE MCNodePresale ----------------------------
\* Two reservations, and hashes that may be quoted for either of them, as its
\* deposit or as its balance.
EXTENDS NodePresale, TLC

CONSTANTS n1, n2, t1, t2, h1, h2

Symm == Permutations(Reservations) \cup Permutations(Handlers) \cup Permutations(Txs \ Overrides)

\* A bound: either there is one reservation, and requests race and fail, or there
\* are two, and one request at a time quotes hashes again.
Made == {r \in Reservations : res[r].status # "none"}
Busy == {h \in Handlers : ~At(h, "idle")}
Fits == \/ Cardinality(Made) <= 1
        \/ Cardinality(Busy) <= 1 /\ faults = 0

BoundedSpec == Init /\ [][Next /\ Fits']_vars

=============================================================================
