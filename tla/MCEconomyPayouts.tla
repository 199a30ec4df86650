-------------------------- MODULE MCEconomyPayouts --------------------------
\* Two contributors, the first with two wallets; one period, reported with a
\* revenue that rounds to nothing and with one that does not.
EXTENDS PayoutRefinement, TLC

CONSTANTS u1, u2, w1, w2, w3

MCOwner == (w1 :> u1) @@ (w2 :> u1) @@ (w3 :> u2)
MCLists == {(u1 :> 6000) @@ (u2 :> 4000), u2 :> 10000}

=============================================================================
