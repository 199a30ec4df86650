---------------------------- MODULE MCWorkSettles ----------------------------
\* One item with the default three replicas and three honest workers that are
\* registered, answer every claim they get and are never late.
EXTENDS WorkRuntime

CONSTANTS i1, w1, w2, w3, a, t1, h1, p1

MCReplicas == [i \in Items |-> 3]
MCFits == Items \X Workers

HonestSpec ==
  /\ Init /\ [][Next /\ \A r \in Rows : result'[r].lease = "live"]_vars
  /\ \A t \in Ticks : WF_vars(TickStep(t))
  /\ \A h \in Handlers : WF_vars(HandStep(h))
  /\ \A b \in Billers : WF_vars(BillStep(b))
  /\ \A w \in Workers : WF_vars(RegisterWorker(w))
  /\ \A h \in Handlers : WF_vars(ResultRequest(h))

\* verifier.ts, case V01: three honest workers agree and the item becomes
\* verified.
HonestItemSettles ==
  \A i \in Items : (item[i].status = "queued") ~> (item[i].status = "verified")

=============================================================================
