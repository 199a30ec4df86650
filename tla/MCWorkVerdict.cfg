SPECIFICATION Spec
CONSTANTS
  i1 = i1  w1 = w1  w2 = w2  w3 = w3  a = a  b = b  c = c  t1 = t1  h1 = h1  h2 = h2  p1 = p1
  None = None
  Items = {i1}
  Workers = {w1, w2, w3}
  Hashes = {a, b, c}
  Rows = {1, 2, 3}
  Ticks = {t1}
  Handlers = {h1, h2}
  Billers = {p1}
  Replicas <- MCReplicas
  Fits <- MCFits
  Local = {w1, w2, w3}
  Cap = 1
  InitRep = 1
  RepFloor = 1
  Decay = 1
  MaxAssign = 10
  Ops = {"submit", "register", "result", "cancel", "dispute"}
  MaxAnswers = 3
  MaxFaults = 0
SYMMETRY Symm
INVARIANTS TypeOK VerdictHasQuorum
PROPERTY KeepsPromise
CHECK_DEADLOCK FALSE
