SPECIFICATION Spec
CONSTANTS
  i1 = i1  w1 = w1  a = a  t1 = t1  t2 = t2  h1 = h1  p1 = p1  p2 = p2
  None = None
  Items = {i1}
  Workers = {w1}
  Hashes = {a}
  Rows = {1, 2}
  Ticks = {t1, t2}
  Handlers = {h1}
  Billers = {p1, p2}
  Replicas <- MCReplicas
  Fits <- MCFits
  Local = {w1}
  Cap = 1
  InitRep = 1
  RepFloor = 1
  Decay = 1
  MaxAssign = 10
  Ops = {"submit", "register", "result", "assign"}
  MaxAnswers = 2
  MaxFaults = 1
SYMMETRY Symm
INVARIANTS VerdictHasQuorum SchedulerCap ChargesBounded
PROPERTIES DecayIsFinal KeepsPromise
CHECK_DEADLOCK FALSE
