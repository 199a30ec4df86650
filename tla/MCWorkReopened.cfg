SPECIFICATION Spec
CONSTANTS
  i1 = i1  i2 = i2  w1 = w1  a = a  t1 = t1  h1 = h1  h2 = h2  p1 = p1  p2 = p2
  None = None
  Items = {i1}
  Workers = {w1}
  Hashes = {a}
  Rows = {1, 2}
  Ticks = {t1}
  Handlers = {h1, h2}
  Billers = {p1, p2}
  Replicas <- MCReplicas
  Fits <- MCFits
  Local = {w1}
  Cap = 2
  InitRep = 1
  RepFloor = 1
  Decay = 1
  MaxAssign = 2
  Ops = {"submit", "register", "result", "cancel"}
  MaxAnswers = 1
  MaxFaults = 0
PROPERTY VerifiedIsFinal
CHECK_DEADLOCK FALSE
