SPECIFICATION HonestSpec
CONSTANTS
  i1 = i1  w1 = w1  w2 = w2  w3 = w3  a = a  t1 = t1  h1 = h1  p1 = p1
  None = None
  Items = {i1}
  Workers = {w1, w2, w3}
  Hashes = {a}
  Rows = {1, 2, 3}
  Ticks = {t1}
  Handlers = {h1}
  Billers = {p1}
  Replicas <- MCReplicas
  Fits <- MCFits
  Local = {w1, w2, w3}
  Cap = 2
  InitRep = 5
  RepFloor = 5
  Decay = 1
  MaxAssign = 10
  Ops = {"submit", "register", "result"}
  MaxAnswers = 3
  MaxFaults = 0
PROPERTY HonestItemSettles
CHECK_DEADLOCK FALSE
