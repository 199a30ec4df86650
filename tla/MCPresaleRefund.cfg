SPECIFICATION Spec
CONSTANTS
  n1 = n1  n2 = n2  t1 = t1  t2 = t2  h1 = h1  h2 = h2
  None = None
  Reservations = {n1}
  Txs = {t1, t2}
  Overrides = {}
  Handlers = {h1}
  Millis = {1}
  MaxFaults = 0
INVARIANTS ReleasedIsRefunded
CHECK_DEADLOCK FALSE
