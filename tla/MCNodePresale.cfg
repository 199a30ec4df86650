SPECIFICATION BoundedSpec
CONSTANTS
  n1 = n1  n2 = n2  t1 = t1  t2 = t2  h1 = h1  h2 = h2
  None = None
  Reservations = {n1, n2}
  Txs = {t1, t2}
  Overrides = {t2}
  Handlers = {h1, h2}
  Millis = {1}
  MaxFaults = 1
SYMMETRY Symm
INVARIANTS TypeOK HeldIsPaid CreditsBacked
CHECK_DEADLOCK FALSE
