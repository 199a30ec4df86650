SPECIFICATION Spec
CONSTANTS
  u1 = u1  u2 = u2  w1 = w1  w2 = w2  w3 = w3
  None = None
  Users = {u1, u2}
  Wallets = {w1, w2, w3}
  Owner <- MCOwner
  Periods = {p1}
  Runs = {r1, r2}
  Handlers = {h1, h2}
  Shares = {6000}
  Lists <- MCLists
  Revenues = {1, 10}
  Fees = {1000}
  MaxFaults = 1
  MaxCalls = 3
INVARIANTS TypeOK OneRunPerPeriod SettledIsPaid PaidOnce WithinRevenue AddressIsPaid
PROPERTIES KeepsPromise SettlingEnds
