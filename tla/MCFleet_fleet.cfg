SPECIFICATION Spec
CONSTANTS
  d1 = d1
  d2 = d2
  t1 = t1
  t2 = t2
  m1 = m1
  m2 = m2
  x1 = x1
  x2 = x2
  u1 = u1
  u2 = u2
  None = None
  Devices = {d1, d2}
  Accounts = {t1, t2}
  Machines = {m1, m2}
  Owner <- OneEach
  Sessions = {x1, x2}
  Approvers = {u1, u2}
  Horizon = 2
  MaxErrands = 4
  MaxActivations = 3
  MaxRequests = 4
CHECK_DEADLOCK FALSE
SYMMETRY Symmetry
INVARIANTS
  TypeOK
  HolderIsOnRecord
  OneInForce
PROPERTIES
  OnlyTheHolderFits
  NeverUnbound
