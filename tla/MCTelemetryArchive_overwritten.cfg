SPECIFICATION Spec
CONSTANTS
  t1 = t1
  t2 = t2
  p1 = p1
  p2 = p2
  Readings = {1, 2}
  Tenants = {t1}
  MonthOf <- TwoReadings
  TenantOf <- OneAccount
  Passes = {p1, p2}
  Hot = 1
  Ahead = 1
  Backfill = 2
  CHUNK = 1
  Horizon = 3
  Budget <- Arrivals
INVARIANT
  NothingLost
CHECK_DEADLOCK FALSE
