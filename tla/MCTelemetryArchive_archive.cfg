SPECIFICATION FairSpec
CONSTANTS
  t1 = t1
  t2 = t2
  p1 = p1
  p2 = p2
  Readings = {1, 2, 3}
  Tenants = {t1, t2}
  MonthOf <- ThreeReadings
  TenantOf <- TwoAccounts
  Passes = {p1}
  Hot = 1
  Ahead = 1
  Backfill = 2
  CHUNK = 1
  Horizon = 3
  Budget <- Mishaps
INVARIANTS
  TypeOK
  NothingLost
  VerifiedIsTrue
PROPERTY
  OldMonthIsDropped
CHECK_DEADLOCK FALSE
