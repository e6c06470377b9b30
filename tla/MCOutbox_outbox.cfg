SPECIFICATION FairSpec
CONSTANTS
  e1 = e1
  e2 = e2
  u1 = u1
  u2 = u2
  c1 = c1
  c2 = c2
  Nobody = Nobody
  Events = {e1}
  LevelTwo = {}
  Users = {u1, u2}
  Consumers = {c1, c2}
  MaxAttempts = 2
  Backoff <- ShortWaits
  MaxAge = 1
  Limit = 2
  Horizon = 2
  Budget <- AllFaults
INVARIANTS
  TypeOK
  HeldAlone
  DeliveredMeansTold
  RepeatsOnlyAfterMishap
PROPERTIES
  PromiseKept
  SettledIsFinal
  EveryEventSettles
