SPECIFICATION FairSpec
CONSTANTS
  s1 = s1
  s2 = s2
  u1 = u1
  u2 = u2
  Nobody = Nobody
  Scenarios = {1}
  Scorers = {s1, s2}
  Users = {u1}
  Horizon = 1
  MaxActs = 2
PROPERTY
  PredictionIsKept
