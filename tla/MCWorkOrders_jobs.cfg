SPECIFICATION ListedSpec
CONSTANTS
  s1 = s1
  s2 = s2
  u1 = u1
  u2 = u2
  Nobody = Nobody
  Scenarios = {1, 2}
  Scorers = {s1, s2}
  Users = {u1}
  Horizon = 1
  MaxActs = 2
INVARIANTS
  TypeOK
  OneLiveJobPerFault
  ReferencesInOrder
  AutoJobHasPrediction
PROPERTY
  CriticalGetsAJob
