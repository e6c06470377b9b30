SPECIFICATION FairSpec
CONSTANTS
  s1 = s1
  s2 = s2
  i1 = i1
  i2 = i2
  NoInstance = NoInstance
  Shifts = {s1, s2}
  Instances = {i1, i2}
  Ends <- TwoShifts
  Length = 1
  LookBack = 5
  Cap = 1
  Routes = {TRUE}
  Broken = {s2}
  Horizon = 3
  Budget <- LiveBudget
INVARIANT
  OnePassAtATime
PROPERTIES
  EventuallyCaughtUp
  ReadingEventuallyScored
