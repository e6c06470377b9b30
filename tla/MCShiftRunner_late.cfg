SPECIFICATION Spec
CONSTANTS
  s1 = s1
  s2 = s2
  i1 = i1
  i2 = i2
  NoInstance = NoInstance
  Shifts = {s1}
  Instances = {i1}
  Ends <- OneShiftThrice
  Length = 1
  LookBack = 5
  Cap = 1
  Routes = {TRUE, FALSE}
  Broken = {}
  Horizon = 4
  Budget <- LateBudget
INVARIANTS
  TypeOK
  LateReadingsAreScored
  PassedWindowsWereTried
