SPECIFICATION Spec
CONSTANTS
  x1 = x1
  x2 = x2
  A = A
  B = B
  DAY = 4
  Week = 2
  Definitions <- Clocks
  Names = {A, B}
  Template <- TwoShifts
  Sessions = {x1, x2}
  LimitPerShift = 2
  Horizon = 16
  MaxRequests = 4
  MaxScans = 2
CHECK_DEADLOCK FALSE
SYMMETRY Symmetry
INVARIANTS
  TypeOK
  ActiveShiftsApart
  WindowsApart
  OwedIsDue
  AppliedOnce
