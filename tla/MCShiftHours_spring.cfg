SPECIFICATION Spec
CONSTANTS
  x1 = x1
  x2 = x2
  A = A
  B = B
  DAY = 4
  Week = 2
  Definitions <- SpringDay
  Names = {A}
  Template <- NoShifts
  Sessions = {x1}
  LimitPerShift = 2
  Horizon = 16
  MaxRequests = 2
  MaxScans = 2
CHECK_DEADLOCK FALSE
SYMMETRY Symmetry
INVARIANT
  EveryInstanceReturned
