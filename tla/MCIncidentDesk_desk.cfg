SPECIFICATION Spec
CONSTANTS
  m1 = m1
  m2 = m2
  high = high
  critical = critical
  d1 = d1
  d2 = d2
  Machines = {m1}
  Rules = {high, critical}
  Severity <- Severities
  Requests = {d1, d2}
  Evaluator = Evaluator
  Nobody = Nobody
  Kinds = {"resolve", "raise", "acknowledged", "resolved"}
  Promises = {}
  MaxAlerts = 3
  MaxIncidents = 2
  MaxPolicies = 0
  Horizon = 0
SYMMETRY Symmetry
INVARIANTS
  OneLivePerMachine
  AlertHasItsIncident
  StandingAlertIsOwned
CHECK_DEADLOCK FALSE
