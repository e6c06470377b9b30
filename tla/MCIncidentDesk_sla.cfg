SPECIFICATION FairSpec
CONSTANTS
  m1 = m1
  m2 = m2
  high = high
  critical = critical
  d1 = d1
  d2 = d2
  Machines = {m1}
  Rules = {high, critical}
  Severity <- Severities
  Requests = {d1}
  Evaluator = Evaluator
  Nobody = Nobody
  Kinds = {"resolve"}
  Promises <- BothPromises
  MaxAlerts = 2
  MaxIncidents = 2
  MaxPolicies = 2
  Horizon = 3
INVARIANTS
  TypeOK
  EscalatedOncePerLevel
PROPERTIES
  PromiseOnlyTightens
  OverdueIsEscalated
CHECK_DEADLOCK FALSE
