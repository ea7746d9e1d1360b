SPECIFICATION Spec
CONSTANTS
  a1 = a1
  a2 = a2
  a3 = a3
  a4 = a4
  Null = Null
  Undiagnosed = "UNKNOWN"
  Window = 2
  Alerts <- TwoFaults
  AlertData <- TwoFaultsData
  Rules <- MCRules
  Workers = {w1}
  Operators = {o1, o2}
  IncidentIds = {i1, i2, i3}
PROPERTIES
  StatusFollowsMachine
