SPECIFICATION Spec
CONSTANTS
  a1 = a1
  a2 = a2
  a3 = a3
  a4 = a4
  Null = Null
  Undiagnosed = "UNKNOWN"
  Window = 2
  Alerts <- TwoPons
  AlertData <- TwoPonsData
  Rules <- MCRules
  Workers = {w1, w2}
  Operators = {}
  IncidentIds = {i1, i2, i3, i4}
SYMMETRY Symmetry
INVARIANTS
  TypeOK
  CodesSequential
  NothingHalfDone
  IncidentHoldsItsAlerts
  VerdictHasEvidence
  VerdictCoversFounder
  EscalationNotMissed
PROPERTIES
  KeepsLedger
