SPECIFICATION Spec
CONSTANTS
  Dispatches = {d1, d2}
  Rules = {rule1}
  Targets = {t1, t2}
  RuleRows <- MCRuleRows
  MaxEdits = 1
  Generations = {g1, g2}
  MaxRevisions = 2
  Users = {u1, u2}
  MaxRejected = 1
  Incidents = {i1, i2}
  PonOf <- MCPonOf
  Customers = {c1, x1}
  CustomerCodes = {c1}
  Requests = {r1}
  Asked <- MCAsked
  MaxTime = 3
  MaxDelay = 1
  MaxStops = 1
INVARIANTS AnsweredIsNotified WorkLeftIsInterrupted DownloadIsWhole OneConnection DowntimeIsCoverage ViewsAgree SnapshotsNotOverstated
PROPERTIES KeepsJobLedger ReplacedOrRefused
CHECK_DEADLOCK FALSE
