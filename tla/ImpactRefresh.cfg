SPECIFICATION ImpactSpec
CONSTANTS
  r1 = r1
  r2 = r2
  c1 = c1
  c2 = c2
  Callers = {r1, r2}
  Customers = {c1, c2}
  Words = {"UP", "LOS", "TESTING"}
  Threshold = 2
  ResetTime = 2
  MaxChanges = 2
INVARIANT RowsCoverCounters
PROPERTIES RefreshRepairs CircuitLetsTrialsThrough
