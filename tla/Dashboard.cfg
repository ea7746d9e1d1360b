SPECIFICATION Spec
CONSTANTS
  Calls = {c1, c2}
  Booting = c1
  MaxTokens = 3
  MaxLost = 1
  Listed = {i1, i2}
  OltOf <- MCOltOf
  PageCount = 2
  Views = {v1, v2}
  GroupSize = 1
  MaxClicks = 2
  MaxFailures = 1
INVARIANTS ActionsMatchHeader LabelsAreLookedUp
PROPERTIES RevokedStaysSpent GoodSessionEnds AskedPageIsShown
CHECK_DEADLOCK FALSE
