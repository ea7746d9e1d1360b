SPECIFICATION PullerFairSpec
CONSTANTS
  e1 = e1
  e2 = e2
  bad = bad
  puller = puller
  Events = {e1, e2, bad}
  Valid = {e1, e2}
  Puller = puller
  Slots = {puller}
  BatchSize = 2
  PagesPerRun = 2
  MaxRestores = 1
  MaxCrashes = 1
  RegrowthWaits = TRUE
INVARIANT NothingSkipped
PROPERTY EventsReached
