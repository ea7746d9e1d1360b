SPECIFICATION ConsumerFairSpec
CONSTANTS
  e1 = e1
  bad = bad
  c1 = c1
  c2 = c2
  Events = {e1, bad}
  Valid = {e1}
  Slots = {c1, c2}
  Consumers = {c1, c2}
  MaxRetries = 2
  MaxCrashes = 1
  MaxLosses = 1
INVARIANTS MessageNotLost DeadLettersWereRetried OneCopyPerFault
PROPERTY ConcludedOrLost
CHECK_DEADLOCK FALSE
