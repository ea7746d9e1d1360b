SPECIFICATION Spec
CONSTANTS
  e1 = e1
  puller = puller
  consumer = consumer
  request = request
  Events = {e1}
  Valid = {e1}
  Slots = {puller, consumer, request}
  Puller = puller
  BatchSize = 1
  PagesPerRun = 1
  MaxRestores = 1
  RegrowthWaits = TRUE
  Consumers = {consumer}
  MaxRetries = 1
  MaxLosses = 1
  Requests = {request}
  MaxCrashes = 1
INVARIANTS NotifiedAtMostOnce OneFreshDelivery
