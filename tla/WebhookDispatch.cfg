SPECIFICATION FairSpec

CONSTANTS
  Deliveries = {v1}
  Dispatchers = {d1, d2}
  QueueConfigured = TRUE
  MaxAttempts = 2
  ScanLimit = 1
  MaxCrashes = 1
  MaxFaults = 1
  MaxOverruns = 0
  None = None

INVARIANTS
  DispatchInvariant

PROPERTIES
  DeliverySettles
