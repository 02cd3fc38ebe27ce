\* Two requests, single or batch, with one key or none, across a day and a period.
SPECIFICATION Spec
CONSTANTS
  Requests = {r1, r2}
  Keys = {k1}
  Emails = {e1, e2, e3, e4}
  BatchSize = 2
  ChunkSize = 1
  LastPeriod = 1
  LastDay = 1
  MaxSwitches = 1
  MaxFaults = 2
  MaxCrashes = 1
  None = None
SYMMETRY Symmetry
INVARIANTS
  KeyAcceptedOnce
  NeverOvercharged
  SendableIsCharged
  AcceptedIsPublished
CHECK_DEADLOCK FALSE
