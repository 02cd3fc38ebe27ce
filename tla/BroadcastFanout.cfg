SPECIFICATION FairSpec

CONSTANTS
  Broadcasts = {b1, b2}
  Ownerless = {b2}
  Runs = {r1, r2}
  Calls = {c1}
  BatchLimit = 1
  Edits = {"scheduled", "sending"}
  MaxUpdates = 1
  MaxFaults = 1
  MaxCrashes = 1
  None = None

INVARIANTS
  SendingIsAttended
  CopiesHaveGrounds

PROPERTIES
  ScheduledSettles

CHECK_DEADLOCK FALSE
