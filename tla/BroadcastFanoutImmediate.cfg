SPECIFICATION FairSpec

CONSTANTS
  Broadcasts = {b1}
  Ownerless = {}
  Runs = {r1}
  Calls = {}
  BatchLimit = 1
  Edits = {}
  MaxUpdates = 0
  MaxFaults = 0
  MaxCrashes = 0
  None = None

PROPERTIES
  EverySendSettles

CHECK_DEADLOCK FALSE
