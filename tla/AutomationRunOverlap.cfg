SPECIFICATION Spec

CONSTANTS
  Starts = {e1}
  Wakes = {e2}
  Runners = {k1, k2}
  Users = {}
  Steps <- MCSteps
  Kind <- MCKind
  Timed = {2}
  Flows <- MCLoopFlows
  ListLimit = 1
  MaxFaults = 1
  MaxChanges = 1
  None = None

INVARIANTS
  RowsAreHonest
  OneEmailPerStep
  SnapshotsAreHonest

PROPERTIES
  LoneRunsWait

CHECK_DEADLOCK FALSE
