SPECIFICATION FairSpec

CONSTANTS
  Starts = {e1, e2}
  Wakes = {e2, e3}
  Runners = {k1}
  Users = {u1}
  Steps <- MCSteps
  Kind <- MCKind
  Timed = {}
  Flows <- MCPlainFlow
  ListLimit = 1
  MaxFaults = 1
  MaxChanges = 0
  None = None

INVARIANTS
  EventsWakeRuns

PROPERTIES
  LoneRunsStayEnded
  RunsSettle

CHECK_DEADLOCK FALSE
