\* Two overlapping scans of one period, with failures and forgetting.
SPECIFICATION FairSpec
CONSTANTS
  Periods = {p1}
  Reporters = {r1, r2}
  Included = 1
  Top = 2
  MaxCrashes = 1
  MaxFaults = 1
  MaxOverruns = 1
  MaxForgets = 1
  None = None
INVARIANTS
  ReportsPartitionClaimed
  BilledOnce
  CursorIsConfirmed
PROPERTIES
  ImplementsLedger
  OverageIsBilled
CHECK_DEADLOCK FALSE
