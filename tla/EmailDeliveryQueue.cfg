SPECIFICATION Spec
CONSTANTS
  Emails = {e1}
  Workers = {w1, w2}
  Pollers = {w2}
  Scanners = {s1}
  Crons = {s1}
  Calls = {c1}
  Msgs = {m1, m2}
  QueueConfigured = TRUE
  MaxAttempts = 2
  MaxReceives = 2
  FeedbackTypes = {"delivered"}
  Ops = {"send", "cancel", "reschedule"}
  MaxCrashes = 1
  MaxFaults = 1
  MaxOverruns = 1
  None = None
SYMMETRY Symmetry
INVARIANTS
  SingleSender
  DuplicatesAreLostAcks
  DeadLetterIsFinal
  StrandedByAccident
CHECK_DEADLOCK FALSE
