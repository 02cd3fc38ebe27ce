SPECIFICATION FairSpec
CONSTANTS
  Emails = {e1, e2}
  Workers = {w1, w2}
  Pollers = {}
  Scanners = {s1}
  Crons = {}
  Calls = {c1}
  Msgs = {m1, m2}
  QueueConfigured = TRUE
  MaxAttempts = 2
  MaxReceives = 3
  FeedbackTypes = {"delivered", "bounced"}
  Ops = {"send", "cancel"}
  MaxCrashes = 0
  MaxFaults = 0
  MaxOverruns = 0
  None = None
PROPERTIES
  SettledStaysSettled
  EverySendSettles
CHECK_DEADLOCK FALSE
