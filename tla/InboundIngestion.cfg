SPECIFICATION FairSpec

CONSTANTS
  Events = {e1}
  Handlers = {h1, h2, h3}
  Attachments = {a1, a2}
  Rules = {f1, f2}
  Billed = TRUE
  MaxDeliveries = 3
  MaxFaults = 3
  None = None

INVARIANTS
  IngestedOnce
  OneOwner
  AllOrNothing
  AttemptsAreHonest

PROPERTIES
  EventSettles

CHECK_DEADLOCK FALSE
