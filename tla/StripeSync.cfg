SPECIFICATION SyncFairSpec

CONSTANTS
  Subs = {1, 2}
  Handlers = {h1, h2}
  MaxEvents = 3
  MaxMishaps = 1
  NoSub = NoSub

INVARIANTS
  OneHandler
  NothingForgotten
  RowFollowsStripe

PROPERTIES
  EventsAreHandled

CHECK_DEADLOCK FALSE
