SPECIFICATION FairSpec

CONSTANTS
  Notes = {n1, n2}
  Recipients = {r1, r2}
  Hooks = {1, 2, 3}
  HookLimit = 2
  Handlers = {h1, h2}
  MaxPosts = 2
  MaxEdits = 1
  MaxFaults = 1
  None = None

INVARIANTS
  OncePerNote
  FannedOut
  BouncesSuppress

PROPERTIES
  NotesAreHandled

CHECK_DEADLOCK FALSE
