\* npc-gui config changes, calls answered in call order: the list settles on, and always comes back to, the backend's.
CONSTANTS
  c1 = c1
  c2 = c2
  Null = Null
  Ids <- MCIds
  FifoReplies = TRUE
  FailOps <- MutatingOps
  NilOps <- NoOps
  MaxInFlight = 3
  MaxTimers = 2
  MaxLogVer = 1
  MaxForms = 2
  UserOps <- ConfigOps
  MaxClicks = 4
SPECIFICATION Spec
INVARIANTS QuiescentConfigsFresh
PROPERTIES ConfigsEventuallyConsistent ImplementsConfigCache
CHECK_DEADLOCK FALSE
