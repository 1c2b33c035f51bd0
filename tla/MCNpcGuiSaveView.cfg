\* npc-gui: a save that settles after the user opened the logs view.
CONSTANTS
  c1 = c1
  c2 = c2
  Null = Null
  Ids <- OneId
  FifoReplies = TRUE
  FailOps <- NoOps
  NilOps <- NoOps
  MaxInFlight = 3
  MaxTimers = 2
  MaxLogVer = 1
  MaxForms = 2
  UserOps <- FormOps
  MaxClicks = 4
SPECIFICATION Spec
INVARIANT ContentMatchesView
CHECK_DEADLOCK FALSE
