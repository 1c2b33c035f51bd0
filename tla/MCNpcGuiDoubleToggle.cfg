\* npc-gui: a second press of Start/Stop before the 500 ms reload repeats the toggle on a client already in that state.
CONSTANTS
  c1 = c1
  c2 = c2
  Null = Null
  Ids <- OneId
  FifoReplies = TRUE
  FailOps <- NoOps
  NilOps <- NoOps
  MaxInFlight = 3
  MaxTimers = 2
  MaxLogVer = 1
  MaxForms = 1
  UserOps <- ToggleOps
  MaxClicks = 2
SPECIFICATION Spec
PROPERTY ToggleMatchesBackend
CHECK_DEADLOCK FALSE
