\* npc-gui: the reload after a toggle rejects; the catch only logs, and the list keeps the old state.
CONSTANTS
  c1 = c1
  c2 = c2
  Null = Null
  Ids <- OneId
  FifoReplies = TRUE
  FailOps <- ReloadAndToggle
  NilOps <- NoOps
  MaxInFlight = 3
  MaxTimers = 2
  MaxLogVer = 1
  MaxForms = 1
  UserOps <- ToggleOps
  MaxClicks = 2
SPECIFICATION Spec
PROPERTY ConfigsEventuallyConsistent
CHECK_DEADLOCK FALSE
