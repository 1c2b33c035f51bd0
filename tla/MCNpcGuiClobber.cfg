\* npc-gui: a background loadConfigs settles while a form is open.
CONSTANTS
  c1 = c1
  c2 = c2
  Null = Null
  Ids <- OneId
  FifoReplies = TRUE
  FailOps <- NoOps
  NilOps <- NoOps
  MaxInFlight = 3
  MaxTimers = 2
  MaxLogVer = 1
  MaxForms = 2
  UserOps <- FormOps
  MaxClicks = 3
SPECIFICATION Spec
PROPERTY FormKeptUntilLeft
CHECK_DEADLOCK FALSE
