\* npc-gui: the start alert after the client was stopped again.
CONSTANTS
  c1 = c1
  c2 = c2
  Null = Null
  Ids <- OneId
  FifoReplies = TRUE
  FailOps <- NoOps
  NilOps <- NoOps
  MaxInFlight = 3
  MaxTimers = 2
  MaxLogVer = 1
  MaxForms = 1
  UserOps <- ConfigOps
  MaxClicks = 4
SPECIFICATION Spec
PROPERTY SuccessAlertWhileRunning
CHECK_DEADLOCK FALSE
