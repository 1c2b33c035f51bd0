\* npc-gui log view, replies in any order: an older GetLogs reply lands last.
CONSTANTS
  c1 = c1
  c2 = c2
  Null = Null
  Ids <- OneId
  FifoReplies = FALSE
  FailOps <- NoOps
  NilOps <- NoOps
  MaxInFlight = 3
  MaxTimers = 2
  MaxLogVer = 2
  MaxForms = 1
  UserOps <- LogOps
  MaxClicks = 4
SPECIFICATION Spec
PROPERTY LogsNeverGoBack
CHECK_DEADLOCK FALSE
