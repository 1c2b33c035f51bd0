\* npc-gui: an empty log answered as null throws at logs.length, so the Logs view never leaves what it showed.
CONSTANTS
  c1 = c1
  c2 = c2
  Null = Null
  Ids <- OneId
  FifoReplies = TRUE
  FailOps <- NoOps
  NilOps <- LogsOnly
  MaxInFlight = 3
  MaxTimers = 2
  MaxLogVer = 2
  MaxForms = 1
  UserOps <- LogOps
  MaxClicks = 3
SPECIFICATION Spec
PROPERTY LogsEventuallyFresh
CHECK_DEADLOCK FALSE
