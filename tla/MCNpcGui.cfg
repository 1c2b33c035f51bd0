\* npc-gui, replies in any order, null list replies: form/edit agreement and log freshness.
CONSTANTS
  c1 = c1
  c2 = c2
  Null = Null
  Ids <- OneId
  FifoReplies = FALSE
  FailOps <- MutatingOps
  NilOps <- ListOnly
  MaxInFlight = 3
  MaxTimers = 2
  MaxLogVer = 2
  MaxForms = 2
  UserOps <- AllUserOps
  MaxClicks = 4
SPECIFICATION Spec
INVARIANTS TypeOK SubmitEditsShownForm
PROPERTIES LogsEventuallyFresh
CHECK_DEADLOCK FALSE
