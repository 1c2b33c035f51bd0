\* npc-gui: Save pressed twice on one Add New form.
CONSTANTS
  c1 = c1
  c2 = c2
  Null = Null
  Ids <- MCIds
  FifoReplies = TRUE
  FailOps <- NoOps
  NilOps <- NoOps
  MaxInFlight = 3
  MaxTimers = 2
  MaxLogVer = 1
  MaxForms = 1
  UserOps <- FormOps
  MaxClicks = 4
SPECIFICATION Spec
INVARIANT OneConfigPerForm
CHECK_DEADLOCK FALSE
