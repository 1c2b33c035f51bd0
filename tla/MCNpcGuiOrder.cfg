\* npc-gui config changes, replies in any order: an older ListConfigs reply lands last.
CONSTANTS
  c1 = c1
  c2 = c2
  Null = Null
  Ids <- MCIds
  FifoReplies = FALSE
  FailOps <- NoOps
  NilOps <- NoOps
  MaxInFlight = 3
  MaxTimers = 2
  MaxLogVer = 1
  MaxForms = 2
  UserOps <- ConfigOps
  MaxClicks = 4
SPECIFICATION Spec
INVARIANT QuiescentConfigsFresh
SYMMETRY IdSymmetry
CHECK_DEADLOCK FALSE
