\* One confirm dialog, clicked: its window.msg.confirm handlers outlive it.
CONSTANTS
  Ops = {"confirm"}
  Labels = {"ok", "cancel"}
  Values = {"a", "b"}
  NoValue = NoValue
  Cids = {0, 1}
  UniqueCids = TRUE
  Granule = 500
  ConfirmArgs <- MCConfirmArgs
  MaxCalls = 1
SPECIFICATION Spec
INVARIANT HandlesReleased
CHECK_DEADLOCK FALSE
