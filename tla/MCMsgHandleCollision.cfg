\* confirm and alert in the same millisecond share the handle 确定_<ms>.
CONSTANTS
  Ops = {"confirm", "alert"}
  Labels = {"ok", "cancel"}
  Values = {"a", "b"}
  NoValue = NoValue
  Cids = {0, 1}
  UniqueCids = TRUE
  Granule = 500
  ConfirmArgs <- MCConfirmArgs
  MaxCalls = 2
SPECIFICATION Spec
PROPERTY ButtonInvokesOwnCallback
CHECK_DEADLOCK FALSE
