\* A success toast's timer against a popup opened after the toast.
CONSTANTS
  Ops = {"success", "popups"}
  Labels = {"ok", "cancel"}
  Values = {"a", "b"}
  NoValue = NoValue
  Cids = {0, 1, 2}
  UniqueCids = TRUE
  Granule = 500
  ConfirmArgs <- MCConfirmArgs
  MaxCalls = 2
SPECIFICATION Spec
PROPERTY TimerClosesOnlyOwnOverlay
CHECK_DEADLOCK FALSE
