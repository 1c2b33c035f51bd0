\* Toasts only, with Math.random free to repeat a live ticket.
CONSTANTS
  Ops = {"success", "info"}
  Labels = {"ok", "cancel"}
  Values = {"a", "b"}
  NoValue = NoValue
  Cids = {0, 1, 2}
  UniqueCids = FALSE
  Granule = 500
  ConfirmArgs <- MCConfirmArgs
  MaxCalls = 2
SPECIFICATION Spec
PROPERTY TimerClosesOnlyOwnOverlay
CHECK_DEADLOCK FALSE
