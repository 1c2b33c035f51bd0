\* popups() appends a second dialog without closing the first.
CONSTANTS
  Ops = {"popups"}
  Labels = {"ok", "cancel"}
  Values = {"a", "b"}
  NoValue = NoValue
  Cids = {0, 1}
  UniqueCids = TRUE
  Granule = 500
  ConfirmArgs <- MCConfirmArgs
  MaxCalls = 2
SPECIFICATION Spec
INVARIANT SingleOverlay
CHECK_DEADLOCK FALSE
