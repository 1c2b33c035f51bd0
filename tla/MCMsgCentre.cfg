\* Two popups calls in a row, each free to give or omit a position.
CONSTANTS
  Ops = {"popups"}
  Labels = {"ok", "cancel"}
  Values = {"a", "b"}
  NoValue = NoValue
  Cids = {0, 1}
  UniqueCids = TRUE
  Granule = 500
  ConfirmArgs <- MCConfirmArgs
  MaxCalls = 2
SPECIFICATION Spec
INVARIANT PlacedAsRequested
CHECK_DEADLOCK FALSE
