\* The toast core: only success/failure/info/loading/close are called, and
\* Math.random never repeats a live ticket.
CONSTANTS
  Ops = {"success", "failure", "info", "loading", "close"}
  Labels = {"ok", "cancel"}
  Values = {"a", "b"}
  NoValue = NoValue
  Cids = {0, 1, 2, 3}
  UniqueCids = TRUE
  Granule = 500
  ConfirmArgs <- MCConfirmArgs
  MaxCalls = 3
SPECIFICATION Spec
INVARIANTS TypeOK SingleOverlay ToastTicketIsLive
PROPERTIES TimerClosesOnlyOwnOverlay ToastEventuallyDismissed ContinuationFires ImplementsOverlayManager
CHECK_DEADLOCK FALSE
