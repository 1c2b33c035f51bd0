\* Dialogs with toasts: popups, confirm, alert, input (failure via input without okFunc) and success; unique tickets.
CONSTANTS
  Ops = {"success", "popups", "confirm", "alert", "input"}
  Labels = {"ok", "cancel"}
  Values = {"a", "b"}
  NoValue = NoValue
  Cids = {0, 1, 2, 3}
  UniqueCids = TRUE
  Granule = 500
  ConfirmArgs <- MCConfirmArgs
  MaxCalls = 3
SPECIFICATION Spec
INVARIANTS ToastTicketIsLive
CHECK_DEADLOCK FALSE
