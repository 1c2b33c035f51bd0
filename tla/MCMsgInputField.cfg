\* Two input dialogs: the OK of one reads #msg_input_id of the other.
CONSTANTS
  Ops = {"input"}
  Labels = {"ok", "cancel"}
  Values = {"a", "b"}
  NoValue = NoValue
  Cids = {0, 1}
  UniqueCids = TRUE
  Granule = 500
  ConfirmArgs <- MCConfirmArgs
  MaxCalls = 2
SPECIFICATION Spec
PROPERTY InputSubmitsOwnField
CHECK_DEADLOCK FALSE
