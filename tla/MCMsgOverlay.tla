---------------------------- MODULE MCMsgOverlay ----------------------------
(***************************************************************************)
(* Model-checking instance of MsgOverlay.                                  *)
(***************************************************************************)
EXTENDS MsgOverlay

\* confirm(text, okFunc): the string form, 确定 bound to okFunc, 取消 to a no-op.
ConfirmWithOk ==
  [text |-> TRUE, buttons |-> {"ok", "cancel"}, undefinedCb |-> {},
   close |-> "unset"]

\* confirm(text) without okFunc: 确定 is bound to undefined.
ConfirmWithoutOk ==
  [text |-> TRUE, buttons |-> {"ok", "cancel"}, undefinedCb |-> {"ok"},
   close |-> "unset"]

MCConfirmArgs == {ConfirmWithOk}
=============================================================================
