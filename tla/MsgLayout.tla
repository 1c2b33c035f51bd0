------------------------------ MODULE MsgLayout ------------------------------
(***************************************************************************)
(* The placement part of msg.popups (src/web/static/js/msg.js): which      *)
(* axes the caller placed, the default-filling of the options, and the     *)
(* centring of a dialog of measured size.  Sizes are integers; a computed  *)
(* offset (V - b) / 2 is kept doubled so that it stays exact.              *)
(* The two axes are computed in separate try blocks and are independent,  *)
(* so a case is one axis of one call.                                      *)
(***************************************************************************)
EXTENDS Integers, Sequences

CONSTANTS
  ViewSizes,  \* values window.innerWidth/Height and clientWidth/Height report
  BoxSizes,   \* values the dialog's clientWidth/offsetWidth report
  Bottoms     \* forms attribute.bottom can take: "null", "empty", "val"

VARIABLE c    \* the case under evaluation

\* An option as passed: "null" (not given), "empty" (the string ""), "val".
Attrs == [left : {"null", "val"}, top : {"null", "val"}, bottom : Bottoms]

\* popups lines 187-208: default-filling; "" for bottom also becomes auto.
Normalise(a) ==
  [left   |-> IF a.left = "null" THEN "5%" ELSE a.left,
   top    |-> IF a.top = "null" THEN "auto" ELSE a.top,
   bottom |-> IF a.bottom \in {"null", "empty"} THEN "auto" ELSE a.bottom]

\* Mutant: the placed-axis test reads the options after default-filling.
SetTopPosition_afterDefaults(a) ==
  Normalise(a).top # "null" \/ Normalise(a).bottom # "null"

\* popups lines 150-168: the axes the caller placed, read before defaults.
SetLeftPosition(a) == a.left # "null"
SetTopPosition(a)  == a.top # "null" \/ a.bottom # "null"

\* JavaScript a || b || ...: the first non-zero value, else the last one.
RECURSIVE FirstTruthy(_)
FirstTruthy(s) ==
  IF Len(s) = 1 \/ Head(s) # 0 THEN Head(s) ELSE FirstTruthy(Tail(s))

\* innerWidth || documentElement.clientWidth || body.clientWidth
HtmlSize(view) == FirstTruthy(view)
\* msgPositionDom.clientWidth || msgPositionDom.offsetWidth
MsgSize(box) == FirstTruthy(box)

\* Margin used when the dialog is taller than the viewport: '20px'.
TopMargin == 20

(***************************************************************************)
(* The offsets the code assigns on one axis, doubled: one offset, or none *)
(* when the axis was placed by the caller and the style is left alone.    *)
(***************************************************************************)
LeftTwice(a, view, box) ==
  IF SetLeftPosition(a) THEN {} ELSE {HtmlSize(view) - MsgSize(box)}

TopTwice(a, view, box) ==
  IF SetTopPosition(a) THEN {}
  ELSE IF MsgSize(box) > HtmlSize(view) THEN {2 * TopMargin}
       ELSE {HtmlSize(view) - MsgSize(box)}

Views == [1..3 -> ViewSizes]
Boxes == [1..2 -> BoxSizes]
Cases == [axis : {"x", "y"}, attr : Attrs, view : Views, box : Boxes]

Init == c \in Cases
Next == \E d \in Cases : c' = d
Spec == Init /\ [][Next]_c

-----------------------------------------------------------------------------
(***************************************************************************)
(* Every dialog ends up with a vertical position: either the code centres  *)
(* it, or the options after default-filling still place it by top or      *)
(* bottom.  Otherwise it sits at top:auto; bottom:auto, wherever the flow  *)
(* puts it.                                                                *)
(***************************************************************************)
VerticallyPlaced ==
  c.axis = "y" =>
    \/ TopTwice(c.attr, c.view, c.box) # {}
    \/ Normalise(c.attr).top # "auto"
    \/ Normalise(c.attr).bottom # "auto"
=============================================================================
