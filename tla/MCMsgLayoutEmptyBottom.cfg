\* As MCMsgLayout, with attribute.bottom = "" among the caller's options.
CONSTANTS
  ViewSizes = {0, 6, 9}
  BoxSizes = {0, 6, 11}
  Bottoms = {"null", "empty", "val"}
SPECIFICATION Spec
INVARIANT VerticallyPlaced
