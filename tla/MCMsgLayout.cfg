\* Every axis case over small viewport and dialog sizes, including zero
\* (a falsy measurement) and a dialog exactly as tall as the viewport.
CONSTANTS
  ViewSizes = {0, 6, 9}
  BoxSizes = {0, 6, 11}
  Bottoms = {"null", "val"}
SPECIFICATION Spec
INVARIANTS VerticallyPlaced
