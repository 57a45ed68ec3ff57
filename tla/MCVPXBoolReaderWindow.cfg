CONSTANTS
  Probs = {1, 2, 64, 128, 192, 254, 255}
  UnaryLens = {11}
  GridSizes = {8, 64}
  NBitsLens = {1, 3, 10}
INIT Init
NEXT Next
INVARIANT TypeOK
INVARIANT CompareWithinWindow
