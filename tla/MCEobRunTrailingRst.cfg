CONSTANTS
  Geoms <- MCGeomsPadded
  RefScans = {}
  CoefVals = {0}
  MaxRun = 1
  EobBits = {0, 1, 2}
  FreeSplit = FALSE
SPECIFICATION ProgSpec
CHECK_DEADLOCK FALSE
INVARIANT RoundTrip
