CONSTANTS
  Geoms <- MCGeoms
  RefScans = {}
  CoefVals = {0}
  MaxRun = 1
  EobBits = {0, 1, 2}
  FreeSplit = TRUE
SPECIFICATION ProgSpec
CHECK_DEADLOCK FALSE
INVARIANT Reproduced
