CONSTANTS
  W = 16
  RegBits = 24
  NumUnits = 4
  RestartIntervals = {2}
  UnitBits = {1, 7}
  Interleaved = FALSE
  FinalPadMayDiffer = FALSE
  RowUnits = 2
  MaxRstErr = 0
INIT Init
NEXT Next
CHECK_DEADLOCK FALSE
INVARIANT RoundTrip
