CONSTANTS
  W = 16
  RegBits = 24
  NumUnits = 4
  RestartIntervals = {0, 2, 3}
  UnitBits = {1, 7}
  Interleaved = TRUE
  FinalPadMayDiffer = FALSE
  RowUnits = 1
  MaxRstErr = 1
INIT Init
NEXT Next
CHECK_DEADLOCK FALSE
INVARIANT TypeOK
INVARIANT RoundTrip
INVARIANT PeekNeverFull
INVARIANT PartitionedRoundTrip
