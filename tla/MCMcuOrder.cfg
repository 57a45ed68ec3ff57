CONSTANTS
  MaxComps = 3
  Factors = {1, 2}
  Widths = {8, 24, 40}
  Heights = {8, 24}
  RestartIntervals = {0, 1, 3}
SPECIFICATION Spec
\* Both loops end with the scan; the final state has no successor.
CHECK_DEADLOCK FALSE
INVARIANTS
  TypeOK
  ReaderCoversScan
  SameBlockOrder
  SameRestartPoints
