CONSTANTS
  DcSymbols <- MCDcSymbols
  AcSymbols <- MCAcSymbols
  DcProfiles <- MCDcProfiles
  AcProfiles <- MCAcProfiles
  Blocks <- MCBlocks
  NumBlocks = 2
SPECIFICATION Spec
\* The scan ends after NumBlocks blocks are read and written again.
CHECK_DEADLOCK FALSE
INVARIANTS
  TypeOK
  RoundTrip
