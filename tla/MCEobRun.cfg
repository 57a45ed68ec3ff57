CONSTANTS
  Geoms <- MCGeoms
  RefScans <- MCRefScans
  CoefVals <- MCCoefVals
  MaxRun = 1
  EobBits = {0, 1, 2}
  FreeSplit = TRUE
SPECIFICATION ProgSpec
CHECK_DEADLOCK FALSE
INVARIANTS ScanTypeOK ReaderRecoversBlocks RoundTrip RefineReaderRecovers RefineRoundTrip
