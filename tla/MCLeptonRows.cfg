CONSTANTS
  Frames <- MCFrames
  Handoffs <- MCHandoffs
  MaxBlock = 4
  LenMod = 4
  ByteMod = 2
  Coefs <- MCCoefs
  EdgeQ <- MCEdgeQ
  EdgePredictor <- MCEdgePredictor
  DCPredictor <- MCDCPredictor
SPECIFICATION Spec
INVARIANTS TypeOK SummaryMatchesNeighbor DecodedImage CoefCodersRoundTrip DCWrapRoundTrip BlockRoundTrip
PROPERTIES Terminates
CHECK_DEADLOCK FALSE
