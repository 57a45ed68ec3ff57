CONSTANTS
  W <- MCW
  WD <- MCWD
  Probs <- MCProbs
  MaxOps = 3
  NBitsLen = 2
  GridSize = 4
  UnaryLen = 3
  OpKinds = {"bit", "nbits", "grid", "unary"}
  StartOps <- MCStartOps
INIT Init
NEXT Next
CHECK_DEADLOCK FALSE
INVARIANT TypeOK
INVARIANT RoundTrip
INVARIANT NoCarryUnderflow
