INIT Init
NEXT Next
INVARIANT ProbabilityInRange
PROPERTY ImplementsBranchCounts
PROPERTY AdaptsTowardObservedBit
