SPECIFICATION Spec
CONSTANTS
  LocalHidden = 2
  Passthrough = FALSE
  Dims <- MCDims
  Weights <- MCWeights
  Entries <- MCEntries
INVARIANTS
  AdaptedFits
  RefusedForCause
  EveryWeightCounts
  
CHECK_DEADLOCK FALSE
