SPECIFICATION Spec
CONSTANTS
  Vectors <- MCVectors
  MaxLines = 3
  L2NormMax = 3
  CosineMin <- MCCosineMin
  CosineUnit = 2
INVARIANTS
  ProbeIsCentroid
  OneDirection
  AcceptedIsBounded
  
CHECK_DEADLOCK FALSE
