SPECIFICATION Spec
CONSTANTS
  Models <- MCAll
  NCtx = 3
  Tokens <- MCTokens
  NoToken = NoToken
  MaxBatch = 2
  Missing <- MCMissing
INVARIANTS
  ContextIsDecoded
  
  PacketNamesItsLayer
CHECK_DEADLOCK FALSE
