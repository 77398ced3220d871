SPECIFICATION Spec
CONSTANTS
  MaxInt <- MCMaxInt
  Limits <- MCOverflowLimits
  Chunks <- MCChunks
  Lengths <- MCLengths
  DefaultChunk <- MCDefaultChunk
INVARIANTS
  CleanReturnIsWhole
CHECK_DEADLOCK FALSE
