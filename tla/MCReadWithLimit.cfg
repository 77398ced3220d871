SPECIFICATION Spec
CONSTANTS
  MaxInt <- MCMaxInt
  Limits <- MCLimits
  Chunks <- MCChunks
  Lengths <- MCLengths
  DefaultChunk <- MCDefaultChunk
INVARIANTS
  TypeOK
  NothingLost
  BoundedRead
  CleanReturnIsWhole
PROPERTIES
  ImplementsLimitedRead
CHECK_DEADLOCK FALSE
