SPECIFICATION Spec
CONSTANTS
  N = 1
  MaxInt <- MCMaxInt
  Limits <- MCLimits
  Chunks <- MCChunks
  Lengths <- MCLengths
  HandlerSizes <- MCHandlerSizes
  AfterFail <- MCShortBody
INVARIANTS
  CleanEndIsWhole
CHECK_DEADLOCK FALSE
