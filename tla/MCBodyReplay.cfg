SPECIFICATION Spec
CONSTANTS
  N = 2
  MaxInt <- MCMaxInt
  Limits <- MCLimits
  Chunks <- MCChunks
  Lengths <- MCLengths
  HandlerSizes <- MCHandlerSizes
  AfterFail <- MCAfterFail
INVARIANTS
  TypeOK
  InOrder
  CleanEndIsWhole
  BoundedReadAhead
  InnerCaptureAgrees
PROPERTIES
  ImplementsHandlerBody
CHECK_DEADLOCK FALSE
