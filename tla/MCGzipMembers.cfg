SPECIFICATION Spec
CONSTANTS
  MaxInt <- MCMaxInt
  Sizes <- MCSizes
  MaxReads <- MCSmallReads
  MaxDecodes <- MCSmallDecodes
  SampleSizes <- MCSampleSizes
  Headers <- MCTwoGzip
INVARIANTS
  CompleteOrFlagged
CHECK_DEADLOCK FALSE
