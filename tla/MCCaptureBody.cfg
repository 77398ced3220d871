SPECIFICATION Spec
CONSTANTS
  MaxInt <- MCMaxInt
  Sizes <- MCSizes
  MaxReads <- MCMaxReads
  MaxDecodes <- MCMaxDecodes
  SampleSizes <- MCSampleSizes
  Headers <- MCHeaders
INVARIANTS
  TypeOK
  EveryAbsenceExplained
  OneLayerCompleteOrFlagged
  DecodesAllOrNothing
  SampleWithinWindow
CHECK_DEADLOCK FALSE
