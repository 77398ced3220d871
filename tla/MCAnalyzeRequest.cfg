SPECIFICATION Spec
CONSTANTS
  MaxInt <- MCMaxInt
  Sizes <- MCSizes
  MaxReads <- MCMaxReads
  MaxDecodes <- MCMaxDecodes
  SampleSizes <- MCSampleSizes
  Headers <- MCHeaders
  Kinds <- MCKinds
  EnabledSets <- MCEnabledSets
  Options <- MCOptions
INVARIANTS
  TypeOK
  EveryNilExplained
  ResultsAreOfDecodedData
  EntropyAgreesWithMeta
PROPERTIES
  AlwaysServed
CHECK_DEADLOCK FALSE
