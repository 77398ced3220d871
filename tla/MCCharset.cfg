SPECIFICATION Spec
CONSTANTS
  Inputs <- MCInputs
  MaxTokens = 7
INVARIANTS
  CutAtRuneBoundary
  CountsMatchText
  FlagsMatchText
  CountsMatchTokens
  CleanMeansOneValue
CHECK_DEADLOCK FALSE
