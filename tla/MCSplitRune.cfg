SPECIFICATION Spec
CONSTANTS
  Inputs <- MCWellFormed
  MaxTokens = 1
INVARIANTS
  ValidTextIsNotInvalid
CHECK_DEADLOCK FALSE
