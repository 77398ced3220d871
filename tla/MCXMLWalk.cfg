SPECIFICATION Spec
CONSTANTS
  MaxDepths <- MCMaxDepths
  MaxFieldses <- MCMaxFieldses
  MaxAttributes = 2
  MaxTokens = 6
INVARIANTS
  TypeOK
  FieldsBounded
  AveragesMatchCounts
  StopsAtTheLimit
  CountsMatchTokens
CHECK_DEADLOCK FALSE
