SPECIFICATION Spec
CONSTANTS
  MaxNesting = 3
  Values <- MCValues
  Documents <- MCDocuments
  MaxDepths <- MCMaxDepths
  MaxFieldses <- MCMaxFieldses
  KeyLength <- MCKeyLength
INVARIANTS
  TypeOK
  FieldsBounded
  LimitIffOver
  StatsMatchDocument
CHECK_DEADLOCK FALSE
