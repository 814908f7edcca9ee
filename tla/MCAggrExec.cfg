CONSTANTS
  Vals <- MCVals
  MaxRows = 3
  MaxExprs = 2
  ChildMayFail = TRUE
  EmptyResult = EmptyResult
SPECIFICATION Spec
CHECK_DEADLOCK FALSE
INVARIANTS
  TypeOK
  ResultMatchesChild
PROPERTIES
  AtMostOneRow
  Terminates
