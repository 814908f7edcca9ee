CONSTANTS
  Sessions = {s1}
  Rows = {1, 2}
  Chars = {"a", "b"}
  FieldLen = 2
  ChildMayFail = TRUE
SPECIFICATION Spec
CHECK_DEADLOCK FALSE
INVARIANT
  SuccessMeansUpdated
