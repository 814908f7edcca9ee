CONSTANTS
  Tables = {t1, t2, t3}
  NULL = NULL
  MaxFrom = 2
  MaxWhere = 1
  MaxExprs = 1
  RepeatedTables = FALSE
  OnAnyTable = FALSE
  MaxExplainFrom = 1
SYMMETRY Symmetry
SPECIFICATION Spec
CHECK_DEADLOCK FALSE
INVARIANT
  NeverFaults
