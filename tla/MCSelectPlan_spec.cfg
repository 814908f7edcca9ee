CONSTANTS
  Tables = {t1, t2, t3}
  NULL = NULL
  MaxFrom = 3
  MaxWhere = 0
  MaxExprs = 1
  RepeatedTables = TRUE
  OnAnyTable = TRUE
  MaxExplainFrom = 1
SYMMETRY Symmetry
SPECIFICATION Spec
CHECK_DEADLOCK FALSE
INVARIANT
  PlanFollowsSpec
