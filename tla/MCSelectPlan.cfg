CONSTANTS
  Tables = {t1, t2, t3}
  NULL = NULL
  MaxFrom = 3
  MaxWhere = 2
  MaxExprs = 2
  RepeatedTables = FALSE
  OnAnyTable = FALSE
  MaxExplainFrom = 1
SYMMETRY Symmetry
SPECIFICATION Spec
CHECK_DEADLOCK FALSE
INVARIANTS
  TypeOK
  WhereUnitsEvaluatedOnce
  AggregationsExactlyOnce
  PushdownComplete
