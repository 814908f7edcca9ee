\* Both binders over every statement the constants allow.
CONSTANTS
  Literals <- MCLiterals
  Fields <- MCFields
  MaxValues = 2
  Tables = {"t1", "t2", "t3"}
  TableFields <- MCTableFields
  FieldNames = {"a", "b"}
  MaxAttrs = 2
  MaxItems = 2
  Clobbered <- MCClobbered
  NULL = NULL
INIT Init
NEXT Next
\* A binder returns once; a bound statement is a terminal state.
CHECK_DEADLOCK FALSE
INVARIANTS
  TypeOK
  ConversionFollowsSpec
  AttributesAgreeOnField
  SelectListBound
