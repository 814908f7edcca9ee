\* Creating, storing, loading and reading one index, and loading any document.
CONSTANTS
  Names <- MCNames
  Blank <- MCBlank
  TableFields = {"a", "b"}
  FieldNames = {"a", "b", "c"}
  MaxFields = 2
  NonString = NonString
  Dangling = Dangling
SPECIFICATION Spec
\* A refused index or document ends the behaviour.
CHECK_DEADLOCK FALSE
INVARIANT
  FieldsAsDesc
