CONSTANTS
  Ints <- MCInts
  Halves <- MCHalves
  Dates = {1, 2}
  Alphabet = {"-", "0", "1", "a"}
  MaxText = 2
  NaN = NaN
  NONE = NONE
SPECIFICATION Spec
CHECK_DEADLOCK FALSE
INVARIANTS
  IntegerRuleFollowsSpec
