----------------------------- MODULE MCAggrExec -----------------------------
(* Model-checking instance of AggrExec: a negative, a zero and a positive  *)
(* column value, so sums cancel and MIN/MAX differ from the first row.     *)
EXTENDS AggrExec

MCVals == {-1, 0, 2}
=============================================================================
