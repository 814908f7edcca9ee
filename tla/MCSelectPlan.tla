---------------------------- MODULE MCSelectPlan ----------------------------
(* Model-checking instance of SelectPlan: tables are interchangeable.      *)
EXTENDS SelectPlan, TLC

Symmetry == Permutations(Tables)
=============================================================================
