--------------------------- MODULE MCValueCompare ---------------------------
EXTENDS ValueCompare

(* ints around zero and the ones the texts "10", "11" parse to *)
MCInts == {-1, 0, 1, 10}

(* -1.5, -0.5, 0.0, 0.5, 1.5 *)
MCHalves == {-3, -1, 0, 1, 3}
=============================================================================
