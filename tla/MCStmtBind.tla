----------------------------- MODULE MCStmtBind -----------------------------
(***************************************************************************)
(* StmtBind for TLC.  The literals cover each conversion of               *)
(* InsertStmt::create: an int whose text (3 chars) exceeds a CHARS(2)     *)
(* field, negative and positive halves, texts with a fraction, a sign and *)
(* trailing garbage, the invalid date 0 and a valid date, whose text (10  *)
(* chars) fits the CHARS(10) field.  The tables                           *)
(* differ in their fields, so an attribute may name a column that only    *)
(* some FROM tables have, or a table outside FROM.                        *)
(***************************************************************************)
EXTENDS StmtBind, TLC

MCLiterals ==
  {[type |-> "INTS", v |-> n] : n \in {-1, 100}} \cup
  {[type |-> "FLOATS", v |-> h] : h \in {-3, 3}} \cup
  {[type |-> "CHARS", v |-> t] : t \in {<<"1", ".", "5">>, <<"-", "1", "x">>, <<"x">>}} \cup
  {[type |-> "DATES", v |-> d] : d \in {0, 2021 * 65536 + 1 * 256 + 1}}

MCFields ==
  {[type |-> "INTS", len |-> 4], [type |-> "FLOATS", len |-> 4],
   [type |-> "CHARS", len |-> 2], [type |-> "CHARS", len |-> 10],
   [type |-> "DATES", len |-> 4]}

\* A reused buffer read as a string: its first byte overwritten with a 0.
MCClobbered == {<<>>}

MCTableFields == "t1" :> {"a"} @@ "t2" :> {"a", "b"} @@ "t3" :> {"a"}
====
