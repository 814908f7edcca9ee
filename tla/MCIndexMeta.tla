----------------------------- MODULE MCIndexMeta ----------------------------
(***************************************************************************)
(* IndexMeta for TLC: two blank names (empty and a space) and one that is *)
(* not, a table of two fields and a document name that is none of them,   *)
(* so that every status of from_json can be returned.                      *)
(***************************************************************************)
EXTENDS IndexMeta

MCNames == {"", " ", "i1"}

MCBlank == {"", " "}
====
