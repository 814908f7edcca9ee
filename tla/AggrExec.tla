------------------------------ MODULE AggrExec ------------------------------
(***************************************************************************)
(* AggrPhysicalOperator (src/observer/sql/operator/                        *)
(* aggr_physical_operatior.cpp) driven through the open / next / close     *)
(* protocol by the statement executor, over one child operator.           *)
(*                                                                         *)
(* The first next() resets every AggregationExpr, drains the child and     *)
(* builds one aggregated row; the next call returns end-of-stream.  The    *)
(* child is the scan/filter subtree: it yields the rows of ChildRows in    *)
(* order and, where the storage layer reports an error, fails a next() or  *)
(* a close().  The driver and the child are the operator's environment     *)
(* (their code is not in this repository) and are modelled from the       *)
(* protocol of spec section 4.2; AggregationExpr's accumulator from the    *)
(* spec's reset/accumulate/finalize description.                           *)
(***************************************************************************)
EXTENDS Integers, Sequences, SequencesExt, FiniteSets

CONSTANTS
  Vals,         \* column values of the child's rows
  MaxRows,      \* rows the child produces at most
  MaxExprs,     \* aggregation expressions of the operator at most
  ChildMayFail, \* whether the child's next() and close() may fail
  EmptyResult   \* the finalized SUM/AVG/MAX/MIN of an empty input

AggrKinds == {"COUNT", "SUM", "AVG", "MAX", "MIN"}

VARIABLES
  rows,     \* the rows the child yields, in order (input of the run)
  exprs,    \* expressions_: the aggregation expressions (input of the run)
  index_,   \* AggrPhysicalOperator::index_
  acc,      \* accumulator of each AggregationExpr
  fed,      \* history: the child rows fed to the accumulators since reset
  pos,      \* rows the child has yielded
  child,    \* child state: "idle", "open", "failed", "closed"
  closes,   \* times the child was closed
  out,      \* aggred_tuple_ cells the driver received with SUCCESS
  rc,       \* the RC of the operator's last open/next/close
  dpc       \* driver: "start", "ready", "draining", "finished", "closed"

vars == <<rows, exprs, index_, acc, fed, pos, child, closes, out, rc, dpc>>

-----------------------------------------------------------------------------
(***************************************************************************)
(* AggregationExpr: begin_aggr / aggr_tuple / get_result.                  *)
(***************************************************************************)
EmptyAcc == [cnt |-> 0, sum |-> 0, max |-> EmptyResult, min |-> EmptyResult]

Accumulate(a, v) ==
  [cnt |-> a.cnt + 1,
   sum |-> a.sum + v,
   max |-> IF a.max = EmptyResult \/ v > a.max THEN v ELSE a.max,
   min |-> IF a.min = EmptyResult \/ v < a.min THEN v ELSE a.min]

GetResult(kind, a) ==
  CASE kind = "COUNT"    -> a.cnt
    [] a.cnt = 0         -> EmptyResult
    [] kind = "SUM"      -> a.sum
    [] kind = "AVG"      -> <<a.sum, a.cnt>>
    [] kind = "MAX"      -> a.max
    [] kind = "MIN"      -> a.min

(* The aggregate of a whole input, by its definition: the reference.      *)
Reference(kind, vs) ==
  CASE kind = "COUNT"    -> Len(vs)
    [] vs = <<>>         -> EmptyResult
    [] kind = "SUM"      -> FoldSeq(+, 0, vs)
    [] kind = "AVG"      -> <<FoldSeq(+, 0, vs), Len(vs)>>
    [] kind = "MAX"      -> CHOOSE x \in ToSet(vs) : \A y \in ToSet(vs) : y <= x
    [] kind = "MIN"      -> CHOOSE x \in ToSet(vs) : \A y \in ToSet(vs) : x <= y

-----------------------------------------------------------------------------
(***************************************************************************)
(* The operator.                                                          *)
(***************************************************************************)

(* open(): exactly one child is required (the logical aggregation node    *)
(* always has one), and the child's open result is returned.  After a     *)
(* failed open the executor closes the operator.                          *)
Open ==
  /\ dpc = "start"
  /\ \E ok \in IF ChildMayFail THEN BOOLEAN ELSE {TRUE} :
       /\ child' = IF ok THEN "open" ELSE "failed"
       /\ rc' = IF ok THEN "SUCCESS" ELSE "IOERR"
       /\ dpc' = IF ok THEN "ready" ELSE "finished"
  /\ UNCHANGED <<rows, exprs, index_, acc, fed, pos, closes, out>>

(* next(), up to the drain loop: past the last child, end-of-stream;      *)
(* otherwise take children_[index_++] and reset every aggregation.        *)
NextBegin_NoAdvance ==
  /\ dpc = "ready"
  /\ IF index_ >= 1
     THEN /\ rc' = "RECORD_EOF"
          /\ dpc' = "finished"
          /\ UNCHANGED <<index_, acc, fed>>
     ELSE /\ acc' = [k \in DOMAIN exprs |-> EmptyAcc]
          /\ fed' = <<>>
          /\ dpc' = "draining"
          /\ UNCHANGED <<rc, index_>>
  /\ UNCHANGED <<rows, exprs, pos, child, closes, out>>

NextBegin_EOFAsSuccess ==
  /\ dpc = "ready"
  /\ IF index_ >= 1
     THEN /\ rc' = "SUCCESS"
          /\ UNCHANGED <<index_, acc, fed, dpc>>
     ELSE /\ index_' = index_ + 1
          /\ acc' = [k \in DOMAIN exprs |-> EmptyAcc]
          /\ fed' = <<>>
          /\ dpc' = "draining"
          /\ UNCHANGED rc
  /\ UNCHANGED <<rows, exprs, pos, child, closes, out>>

NextBegin ==
  /\ dpc = "ready"
  /\ IF index_ >= 1
     THEN /\ rc' = "RECORD_EOF"
          /\ dpc' = "finished"
          /\ UNCHANGED <<index_, acc, fed>>
     ELSE /\ index_' = index_ + 1
          /\ acc' = [k \in DOMAIN exprs |-> EmptyAcc]
          /\ fed' = <<>>
          /\ dpc' = "draining"
          /\ UNCHANGED rc
  /\ UNCHANGED <<rows, exprs, pos, child, closes, out>>

(* One iteration of the drain loop: the child yields its next row and     *)
(* every aggregation accumulates it.                                       *)
DrainRow_SkipsRow ==
  /\ dpc = "draining"
  /\ pos < Len(rows)
  /\ acc' = [k \in DOMAIN exprs |-> Accumulate(acc[k], rows[pos + 1])]
  /\ fed' = Append(fed, rows[pos + 1])
  /\ pos' = pos + 2
  /\ UNCHANGED <<rows, exprs, index_, child, closes, out, rc, dpc>>

DrainRow ==
  /\ dpc = "draining"
  /\ pos < Len(rows)
  /\ acc' = [k \in DOMAIN exprs |-> Accumulate(acc[k], rows[pos + 1])]
  /\ fed' = Append(fed, rows[pos + 1])
  /\ pos' = pos + 1
  /\ UNCHANGED <<rows, exprs, index_, child, closes, out, rc, dpc>>

(* The child reports end-of-stream: the loop ends with RECORD_EOF, the     *)
(* aggregated row is built from every get_result and next() succeeds.     *)
DrainEnd ==
  /\ dpc = "draining"
  /\ pos = Len(rows)
  /\ out' = Append(out, [k \in DOMAIN exprs |-> GetResult(exprs[k], acc[k])])
  /\ rc' = "SUCCESS"
  /\ dpc' = "ready"
  /\ UNCHANGED <<rows, exprs, index_, acc, fed, pos, child, closes>>

(* The child's next() fails: any rc other than RECORD_EOF ends the loop    *)
(* and next() returns INTERNAL.                                            *)
DrainFail_BuildsRow ==
  /\ dpc = "draining"
  /\ ChildMayFail
  /\ child' = "failed"
  /\ out' = Append(out, [k \in DOMAIN exprs |-> GetResult(exprs[k], acc[k])])
  /\ rc' = "SUCCESS"
  /\ dpc' = "ready"
  /\ UNCHANGED <<rows, exprs, index_, acc, fed, pos, closes>>

DrainFail ==
  /\ dpc = "draining"
  /\ ChildMayFail
  /\ child' = "failed"
  /\ rc' = "INTERNAL"
  /\ dpc' = "finished"
  /\ UNCHANGED <<rows, exprs, index_, acc, fed, pos, closes, out>>

(* close(), lines 89-99: the child is closed; a failing close makes the   *)
(* result INTERNAL.                                                        *)
Close ==
  /\ dpc = "finished"
  /\ \E ok \in IF ChildMayFail THEN BOOLEAN ELSE {TRUE} :
       /\ rc' = IF ok THEN "SUCCESS" ELSE "INTERNAL"
       /\ child' = IF ok THEN "closed" ELSE "close_failed"
  /\ closes' = closes + 1
  /\ dpc' = "closed"
  /\ UNCHANGED <<rows, exprs, index_, acc, fed, pos, out>>

-----------------------------------------------------------------------------
Init ==
  /\ rows \in UNION {[1 .. n -> Vals] : n \in 0 .. MaxRows}
  /\ exprs \in UNION {[1 .. n -> AggrKinds] : n \in 1 .. MaxExprs}
  /\ index_ = 0
  /\ acc = [k \in DOMAIN exprs |-> EmptyAcc]
  /\ fed = <<>>
  /\ pos = 0
  /\ child = "idle"
  /\ closes = 0
  /\ out = <<>>
  /\ rc = "SUCCESS"
  /\ dpc = "start"

Next == Open \/ NextBegin \/ DrainRow \/ DrainEnd \/ DrainFail \/ Close

(* The executor drives the operator to the end and the operator's steps   *)
(* are synchronous calls: nothing but a failure stops them.                *)
Fairness == WF_vars(Next)

Spec == Init /\ [][Next]_vars /\ Fairness

-----------------------------------------------------------------------------
TypeOK ==
  /\ index_ \in 0 .. 1
  /\ pos \in 0 .. Len(rows)
  /\ IsPrefix(fed, rows)
  /\ child \in {"idle", "open", "failed", "closed", "close_failed"}
  /\ closes \in 0 .. 1
  /\ rc \in {"SUCCESS", "RECORD_EOF", "INTERNAL", "IOERR"}
  /\ dpc \in {"start", "ready", "draining", "finished", "closed"}

(***************************************************************************)
(* Every row next() returns with SUCCESS holds, for each aggregation, its  *)
(* aggregate over ALL the rows the child yielded: rows are fed once each,  *)
(* in order, after the reset, and a child error never yields a row built *)
(* from part of the input (lines 37-86).                                  *)
(***************************************************************************)
ResultMatchesChild ==
  \A k \in DOMAIN out :
    out[k] = [j \in DOMAIN exprs |-> Reference(exprs[j], rows)]

(***************************************************************************)
(* The operator yields at most one row, and after end-of-stream or an     *)
(* error it yields none (lines 30-34: index_ moves past the only child).   *)
(***************************************************************************)
AtMostOneRow ==
  [][Len(out') > Len(out) => out = <<>> /\ rc # "RECORD_EOF"]_vars

(* Every execution ends with the operator closed. *)
Terminates == <>(dpc = "closed")
=============================================================================
