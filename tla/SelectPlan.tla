----------------------------- MODULE SelectPlan -----------------------------
(***************************************************************************)
(* LogicalPlanGenerator (src/observer/sql/optimizer/                        *)
(* logical_plan_generator.cpp): create, which dispatches on the statement  *)
(* type, and create_plan for SELECT, FilterStmt, INSERT, UPDATE, DELETE,   *)
(* CALC and EXPLAIN.                                                       *)
(*                                                                         *)
(* The generator walks the FROM tables left to right.  For every table it  *)
(* builds a table-scan node, pushes into it the WHERE units that compare   *)
(* a column of that table with a literal (erasing them from the           *)
(* statement's FilterStmt while iterating it backwards), collects the      *)
(* aggregation expressions over that table, and joins the scan onto the    *)
(* tree built so far (under the ON condition's predicate node for          *)
(* explicit JOINs).  Finally it wraps the tree in the remaining WHERE       *)
(* predicate, the aggregation node and the projection.                     *)
(*                                                                         *)
(* UPDATE and DELETE scan every user column of their table, writable,      *)
(* under the predicate of ALL their WHERE units (no pushdown); EXPLAIN     *)
(* wraps the plan of its child statement.                                  *)
(*                                                                         *)
(* Data is abstracted to identities: a filter operand is a column of a     *)
(* table or a literal, a select expression is a field or an aggregation    *)
(* over a table.  Every unit and expression carries an id so the model can *)
(* count where it ends up.                                                 *)
(***************************************************************************)
EXTENDS Naturals, Sequences, SequencesExt, FiniteSets, Functions

CONSTANTS
  Tables,         \* table handles of the database
  NULL,           \* null pointer
  MaxFrom,        \* FROM tables (relations plus JOIN right tables)
  MaxWhere,       \* WHERE comparison units
  MaxExprs,       \* select-list expressions
  RepeatedTables, \* whether a FROM list may name a table twice
  OnAnyTable,     \* whether an ON condition may name a table joined later
  MaxExplainFrom  \* FROM tables of a SELECT under EXPLAIN

(* A filter operand (FilterObj): a column of a table, or a literal whose   *)
(* Field is the default one with no table.                                 *)
Attr(t) == [is_attr |-> TRUE, table |-> t]
Literal == [is_attr |-> FALSE, table |-> NULL]

VARIABLES
  stmt,         \* the SelectStmt (tables, join_stmts, query_exprs, where0)
  filter_units, \* select_stmt->filter_stmt()->filter_units(), mutated
  i,            \* index of the FROM table the loop is at (0-based)
  table_oper,   \* unique_ptr<LogicalOperator> table_oper
  aggr_exprs,   \* std::vector<Expression*> aggr_exprs
  plan,         \* logical_operator, the result
  rc,           \* the RC create returns
  pc            \* "create", "tables" (in the SELECT loop), "explain",
                \* "done", "crashed"

vars == <<stmt, filter_units, i, table_oper, aggr_exprs, plan, rc, pc>>

(***************************************************************************)
(* Plan nodes.  Every node has the same fields so that nodes of different  *)
(* kinds are comparable (readonly is the table-scan's flag): units are the ComparisonExprs it evaluates (scan  *)
(* predicates or the predicate node's conjunction), exprs the expressions  *)
(* it holds (scan fields, aggregations, projection list).                  *)
(***************************************************************************)
Node(op, t, units, exprs, children) ==
  [op |-> op, table |-> t, units |-> units, exprs |-> exprs, children |-> children,
   readonly |-> TRUE]

AddChild(parent, child) ==
  IF child = NULL THEN parent
  ELSE [parent EXCEPT !.children = Append(@, child)]

(* create_plan of a FilterStmt: one predicate node holding the AND of all     *)
(* units, or no node at all when there are none.                           *)
PredicateOper(units) ==
  IF units = <<>> THEN NULL ELSE Node("predicate", NULL, units, <<>>, <<>>)

IsJoinByCon == Len(stmt.join_stmts) > 0

(* The pushdown test of the scan loop for a unit whose column is on the    *)
(* left.                                                                   *)
PushLeftAttr(u, t) ==
  u.left.is_attr /\ ~u.right.is_attr /\ u.left.table = t

(* The second disjunct of the test (literal on the left) compares the      *)
(* table name of the LEFT operand, a literal whose Field has no table:     *)
(* table_name() dereferences its null Table* and the process faults.      *)
ReadsLiteralTable(u) == ~u.left.is_attr /\ u.right.is_attr

(* The walk reaches every unit of filter_units, so one literal-on-the-left *)
(* unit makes the loop fault.                                              *)
WalkFaults(units) == \E k \in DOMAIN units : ReadsLiteralTable(units[k])

ScanFor(t, pushed) ==
  Node("scan", t, pushed,
       SelectSeq(stmt.query_exprs, LAMBDA e : e.table = t), <<>>)

(***************************************************************************)
(* The backwards walk over filter_units (lines 147-174) for t's scan.     *)
(* pos is the 1-based position the reverse iterator designates, 0 being   *)
(* rend().  A pushed unit is emplaced into table_scan_exprs and erased    *)
(* through erase(std::next(it).base()), which erases *it; the reverse     *)
(* iterator rebuilt from the result designates the unit before it, as     *)
(* ++it does for a unit that stays.  The result is the units the          *)
(* FilterStmt keeps and the scan's predicates in emplacement order.       *)
(***************************************************************************)
RECURSIVE PushdownWalk_NoErase(_, _, _, _)
PushdownWalk_NoErase(units, pos, t, pushed) ==
  IF pos = 0 THEN [kept |-> units, pushed |-> pushed]
  ELSE IF PushLeftAttr(units[pos], t)
       THEN PushdownWalk_NoErase(units, pos - 1, t, Append(pushed, units[pos]))
       ELSE PushdownWalk_NoErase(units, pos - 1, t, pushed)

RECURSIVE PushdownWalk_SkipAfterErase(_, _, _, _)
PushdownWalk_SkipAfterErase(units, pos, t, pushed) ==
  IF pos <= 0 THEN [kept |-> units, pushed |-> pushed]
  ELSE IF PushLeftAttr(units[pos], t)
       THEN PushdownWalk_SkipAfterErase(RemoveAt(units, pos), pos - 2, t,
                                        Append(pushed, units[pos]))
       ELSE PushdownWalk_SkipAfterErase(units, pos - 1, t, pushed)

RECURSIVE PushdownWalk(_, _, _, _)
PushdownWalk(units, pos, t, pushed) ==
  IF pos = 0 THEN [kept |-> units, pushed |-> pushed]
  ELSE IF PushLeftAttr(units[pos], t)
       THEN PushdownWalk(RemoveAt(units, pos), pos - 1, t, Append(pushed, units[pos]))
       ELSE PushdownWalk(units, pos - 1, t, pushed)

Pushdown(units, t) == PushdownWalk(units, Len(units), t, <<>>)

(* The aggregations of the select list over t (lines 127-133). *)
AggregationsOver_AnyTable(t) ==
  SelectSeq(stmt.query_exprs, LAMBDA e : e.kind = "aggr")

AggregationsOver(t) ==
  SelectSeq(stmt.query_exprs, LAMBDA e : e.kind = "aggr" /\ e.table = t)

JoinOnto(left, right) == Node("join", NULL, <<>>, <<>>, <<left, right>>)

(* Lines 182-212: the first scan is the tree; a later one is joined onto   *)
(* it, and for an explicit JOIN the join is wrapped in the predicate node  *)
(* of its ON condition js.                                                 *)
ComposeJoin_OnRight(tree, scan, js) ==
  CASE tree = NULL -> scan
    [] js # NULL   -> JoinOnto(tree, AddChild(PredicateOper(js.cond), scan))
    [] OTHER       -> JoinOnto(tree, scan)

ComposeJoin(tree, scan, js) ==
  CASE tree = NULL -> scan
    [] js # NULL   -> AddChild(PredicateOper(js.cond), JoinOnto(tree, scan))
    [] OTHER       -> JoinOnto(tree, scan)

(* join_stmts[i - 1] of the code, 1-based here; a JoinStmt whose creation  *)
(* failed is a null pointer in join_stmts.                                 *)
JoinStmtAt(k) == IF k > 0 /\ IsJoinByCon THEN stmt.join_stmts[k] ELSE NULL

NullJoinAt(k) == k > 0 /\ IsJoinByCon /\ stmt.join_stmts[k] = NULL

(***************************************************************************)
(* One iteration of the FROM loop (lines 116-215) for t = tables[i]: the   *)
(* scan's field list, the aggregations over t, the pushdown walk, and the *)
(* join composition.  It completes only when the walk meets no literal on *)
(* the left and the JoinStmt it composes with exists.                     *)
(***************************************************************************)
PlanTable_SkipsTable ==
  /\ pc = "tables"
  /\ i < Len(stmt.tables)
  /\ ~WalkFaults(filter_units)
  /\ ~NullJoinAt(i)
  /\ LET t == stmt.tables[i + 1]
         walk == Pushdown(filter_units, t) IN
     /\ filter_units' = walk.kept
     /\ aggr_exprs' = aggr_exprs \o AggregationsOver(t)
     /\ table_oper' = ComposeJoin(table_oper, ScanFor(t, walk.pushed), JoinStmtAt(i))
  /\ i' = i + 2
  /\ UNCHANGED <<stmt, plan, rc, pc>>

PlanTable ==
  /\ pc = "tables"
  /\ i < Len(stmt.tables)
  /\ ~WalkFaults(filter_units)
  /\ ~NullJoinAt(i)
  /\ LET t == stmt.tables[i + 1]
         walk == Pushdown(filter_units, t) IN
     /\ filter_units' = walk.kept
     /\ aggr_exprs' = aggr_exprs \o AggregationsOver(t)
     /\ table_oper' = ComposeJoin(table_oper, ScanFor(t, walk.pushed), JoinStmtAt(i))
  /\ i' = i + 1
  /\ UNCHANGED <<stmt, plan, rc, pc>>

(* The loop faults: the pushdown test dereferences a literal's null Table* *)
(* (line 157), or join_stmts[i - 1] is null (line 191).                    *)
CrashInFromLoop ==
  /\ pc = "tables"
  /\ i < Len(stmt.tables)
  /\ WalkFaults(filter_units) \/ NullJoinAt(i)
  /\ pc' = "crashed"
  /\ UNCHANGED <<stmt, filter_units, i, table_oper, aggr_exprs, plan, rc>>

(***************************************************************************)
(* Lines 216-269: the remaining WHERE units become one predicate node over *)
(* the joined tree; an aggregation node is interposed iff aggregations     *)
(* were collected; the projection of the original select list is the      *)
(* root.  create_plan returns SUCCESS; an EXPLAIN goes on to wrap it.      *)
(***************************************************************************)
Finish ==
  /\ pc = "tables"
  /\ i = Len(stmt.tables)
  /\ LET predicate_oper == PredicateOper(filter_units)
         below   == IF predicate_oper = NULL THEN table_oper
                    ELSE AddChild(predicate_oper, table_oper)
         project == Node("project", NULL, <<>>, stmt.query_exprs, <<>>)
         aggr    == Node("aggregation", NULL, <<>>, aggr_exprs, <<>>)
     IN plan' = IF aggr_exprs # <<>> THEN AddChild(project, AddChild(aggr, below))
                ELSE AddChild(project, below)
  /\ table_oper' = NULL
  /\ pc' = IF stmt.explain THEN "explain" ELSE "done"
  /\ UNCHANGED <<stmt, filter_units, i, aggr_exprs, rc>>

-----------------------------------------------------------------------------
(* The user columns of t, which the UPDATE and DELETE plans collect from   *)
(* sys_field_num() up to field_num() (lines 326-329, 360-363), as one      *)
(* marker: every user column.                                              *)
UserFields(t) == <<[kind |-> "field", table |-> t, id |-> "*"]>>

(* new TableGetLogicalOperator(table, fields, false/*readonly*/). *)
WritableScan(t) == [Node("scan", t, <<>>, UserFields(t), <<>>) EXCEPT !.readonly = FALSE]

(* Lines 316-352 and 354-383: the modifier node over the predicate node of *)
(* ALL the FilterStmt's units over the scan, or over the scan alone when   *)
(* there are no units.                                                     *)
ModifierPlan(op, t, units) ==
  Node(op, t, <<>>, <<>>,
       <<IF units = <<>> THEN WritableScan(t)
         ELSE AddChild(PredicateOper(units), WritableScan(t))>>)

(* Lines 304-314: the insert node holds the table and a copy of the values. *)
InsertPlan(t, values) == Node("insert", t, <<>>, values, <<>>)

Planned == {"INSERT", "UPDATE", "DELETE", "CALC"}

(***************************************************************************)
(* create (lines 42-80) for a statement planned in one call: INSERT,      *)
(* UPDATE, DELETE, CALC (lines 82-86: the expressions are moved out of    *)
(* the statement,                                                          *)
(* which keeps an empty vector), and any other type, which has no plan    *)
(* and returns UNIMPLENMENT.  An EXPLAIN of a failed child returns the    *)
(* child's rc with no plan (lines 390-394).                                *)
(***************************************************************************)
CreateOther ==
  /\ pc = "create"
  /\ plan' = CASE stmt.type = "INSERT" -> InsertPlan(stmt.tables[1], stmt.query_exprs)
               [] stmt.type \in {"UPDATE", "DELETE"} ->
                    ModifierPlan(IF stmt.type = "UPDATE" THEN "update" ELSE "delete",
                                 stmt.tables[1], filter_units)
               [] stmt.type = "CALC" -> Node("calc", NULL, <<>>, stmt.query_exprs, <<>>)
               [] OTHER -> NULL
  /\ stmt' = IF stmt.type = "CALC" THEN [stmt EXCEPT !.query_exprs = <<>>] ELSE stmt
  /\ rc' = IF stmt.type \in Planned THEN "SUCCESS" ELSE "UNIMPLENMENT"
  /\ pc' = IF stmt.explain /\ stmt.type \in Planned THEN "explain" ELSE "done"
  /\ UNCHANGED <<filter_units, i, table_oper, aggr_exprs>>

(* Lines 385-399: the explain node adopts the child statement's plan. *)
ExplainWrap ==
  /\ pc = "explain"
  /\ plan' = Node("explain", NULL, <<>>, <<>>, <<plan>>)
  /\ pc' = "done"
  /\ UNCHANGED <<stmt, filter_units, i, table_oper, aggr_exprs, rc>>

-----------------------------------------------------------------------------
(***************************************************************************)
(* The bound SelectStmts the generator can be called with: the shapes      *)
(* SelectStmt::create, JoinStmt::create and FilterStmt::create produce.    *)
(***************************************************************************)
Objs(ts) == {Attr(t) : t \in ts} \cup {Literal}

(* WHERE units over the FROM tables; FilterStmt::create resolves columns   *)
(* against the FROM list only.                                             *)
WhereSeqs(ts) ==
  UNION {{[k \in 1 .. m |-> [left |-> p[k][1], right |-> p[k][2], id |-> <<"where", k>>]]
          : p \in [1 .. m -> Objs(ts) \X Objs(ts)]} : m \in 0 .. MaxWhere}

(* Select lists: SelectStmt::create rejects a mix of plain columns and     *)
(* aggregations without GROUP BY (lines 285-288).                          *)
Queries(ts) ==
  UNION {{[k \in 1 .. m |-> [kind |-> kd, table |-> tt[k], id |-> k]]
          : kd \in {"field", "aggr"}, tt \in [1 .. m -> ts]} : m \in 1 .. MaxExprs}

FromLists ==
  {f \in UNION {[1 .. m -> Tables] : m \in 1 .. MaxFrom} :
     RepeatedTables \/ IsInjective(f)}

(* The ON condition of the k-th JOIN: a column-to-column comparison over   *)
(* the tables joined so far (or any FROM table), or a null JoinStmt when   *)
(* JoinStmt::create failed and SelectStmt::create ignored its rc.          *)
JoinChoices(f, k) ==
  LET scope == IF OnAnyTable THEN Range(f) ELSE {f[x] : x \in 1 .. k + 1}
  IN {NULL} \cup
     {[table |-> f[k + 1],
       cond  |-> <<[left |-> Attr(a), right |-> Attr(b), id |-> <<"on", k>>]>>]
      : a, b \in scope}

JoinLists(f) ==
  {js \in [1 .. Len(f) - 1 -> UNION {JoinChoices(f, k) : k \in 1 .. Len(f) - 1}] :
     \A k \in 1 .. Len(f) - 1 : js[k] \in JoinChoices(f, k)}

(* A bound statement: comma-separated FROM tables, or one relation and a   *)
(* JOIN per further table (SelectStmt::create rejects both at once).       *)
BoundStmt(s) ==
  \E f \in FromLists :
    \E js \in {<<>>} \cup (IF Len(f) > 1 THEN JoinLists(f) ELSE {}) :
      \E q \in Queries(Range(f)), w \in WhereSeqs(Range(f)) :
      \E ex \in IF Len(f) <= MaxExplainFrom THEN BOOLEAN ELSE {FALSE} :
        s = [type |-> "SELECT", explain |-> ex,
             tables |-> f, join_stmts |-> js, query_exprs |-> q, where0 |-> w]

(* The other statements, possibly under EXPLAIN: INSERT of a value, UPDATE *)
(* and DELETE with WHERE units over their table, CALC of an expression,   *)
(* and a statement type create has no plan for (DDL, SHOW, ...).           *)
OtherStmt(s) ==
  \E ty \in Planned \cup {"OTHER"}, t \in Tables, ex \in BOOLEAN :
  \E w \in WhereSeqs({t}) :
    s = [type |-> ty, explain |-> ex,
         tables |-> IF ty \in {"INSERT", "UPDATE", "DELETE"} THEN <<t>> ELSE <<>>,
         join_stmts |-> <<>>,
         query_exprs |-> IF ty \in {"INSERT", "CALC"}
                         THEN <<[kind |-> "value", table |-> NULL, id |-> 1]>> ELSE <<>>,
         where0 |-> IF ty \in {"UPDATE", "DELETE"} THEN w ELSE <<>>]

Init ==
  /\ BoundStmt(stmt) \/ OtherStmt(stmt)
  /\ filter_units = stmt.where0
  /\ i = 0
  /\ table_oper = NULL
  /\ aggr_exprs = <<>>
  /\ plan = NULL
  /\ rc = "SUCCESS"
  /\ pc = IF stmt.type = "SELECT" THEN "tables" ELSE "create"

Next == PlanTable \/ CrashInFromLoop \/ Finish \/ CreateOther \/ ExplainWrap

Spec == Init /\ [][Next]_vars

-----------------------------------------------------------------------------
(* Views of a plan tree.                                                   *)
RECURSIVE NodesOf(_)
NodesOf(n) ==
  IF n = NULL THEN {}
  ELSE {n} \cup UNION {NodesOf(n.children[k]) : k \in DOMAIN n.children}

(* Every ComparisonExpr of the tree, with multiplicity. *)
RECURSIVE UnitsIn(_)
UnitsIn(n) ==
  IF n = NULL THEN <<>>
  ELSE n.units \o FlattenSeq([k \in DOMAIN n.children |-> UnitsIn(n.children[k])])

ScannedTables(n) == {m.table : m \in {x \in NodesOf(n) : x.op = "scan"}}

ColumnTables(u) == {o.table : o \in {x \in {u.left, u.right} : x.is_attr}}

IsWhereUnit(u) == u.id[1] = "where"

(* The tree the generator holds: table_oper while in the loop, the result  *)
(* after it.                                                               *)
Tree == IF pc \in {"explain", "done"} THEN plan ELSE table_oper

(* The SELECT's own plan: the result, or the child of its explain node. *)
SelectRoot == IF stmt.explain THEN plan.children[1] ELSE plan

(* s holds exactly the units of orig (whose ids are distinct), once each. *)
ExactlyOnce(s, orig) == Len(s) = Len(orig) /\ ToSet(s) = ToSet(orig)

Ops == {"scan", "join", "predicate", "aggregation", "project",
        "insert", "update", "delete", "calc", "explain"}

RECURSIVE WellFormed(_)
WellFormed(n) ==
  /\ n.op \in Ops
  /\ n.table \in Tables \cup {NULL}
  /\ DOMAIN n.children = 1 .. Len(n.children)
  /\ \A k \in DOMAIN n.children : WellFormed(n.children[k])

TypeOK ==
  /\ ToSet(stmt.tables) \subseteq Tables
  /\ ToSet(filter_units) \subseteq ToSet(stmt.where0)
  /\ i \in 0 .. Len(stmt.tables)
  /\ table_oper = NULL \/ WellFormed(table_oper)
  /\ plan = NULL \/ WellFormed(plan)
  /\ ToSet(aggr_exprs) \subseteq ToSet(stmt.query_exprs)
  /\ rc \in {"SUCCESS", "UNIMPLENMENT"}
  /\ pc \in {"create", "tables", "explain", "done", "crashed"}

-----------------------------------------------------------------------------
(***************************************************************************)
(* Every WHERE unit is evaluated exactly once: at every step of the FROM   *)
(* loop each unit is either in the statement's FilterStmt (still to be     *)
(* wrapped in the final predicate node) or in exactly one scan, and the    *)
(* finished plan holds each once.  Guards the erase-while-iterating-       *)
(* backwards of lines 147-174 and its interplay with repeated scans.       *)
(***************************************************************************)
WhereUnitsEvaluatedOnce ==
  pc # "crashed" =>
    ExactlyOnce(IF pc \in {"explain", "done"}
                THEN SelectSeq(UnitsIn(plan), IsWhereUnit)
                ELSE SelectSeq(UnitsIn(table_oper), IsWhereUnit) \o filter_units,
                stmt.where0)

(***************************************************************************)
(* Every predicate (scan predicate, ON condition, WHERE conjunction) sits  *)
(* above the scans of all the tables its columns come from, so it is only  *)
(* evaluated once both sides are in scope (lines 182-201, 257-261).        *)
(***************************************************************************)
PredicatesInScope ==
  \A n \in NodesOf(Tree) :
    \A k \in DOMAIN n.units : ColumnTables(n.units[k]) \subseteq ScannedTables(n)

(***************************************************************************)
(* A finished SELECT with aggregations has an aggregation node directly    *)
(* under the projection holding every aggregation of the select list      *)
(* exactly once (the physical operator accumulates and deletes each of     *)
(* them); one without has no aggregation node (lines 119-133, 229-255).    *)
(***************************************************************************)
AggregationsExactlyOnce ==
  pc = "done" /\ stmt.type = "SELECT" =>
    LET aggs  == SelectSeq(stmt.query_exprs, LAMBDA e : e.kind = "aggr")
        below == SelectRoot.children[1]
    IN IF aggs = <<>>
       THEN \A n \in NodesOf(plan) : n.op # "aggregation"
       ELSE below.op = "aggregation" /\ ExactlyOnce(below.exprs, aggs)

(***************************************************************************)
(* Spec section 8: a unit comparing a column of table T with a literal, in *)
(* either orientation, ends up in T's scan (with WhereUnitsEvaluatedOnce,  *)
(* in no other node).  A plan that is done met no literal on the left (the *)
(* walk faults there, NeverFaults), so this is about the backwards walk of *)
(* lines 147-174 reaching, and erasing, every column-on-the-left unit.    *)
(***************************************************************************)
ColumnVersusLiteral(u) == Cardinality({u.left.is_attr, u.right.is_attr}) = 2

PushdownComplete ==
  pc = "done" /\ stmt.type = "SELECT" =>
    \A k \in DOMAIN stmt.where0 :
      LET u == stmt.where0[k] IN
      ColumnVersusLiteral(u) =>
        \E n \in NodesOf(plan) :
          n.op = "scan" /\ n.table \in ColumnTables(u) /\ u \in ToSet(n.units)

(***************************************************************************)
(* What spec section 4.1 says of a SELECT's plan, both at once: every     *)
(* predicate, an explicit JOIN's ON condition included, is evaluated only  *)
(* once both sides are in scope, although JoinStmt::create binds ON        *)
(* against every FROM table (join_stmt.cpp:22) and line 191 composes it   *)
(* at its JOIN's position; and every aggregation is in the aggregation     *)
(* node exactly once, also when a table is repeated in FROM (line 131).    *)
(***************************************************************************)
PlanFollowsSpec == PredicatesInScope /\ AggregationsExactlyOnce

(***************************************************************************)
(* Generating the plan of a statement SelectStmt::create accepted never    *)
(* faults: a WHERE unit with the literal on the left is pushed like the   *)
(* other orientation (spec section 4.1) instead of having its literal's   *)
(* table name read (line 157), and every JoinStmt the generator           *)
(* dereferences (line 191) exists.                                        *)
(***************************************************************************)
NeverFaults == pc # "crashed"
====
