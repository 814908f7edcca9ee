# TLA+ models of the miniob2 query core

These modules model the query-compilation and execution core under
`src/observer/`. The core has five parts:

- the logical plan generator, which turns a bound statement into an operator tree;
- the statement binders that produce the bound statements;
- the physical operators, driven by the executor through `open` / `next` / `close`;
- the `Value` scalar and its comparison rules;
- the metadata of an index, which a table writes to and reads from its
  metadata document.

Each module is written from the C++ source and checked with TLC. `PROJECT.json`
holds the following:

- the map from every definition to the source lines it translates;
- the runs;
- the mutants that show each checked property can fail;
- the findings;
- the hazards.

## 1. Inventory of the system

| Part | Source | State it keeps | Operations |
|---|---|---|---|
| Logical plan generator | `sql/optimizer/logical_plan_generator.cpp` | The tree under construction (`table_oper`), the FilterStmt's remaining `filter_units` (erased as they are pushed), `aggr_exprs`, the loop index `i` | `create`, `create_plan` for select / filter / insert / update / delete / explain / calc |
| SELECT / JOIN binding | `sql/stmt/select_stmt.cpp`, `join_stmt.cpp` | The bound statement: tables, join_stmts, query_exprs, filter_stmt; the loop's `num_attr` and `num_aggr` | `SelectStmt::create` (with `wildcard_query_exprs`), `JoinStmt::create` |
| Aggregation binding | `sql/stmt/aggregation_stmt.cpp`, `aggregation_stmt.h` | `AggrUnit` (the expression and its fields), the `Table*` shared across its attributes | `create_aggr_unit`, `add_field`, `get_table_and_field2` |
| INSERT binding | `sql/stmt/insert_stmt.cpp` | The values, converted in place to the field types | `InsertStmt::create` |
| Aggregation operator | `sql/operator/aggr_physical_operatior.cpp` | `index_`, `aggred_tuple_`, the accumulators inside the `AggregationExpr`s | `open`, `next`, `close`, `current_tuple` |
| Update operator | `sql/operator/update_physical_operator.cpp` | The row buffers it writes, the `trx_` it caches | `open`, `next`, `close` |
| Value | `sql/parser/value.cpp` | A tagged union and its length | setters, getters, `to_string`, `compare`, `compare_like`, `compare_not_like` |
| Index metadata | `storage/index/index_meta.cpp` | Index name and field names | `init`, `from_json`, `to_json`, `desc` |

**How the parts interact.**

1. The binders build a `SelectStmt` that holds `JoinStmt`s and a `FilterStmt`.
2. The generator consumes it. For each FROM table it builds a scan. It moves the
   column-versus-literal WHERE units of that table into the scan, erasing them
   from the FilterStmt. It then joins the scan onto the tree and wraps each
   explicit JOIN in the predicate node of its ON condition.
3. What remains of the WHERE clause becomes a predicate node. An aggregation node
   and a projection go on top.
4. The lowered aggregation operator pulls every row of its child once, feeding
   each `AggregationExpr`.
5. The update operator copies the new value's bytes over the column of every row
   its child yields.
6. `Value::compare` decides every comparison a predicate evaluates.

**What is hard in this code**, with the hazards in `PROJECT.json` at their lines:

- erasing from a vector while walking it backwards;
- a pushdown test that reads the wrong operand, through a null `Table*`;
- JOIN clauses paired with FROM positions by index;
- a null `JoinStmt` left behind by an ignored return code;
- aggregation pointers shared between a repeated table's scans;
- a drain loop that a child error can cut short;
- an end-of-stream index that is never reset;
- a close that aggregates or drops child errors;
- a mutex that is a local variable, so two sessions' byte copies interleave
  (spec §5 leaves that to the lock manager);
- a copy length that is the new text's `strlen`;
- a float comparator handed the address of an `int`;
- truncation toward zero;
- a NOT LIKE that inverts a failure sentinel;
- an INSERT length check that reads the type from before conversion;
- a DATES field that accepts a value of any other type;
- an aggregation whose attributes may name different tables, because a
  `Table*` found for one attribute is kept for the next;
- a select list walked from its last item, which only restores the written
  order because the parser lists the items last first;
- `COUNT(*)`, which takes a default table that only exists for one FROM table;
- `to_string` and the getters, which must round-trip (spec §8), but
  `get_date` of the rendered text is 0;
- an INSERT conversion that copies text out of a temporary already destroyed;
- an index's `fields()`, which returns the buffer of a destroyed local;
- an index `from_json` that returns from the middle of its field loop.

**The properties that make each part correct:**

- **Generator:**
  - every WHERE unit is evaluated exactly once;
  - every column-versus-literal unit the walk reaches is pushed into its
    table's scan (spec §8);
  - every aggregation is in the aggregation node exactly once;
  - every predicate, an ON condition included, is above the scans of its
    tables (spec §4.1);
  - a bound statement never makes the generator fault.
- **Aggregation operator:**
  - the one row it returns is the aggregate of all child rows;
  - it returns at most one row;
  - every run ends closed.
- **Binders:**
  - each INSERT value is converted the way the spec's coercion rules say;
  - every field of an aggregation belongs to one table;
  - an accepted select list binds exactly the columns it names, in the
    written order, and never mixes columns with aggregations;
  - the binder decides by validity: an accepted statement resolves every
    attribute and every INSERT value fits its field, and a refused one is
    invalid.
- **Update operator:**
  - exactly the yielded rows change, to the new value;
  - the column reads back as the new value;
  - child errors reach the executor.
- **Value:**
  - `compare` follows the spec's coercion priority (int, then float, then text);
  - LIKE and NOT LIKE on non-text are the 0 sentinel;
  - a value read back through its getter, or through the getter of its
    rendered text, is the value (spec §8's round trip).
- **Index metadata:**
  - a created index is loaded back with its name and fields, in order;
  - `from_json` accepts exactly the well-formed documents and leaves a
    refused target empty;
  - `fields()` names the fields `desc()` lists.

## 2. Modules and how they correspond to the code

### `SelectPlan` (with `MCSelectPlan`)

`LogicalPlanGenerator::create` and `create_plan` for every statement kind:
SELECT (with its FilterStmt), INSERT, UPDATE, DELETE, CALC and EXPLAIN.

**Variables.** They are the generator's locals:

- `filter_units`: the FilterStmt's vector, which the loop erases from;
- `i`;
- `table_oper`;
- `aggr_exprs`;
- `plan`: the returned tree;
- `rc`: the status `create` returns;
- `pc`: create's dispatch, in the FROM loop, wrapping an EXPLAIN, done, or
  crashed.

**Plan nodes.** A node is a record `[op, table, units, exprs, children]` with
the same fields for every node kind, plus `readonly` for scans. `units` are
the comparison units a node evaluates. `exprs` are the scan fields, the
aggregations, the projection list, or the values of an INSERT.

**Actions.**

- `PlanTable` is one whole iteration of the FROM loop, lines 116-215: field
  collection, aggregation collection, pushdown with erase, and join composition.
  The pushdown is `PushdownWalk`, a recursive operator that follows the
  reverse iterator of lines 147-174 position by position: a pushed unit is
  appended to the scan's predicates and erased with
  `erase(std::next(it).base())`, and the rebuilt iterator designates the unit
  before it, as `++it` does for a unit that stays. The walk is sequential
  code in one call, so it is one step of the model.
- `Finish` is lines 216-268.
- `CrashInFromLoop` is the fault of the loop. Two things can cause it:
  - the pushdown test reads `table_name()` of a literal's null table, line 157;
  - the loop dereferences a null `JoinStmt`, line 191.

  `table_name()` reads a member of the null `Table*`, which faults, so an
  iteration that meets a literal on the left (`WalkFaults`) or a null
  `JoinStmt` can only crash: `PlanTable` requires neither.
- `CreateOther` is `create`'s switch, lines 42-86, for the other statements:
  - INSERT: one insert node with the values (`InsertPlan`);
  - UPDATE and DELETE: a writable scan of all user fields, a predicate node
    of every WHERE unit when there are any, and the modifier node on top
    (`ModifierPlan`, `WritableScan`);
  - CALC: the expressions are moved out of the statement into the node;
  - any other type: UNIMPLENMENT.
- `ExplainWrap` is lines 385-399: the child's plan under an explain node.

**Initial states.** The bound statements are generated by `BoundStmt`, which
follows what `SelectStmt::create` and `JoinStmt::create` can produce:

- comma FROM lists, or JOIN lists, never both;
- repeated tables, only when `RepeatedTables` is set;
- ON conditions over the tables joined so far, or, when `OnAnyTable` is set,
  over any table in `table_map`, which is what the code allows;
- a null `JoinStmt` where `JoinStmt::create` failed;
- select lists that are all columns or all aggregations;
- WHERE units column/literal × column/literal;
- an EXPLAIN of any of them, for SELECTs up to `MaxExplainFrom` tables;
- the other statements over one table (`OtherStmt`). Their binders are not
  under `src/`, so these statements are modelled from the spec.

### `AggrExec` (with `MCAggrExec`)

`AggrPhysicalOperator` driven by the executor over one child.

- **Variables.** `index_`, `acc` (the accumulator of each expression), `pos` (the
  rows the child has yielded), `child`, `closes`, `out` (the rows returned with
  SUCCESS), `rc`, and `dpc` (the driver's position in the protocol).
- **Actions.**
  - `Open`: lines 9-23.
  - `NextBegin`: the index check, `index_++` and `begin_aggr`, lines 25-46.
  - `DrainRow`: one iteration of the drain loop.
  - `DrainEnd`: EOF, then the result row, lines 62-86.
  - `DrainFail`: a child error gives INTERNAL.
  - `Close`: lines 89-99.
- **The accumulator.** `AggregationExpr` is not under `src/`. Its
  reset/accumulate/finalize cycle is modelled from the spec. An empty input
  gives the model value `EmptyResult`. `Reference` is the aggregate by its
  definition (a fold of the whole input).
- **No abstract specification.** What the operator promises the executor
  (at most one row, the aggregate of the whole input, then the end of the
  stream and close) is exactly `ResultMatchesChild`, `AtMostOneRow` and
  `Terminates` together. A refinement of an abstract stream would say
  nothing those three do not, so the project checks them directly.

### `UpdateExec` (with `MCUpdateExec`)

`UpdatePhysicalOperator`, for one or more sessions executing an UPDATE of the
same CHARS column. The byte copy is modelled one byte per step, so that two
sessions' copies interleave the way unsynchronized stores do.

**Variables:**

- `field`: the column bytes of each row;
- for each session:
  - the rows its child still has to yield;
  - `cur`: the row of the current tuple;
  - `k`: the byte being copied;
  - `pass`: which of the two memmoves is running;
  - `mutex`: that session's own local `lock_`;
  - whether its child has failed;
  - the status the executor was given.

**Actions:**

- `Open`: lines 14-30.
- `ChildNext`: lines 39-46.
- `ChildEnd`: the loop exits on any status that is not SUCCESS, and the
  operator returns RECORD_EOF, line 66.
- `Lock`: lines 53-54.
- `CopyByte`: lines 55-57.
- `Unlock`: lines 58-63.
- `Close`: lines 69-75.

The sessions and the per-iteration mutex are kept so that two UPDATEs can
be explored, but no run asserts that concurrent copies are untorn: spec
section 5 leaves concurrent writers of one row to the transaction and lock
manager, outside this lock's guarantee. The runs use one session.

### `ValueCompare` (with `MCValueCompare`)

`Value::compare`, `compare_like` and `compare_not_like` as operators, checked
against `SpecCompare`, `SpecLike` and `SpecNotLike`. Those reference
definitions are written from the spec's rules: they parse with their own
numeral grammar and truncate by their own definition.

**Representations:**

- floats are integers counting halves;
- texts are sequences over `- 0 1 a`, in byte order;
- NaN is a model value.

**The float comparison.** The FLOATS branch reads an `int`'s bits as a float.
It is modelled by what those bits are:

- 0 is +0.0;
- a small positive int is a denormal, within EPSILON of 0;
- a negative int is NaN, which `compare_float` reports as equal to everything.

**Two booleans.** `compare_int` reads four bytes at `&bool_value_` (line 224),
but `set_boolean` stores one. The other three bytes are whatever the union
held before, so `CompareOutcomes` lets the result be any order.

**The state machine.** `Evaluate` evaluates one comparison, as the
ComparisonExpr of a WHERE unit does. The state machine only exists to give
TLC states to enumerate.

### `ValueConvert`

A constant module holding the `Value` operations that INSERT binding uses.
A value is a record `[type, v]`, as in `ValueCompare`.

- **Setters.** `SetInt`, `SetFloat` and `SetString` set the tag and the
  member. `Length` is `sizeof` the member: 1 for a bool, 4 for the
  other fixed-size types, and the text's length for CHARS.
- **Rendering.** `to_string` renders a value as the code's ostream does:
  - ints in decimal;
  - floats through `double_to_str`, which drops trailing zeros;
  - dates as `YYYY-MM-DD`, zero-padded;
  - booleans as 1 or 0.
- **Other conversions.**
  - `GetDate` is 0 for any type but DATES.
  - `Trunc` is the `(int)` cast, which truncates toward zero.
  - `Atoi` and `Atof` follow the C library: an optional sign, then the
    leading digits, then 0 if there are none.
  - `GetInt`, `GetFloat` and `GetBoolean` are the getters, lines 341-449:
    a text is parsed, a float truncated, a boolean is 0 or 1, and a text is
    true when it is non-empty.

`ValueCompare` instantiates it as `VC` and checks the spec's round trip:
`RoundTrips(o)` reads every operand back through its getter and through the
getter of its rendered text.

### `StmtBind` (with `MCStmtBind`)

Two binders, one statement per behaviour. `Init` picks either an INSERT or
a SELECT's select list over a FROM list.

**`InsertStmt::create`, lines 24-107.**

- `InsertBegin` is the table check and the value-count check.
- `CheckValue` handles one value per step:
  - an INTS/FLOATS/CHARS mismatch returns SCHEMA_FIELD_TYPE_MISMATCH;
  - otherwise the value is converted in place (`Converted`);
  - then the date check and the length check run (`Checked`).
- `Checked` uses `value_type`, which was read before the conversion.
- The CHARS conversion, lines 90-91, reads `c_str()` of the temporary that
  `get_string()` returned after the temporary is destroyed. That read is
  undefined, so `ConvertedOutcomes` offers the intended text or any text of
  the constant `Clobbered` (the released buffer after reuse); `MCStmtBind`
  gives it the empty text, a buffer whose first byte was overwritten by 0.
- `InsertDone` ends the statement.

**`AggrStmt::create_aggr_unit` as `SelectStmt::create` calls it, lines
13-108.**

- `BindAttr` binds one attribute per step:
  - `LookupTable` picks the default table, a FROM table, or keeps the
    previous `Table*`;
  - `ResolveRc` gives the field lookup's result code;
  - `AddFieldRc` and `AddedUnit` are `AggrUnit::add_field`, with its `*` and
    `exist` rules.
- `AggrDone` returns the unit; the select loop appends its
  `AggregationExpr` and goes on.

**The select-list loop of `SelectStmt::create`, lines 109-207.** The items
are walked from the last to the first (`k` counts down).

- `BindColumnItem` binds a column item:
  - `*` and `*.*` add every field of every FROM table (`AllWildcards`);
  - `t.*` adds the fields of `t` (`Wildcard`);
  - `t.f` and `f` add one column; `f` needs exactly one FROM table
    (`ItemTable`);
  - anything else returns SCHEMA_FIELD_MISSING (`ItemRc`).
- `BindAggrItem` hands an aggregation item to `create_aggr_unit` above.
- `SelectDone` refuses a list that mixes columns and aggregations with
  INVALID_ARGUMENT.

Aggregations of one attribute may be any item. An aggregation of two
attributes is bound as the only item, which keeps the state space small.

**Reference definitions.** These are written from the spec's coercion and
resolution rules, with their own numeral grammar:

- `SpecCoerce` is the value a field of a type should receive.
- `SpecResolve` is the table an attribute should resolve to.
- `SpecItemColumns` is the columns a select item names, and
  `SpecItemValid` says whether it is valid. A `COUNT(*)` is valid over any
  FROM list.

### `IndexMeta` (with `MCIndexMeta`)

`storage/index/index_meta.cpp`: one index's metadata through its life. Its
callers (the table's create-index and open paths) are not under `src/`, so
`Init` is what they do: an index is created on a fresh `IndexMeta`, or the
file holds a document (any of `Docs`, well-formed or not) that is loaded
into a fresh one.

- **Variables.** `pc` (the stage), `meta` (the created `IndexMeta`), `doc`
  (the index object in the table's JSON document, abstracted to its name and
  `field_names` or the model value `NonString`), `written`, `loaded`, `rc`,
  and `out`, what the last accessor returned.
- **Actions.**
  - `Create` is `init`, lines 26-39: a blank name is INVALID_ARGUMENT,
    otherwise the names are appended to `fields_` (`InitMeta`).
  - `Store` is `to_json`, lines 41-49.
  - `Load` is `from_json`, lines 51-84: INTERNAL for a name that is not a
    string or a list that is not an array, then the loop returns at the first
    element that is not a string (INTERNAL) or not a field of the table
    (SCHEMA_FIELD_MISSING), else `init` (`FromJsonRc`, `FirstBad`).
  - `ReadField`, `ReadFieldNum`, `ReadDesc` are `field(i)` (nullptr outside
    the range), `field_num()` and `desc()`.
  - `ReadFields` is `fields()`, lines 99-109. It returns `c_str()` of a local
    string destroyed on return; what the caller reads is the names or, once
    the storage is reused, the model value `Dangling`.

`init` never clears `fields_`, so a second `init` on one object would keep
the old fields. No caller reuses an `IndexMeta`, and the model does not
either; the hazard is listed with that note.

## 3. Runs

| Run | Expect | Bounds | What it shows |
|---|---|---|---|
| `select_plan` | pass | 3 tables (symmetric), FROM ≤ 3 distinct, WHERE ≤ 2 units, ≤ 2 select exprs, ON over joined tables, EXPLAIN of one-table SELECTs; INSERT, UPDATE, DELETE, CALC and other statements, each with or without EXPLAIN; 1.26M states, ~1 min | the erase walk evaluates each WHERE unit once and pushes every column-on-the-left unit into its table's scan; each aggregation once |
| `select_spec` | violation | FROM ≤ 3 with repeats, ON over any FROM table, no WHERE | `FROM t1 JOIN t1 ON t1.a = t2.a JOIN t2` wraps the first join in an ON naming `t2`, below `t2`'s scan, and a repeated table's aggregation appears twice (PlanFollowsSpec: PredicatesInScope and AggregationsExactlyOnce, each violated on its own) |
| `select_faults` | violation | 2 tables, 1 WHERE unit | `5 < t.a` makes the pushdown test dereference the literal's null `Table*`, and a JOIN whose ON failed to bind leaves a null `JoinStmt` that is dereferenced (NeverFaults) |
| `aggr_exec` | pass | values {-1, 0, 2}, ≤ 3 rows, ≤ 2 exprs, child may fail; 27,840 states | one row, equal to the reference aggregate; always ends closed |
| `value_integer_rule` | pass | ints {-1, 0, 1, 10}, floats {-1.5, -0.5, 0, 0.5, 1.5}, bools, 2 dates, texts ≤ 2 chars; 2,312 states | the integer rule holds where the int branch or the text branch applies |
| `value_spec` | violation | same | `compare` and NOT LIKE break the spec's rules (FLOATS vs int, bool or text; bool and date operands; NOT LIKE on non-text is 1), and a date does not round-trip through its text (ValueFollowsSpec) |
| `update_exec` | pass | 1 session, 2 rows, a column of 2 bytes, child may fail; 14,112 states | exactly the yielded rows are overwritten with the new bytes |
| `update_spec` | violation | same as `update_exec` | an UPDATE reported as successful can have a hidden child error or leave a shorter text's old tail (SuccessMeansUpdated) |
| `stmt_bind` | pass | INSERT of ≤ 2 values from ints {-1, 100}, floats {-1.5, 1.5}, texts {"1.5", "-1x", "x"}, 2 dates into INTS/FLOATS/DATES fields of 4 bytes and CHARS(2), CHARS(10) fields; select lists of ≤ 2 items (columns, wildcards, aggregations) or one aggregation of ≤ 2 attributes, over FROM lists of ≤ 2 of 3 tables; a clobbered CHARS conversion reads the empty text; 221,883 states | conversions follow the spec; every field of an aggregation is of one table; an accepted select list binds what it names, in order |
| `stmt_invalid` | violation | same | the binders accept statements that should be rejected (an INTS value in a DATES field, "100" in CHAR(2), `SUM(t1.a, t3.a) FROM t1`) and reject valid ones (a date into CHAR(10), `COUNT(*) FROM t1, t2`), and store INT 100 into CHAR(2) as the empty text when the converted temporary is reused (BinderDecidesOnValidity) |
| `index_meta` | pass | names {"", " ", "i1"}, table fields {a, b}, documents listing ≤ 2 of {a, b, c} or a non-string; 371 states | a created index round-trips through its document; `from_json` accepts exactly the well-formed documents |
| `index_fields` | violation | same | `fields()` can return released storage (FieldsAsDesc) |

**Why the bounds are enough.**

- **`select_plan`.** Two WHERE units are the fewest for which the
  erase-while-walking-backwards can skip or repeat a unit: two pushable units
  of one table are adjacent, so skipping the one after an erase shows. Units
  over two or three tables make the walk run for several scans.
- **`select_spec`.** Three FROM positions are the fewest at which an ON
  condition can name a table not yet joined, and a repeat among them
  duplicates an aggregation.
- **`aggr_exec`.** Three rows with negative, zero and positive values tell SUM,
  MAX and MIN apart and include an empty input. Two expressions check that the
  accumulators are independent.
- **`update_exec`.** Two rows separate the yielded rows from the rest. A
  two-byte column is the smallest in which a copy can be torn and a shorter
  value can leave a tail.
- **`stmt_bind`.** The literals cover both truncation directions, a text
  that parses as a float but not as an int, one with trailing garbage, and
  one with no digits. 100 is longer than CHAR(2) once rendered, and a date's
  ten characters fit CHAR(10). Three tables, with a field name shared by two
  of them, are enough for an attribute to name a table not in FROM after one
  that is. Two select items are the fewest that can be reordered or mixed,
  and two FROM tables the fewest for which an unqualified column or
  `COUNT(*)` has no default table.
- **`index_meta`.** Two blank names (empty and a space) and one real one
  exercise `is_blank`. A third document name, `c`, is not a field of the
  table; with lists of two, a bad element can come first or last, so the
  loop's early return is reached both before and after a good name.
- **`value_integer_rule` and the other Value runs.** The values straddle zero,
  which is where truncation and the bit reinterpretation go wrong. The texts
  include parse failures ("a", "-") and multi-digit numerals ("10").

**Fairness.** Only `AggrExec` states liveness (`Terminates`). It assumes weak
fairness of its next-state relation. The justification is that the executor
calls `open` / `next` / `close` synchronously on one thread (spec §5), so
nothing but a failure stops the operator.

**Deadlock checking.** The other modules stop: a plan is built, a comparison is
evaluated, a statement closes. So their runs set `CHECK_DEADLOCK FALSE`.

**Mutants.** Every property of a passing run has a mutant in `PROJECT.json`: a
plausible bug in the mapped code under which TLC finds the property violated.
The mutants are:

- a walk that does not erase;
- a walk that skips the unit after an erase (the off-by-one in the iterator
  arithmetic);
- aggregations collected for every table;
- a loop that skips a table;
- a missed `index_++`;
- a child error treated as EOF;
- a drain loop that skips a row;
- end-of-stream turned into SUCCESS;
- rounding instead of truncation;
- a copy that skips its last byte;
- a third memmove;
- a table lookup that ignores FROM (the `Table*` is always recomputed);
- floor instead of truncation in the `(int)` cast;
- an `exist` test on the field name only;
- an unqualified column bound to the first FROM table when there are several;
- a `to_json` that writes only the first field (as it was for a single field);
- a document check that tests the element type and not the field lookup;
- a `from_json` loop that never reaches its last element.

## 4. What is not modelled, and the plan

**What a further development would take up, in order:**

1. A composition of `SelectPlan` and `AggrExec` for spec §8's `SUM(b) ... WHERE
   a > 1` scenario. The scan there evaluates the pushed units before the
   aggregation drains it.
2. `JoinStmt::create`'s and `FilterStmt::create`'s own name resolution,
   which `SelectPlan` now takes as shapes.

**Not asserted.** The mirror-symmetry of `compare` is not checked: the spec
does not settle it. Untorn rows under concurrent UPDATEs are not asserted
either, since spec §5 leaves concurrent writers to the lock manager.
`OnAnyTable` is TRUE only in `select_spec`, whose ON conditions name any
FROM table as `JoinStmt::create` allows; the passing run keeps ON over the
tables joined so far, so its other properties are checked on plans that
compose.

**Left out:**

- **JSON text of the index document.** `IndexMeta` abstracts the document
  to the values it carries; parsing and writing JSON text is the library's.
- **JOIN and WHERE name resolution.** `SelectPlan` models the shapes these
  binders output instead. Select-list, aggregation and INSERT resolution are
  modelled in `StmtBind`.
- **The rest of `Value`.** `set_data` and `set_value` copy a record's raw
  bytes into the member; `attr_type_to_string` and its inverse only name
  types (an off-by-one makes BOOLEANS print as "unknown"). No modelled
  operation calls them.
- **Two-decimal float rendering.** `double_to_str` keeps two decimals; the
  model's halves cannot show what is lost. It is listed as a hazard.
- **Storage.** Page dirtying, flushing and index maintenance. The spec documents
  the missing index maintenance as a limitation.
- **The `AggregationExpr`, `ComparisonExpr` and `compare_*` comparators.** They
  are not under `src/`. They are modelled from the spec and marked as
  spec-modelled in the map.
