------------------------------ MODULE StmtBind ------------------------------
(***************************************************************************)
(* The binders that check a statement against the schema before the plan  *)
(* generator sees it (src/observer/sql/stmt/):                            *)
(*   - InsertStmt::create (insert_stmt.cpp), which checks the values of an *)
(*     INSERT against the table's fields and converts them in place to the *)
(*     field types, one value per loop iteration;                          *)
(*   - AggrStmt::create_aggr_unit (aggregation_stmt.cpp), which            *)
(*     SelectStmt::create calls for every aggregation of the select list, *)
(*     resolving its attributes one per loop iteration with               *)
(*     get_table_and_field2 and adding them with AggrUnit::add_field;    *)
(*   - the select-list loop of SelectStmt::create (select_stmt.cpp), which *)
(*     walks the items from the last to the first, expands the wildcards, *)
(*     resolves the columns and binds the aggregations with the above.    *)
(* A behaviour binds one statement of either kind.                         *)
(***************************************************************************)
EXTENDS Integers, Sequences, SequencesExt, ValueConvert

CONSTANTS
  Literals,     \* Values the parser gives an INSERT
  Fields,       \* fields of the tables, records [type, len]
  MaxValues,    \* values of an INSERT, and fields of its table, at most
  Tables,       \* table names of the database
  TableFields,  \* TableFields[t]: the field names of table t
  FieldNames,   \* names an attribute may give
  MaxAttrs,     \* attributes of an aggregation at most
  MaxItems,     \* items of a select list at most
  Clobbered,    \* texts a released buffer may hold once it is reused
  NULL          \* the null Table* and Field*

BLANK == ""     \* an attribute without a relation name

STAR == "*"

AggrTypes == {"COUNT", "SUM", "AVG", "MAX", "MIN"}

SeqsOf(S, n) == UNION {[1 .. m -> S] : m \in 1 .. n}

Attrs == [rel : {BLANK} \cup Tables, name : FieldNames \cup {STAR}]

VARIABLES
  pc,      \* "insert", "check" (the loop of InsertStmt::create), "select", "aggr", "done"
  rc,      \* the status the binder returned
  schema,  \* the INSERT's table: its fields after the system fields, or NULL
  values,  \* inserts.values, which the loop converts in place
  orig,    \* the values as the parser gave them (history)
  i,       \* the loop index of InsertStmt::create, from 1
  from,    \* the FROM tables of the SELECT, in order
  node,    \* the AggrFuncNode: [type, attrs]
  table,   \* the Table* local of create_aggr_unit, shared by the attributes
  unit,    \* the AggrUnit: [field, star]
  j,       \* the attribute create_aggr_unit resolves next, from 1
  items,   \* select_sql.select_exprs: [kind |-> "attr", attr] or [kind |-> "aggr", node]
  k,       \* the item the select loop binds next, from Len(items) down to 1
  query,   \* query_exprs: the bound columns [kind, table, name]
  num_attr,
  num_aggr

vars == <<pc, rc, schema, values, orig, i, from, node, table, unit, j,
          items, k, query, num_attr, num_aggr>>

insertVars == <<schema, values, orig, i>>

aggrVars == <<from, node, table, unit, j>>

selectVars == <<items, k, query, num_attr, num_aggr>>

Stop(code) == pc' = "done" /\ rc' = code

-----------------------------------------------------------------------------
(* InsertStmt::create, lines 26-48: the table must exist and have as many  *)
(* fields as the INSERT has values.                                        *)
InsertBegin ==
  /\ pc = "insert"
  /\ \/ schema = NULL /\ Stop("SCHEMA_TABLE_NOT_EXIST")
     \/ schema # NULL /\ Len(schema) # Len(values) /\ Stop("SCHEMA_FIELD_MISSING")
     \/ schema # NULL /\ Len(schema) = Len(values) /\ pc' = "check" /\ UNCHANGED rc
  /\ UNCHANGED <<insertVars, aggrVars, selectVars>>

(* Lines 57-89: a value of another type than an INTS or FLOATS field is    *)
(* converted only from the two types of a switch; any other is an error.   *)
(* A CHARS field, and a DATES field, take a value of any type.             *)
Mismatch(ft, vt) ==
  \/ ft = "INTS" /\ vt \notin {"INTS", "FLOATS", "CHARS"}
  \/ ft = "FLOATS" /\ vt \notin {"FLOATS", "INTS", "CHARS"}

(* Lines 57-93: the value converted to the field type ft, in place. *)
Converted(ft, o) ==
  IF ft = o.type THEN o
  ELSE CASE ft = "INTS" /\ o.type = "FLOATS"  -> SetInt(Trunc(o.v))
         [] ft = "INTS" /\ o.type = "CHARS"   -> SetInt(Atoi(to_string(o)))
         [] ft = "FLOATS" /\ o.type = "INTS"  -> SetFloat(2 * o.v)
         [] ft = "FLOATS" /\ o.type = "CHARS" -> SetFloat(Atof(to_string(o)))
         [] ft = "CHARS"                      -> SetString(to_string(o))
         [] OTHER                             -> o

(***************************************************************************)
(* Lines 90-92: the CHARS conversion keeps c_str() of the temporary that   *)
(* get_string() returns, which is destroyed at the end of line 91, and     *)
(* set_string reads it on line 92: it finds the text if nothing has        *)
(* reused the storage yet, or what reused it.                              *)
(***************************************************************************)
ConvertedOutcomes(ft, o) ==
  IF ft = "CHARS" /\ o.type # "CHARS"
  THEN {Converted(ft, o)} \cup {SetString(c) : c \in Clobbered}
  ELSE {Converted(ft, o)}

(***************************************************************************)
(* Lines 95-102: the date and length checks test value_type, the type the *)
(* value had before the conversion (line 55), against the converted       *)
(* value.                                                                  *)
(***************************************************************************)
Checked(fm, vt, cv) ==
  CASE vt = "DATES" /\ GetDate(cv) = 0         -> "VARIABLE_NOT_VALID"
    [] vt = "CHARS" /\ Length(cv) > fm.len     -> "VARIABLE_NOT_VALID"
    [] OTHER                                   -> "SUCCESS"

(* One iteration of the loop, lines 52-103. *)
CheckValue ==
  /\ pc = "check"
  /\ i <= Len(values)
  /\ \E cv \in ConvertedOutcomes(schema[i].type, values[i]) :
     LET fm == schema[i]
         vt == values[i].type
     IN IF Mismatch(fm.type, vt)
        THEN Stop("SCHEMA_FIELD_TYPE_MISMATCH") /\ UNCHANGED <<values, i>>
        ELSE /\ values' = [values EXCEPT ![i] = cv]
             /\ IF Checked(fm, vt, cv) = "SUCCESS"
                THEN i' = i + 1 /\ UNCHANGED <<pc, rc>>
                ELSE Stop(Checked(fm, vt, cv)) /\ UNCHANGED i
  /\ UNCHANGED <<schema, orig, aggrVars, selectVars>>

(* Lines 105-107: every value passed; the InsertStmt is created. *)
InsertDone ==
  /\ pc = "check"
  /\ i > Len(values)
  /\ Stop("SUCCESS")
  /\ UNCHANGED <<insertVars, aggrVars, selectVars>>

-----------------------------------------------------------------------------
(* SelectStmt::create, lines 121-124: the default table of an attribute   *)
(* without a relation name is the only FROM table, else null.             *)
DefaultTable == IF Len(from) = 1 THEN from[1] ELSE NULL

(***************************************************************************)
(* get_table_and_field2, lines 79-88, with tables = the FROM table_map:   *)
(* a relation name the map lacks leaves the Table* reference as it was,   *)
(* which is the table of the previous attribute.                          *)
(***************************************************************************)
LookupTable_FindInDb(a, prev) == IF a.rel = BLANK THEN DefaultTable ELSE a.rel

LookupTable(a, prev) ==
  IF a.rel = BLANK THEN DefaultTable
  ELSE IF a.rel \in Range(from) THEN a.rel
  ELSE prev

(* get_table_and_field2, lines 90-108: the status of the lookup in table *)
(* t, which is '*' or a field of t.                                        *)
ResolveRc(a, t) ==
  CASE t = NULL                                      -> "SCHEMA_TABLE_NOT_EXIST"
    [] a.name # STAR /\ a.name \notin TableFields[t] -> "SCHEMA_FIELD_NOT_EXIST"
    [] OTHER                                         -> "SUCCESS"

(* AggrUnit::is_star (lines 36-39) and AggrUnit::exist (header 29-42). *)
IsStar(f) == f.name = STAR

Exist_FieldNameOnly(f) == unit.field # NULL /\ f.name = unit.field.name

Exist(f) == unit.field # NULL /\ f.table = unit.field.table /\ f.name = unit.field.name

(* AggrUnit::add_field, lines 13-34: its status. *)
AddFieldRc(f) ==
  CASE unit.star                                          -> "INTERNAL"
    [] unit.field = NULL /\ IsStar(f) /\ node.type # "COUNT" -> "INTERNAL"
    [] unit.field = NULL                                  -> "SUCCESS"
    [] Exist(f) /\ node.type \in {"SUM", "AVG"}           -> "SUCCESS"
    [] OTHER                                              -> "INTERNAL"

(* AggrUnit::add_field, lines 13-34: the unit after a successful add. *)
AddedUnit(f) ==
  IF unit.field = NULL THEN [field |-> f, star |-> IsStar(f)] ELSE unit

(***************************************************************************)
(* One iteration of the loop of create_aggr_unit (lines 51-63): resolve   *)
(* the attribute (get_table_and_field2, lines 79-108), then add its Field *)
(* to the unit; any failure returns its status.                            *)
(***************************************************************************)
BindAttr ==
  /\ pc = "aggr"
  /\ j <= Len(node.attrs)
  /\ LET a == node.attrs[j]
         t == LookupTable(a, table)
         f == [table |-> t, name |-> a.name]
     IN CASE ResolveRc(a, t) # "SUCCESS" ->
               \* line 104 resets the reference when the field is missing
               Stop(ResolveRc(a, t)) /\ table' = NULL /\ UNCHANGED <<unit, j>>
          [] AddFieldRc(f) # "SUCCESS" ->
               Stop(AddFieldRc(f)) /\ table' = t /\ UNCHANGED <<unit, j>>
          [] OTHER ->
               /\ table' = t
               /\ unit' = AddedUnit(f)
               /\ j' = j + 1
               /\ UNCHANGED <<pc, rc>>
  /\ UNCHANGED <<from, node, insertVars, selectVars>>

(***************************************************************************)
(* Lines 65-67, then SelectStmt::create lines 134-137: the unit is        *)
(* returned and the select loop appends an AggregationExpr over its field *)
(* (AggrUnit::get_aggr_expr), counts it and goes on with the item before. *)
(***************************************************************************)
AggrDone ==
  /\ pc = "aggr"
  /\ j > Len(node.attrs)
  /\ pc' = "select"
  /\ query' = Append(query, [kind |-> node.type, table |-> unit.field.table,
                             name |-> unit.field.name])
  /\ num_aggr' = num_aggr + 1
  /\ k' = k - 1
  /\ UNCHANGED <<rc, items, num_attr, insertVars, aggrVars>>

-----------------------------------------------------------------------------
(* wildcard_query_exprs, lines 46-53: a FieldExpr for every user field of *)
(* t, in the order of the table's metadata.                                *)
Wildcard(t) ==
  LET fs == SetToSeq(TableFields[t])
  IN [n \in DOMAIN fs |-> [kind |-> "field", table |-> t, name |-> fs[n]]]

(* Lines 152-154 and 167-169: the fields of every FROM table, in order. *)
AllWildcards == FlattenSeq([n \in DOMAIN from |-> Wildcard(from[n])])

(* Lines 187-191: a column without a relation name takes the only FROM    *)
(* table, and none when there are several.                                 *)
ItemTable_FirstTable(a) == IF a.rel = BLANK THEN from[1] ELSE a.rel

ItemTable(a) == IF a.rel = BLANK THEN DefaultTable ELSE a.rel

(* Lines 148-199: the status of a column item: '*' and '*.*' always bind; *)
(* 't.f' and 'f' need a FROM table with field f ('t.*' just the table).  *)
ItemRc(a) ==
  IF a.name = STAR /\ a.rel \in {BLANK, STAR} THEN "SUCCESS"
  ELSE IF a.rel = STAR \/ ItemTable(a) \notin Range(from) THEN "SCHEMA_FIELD_MISSING"
  ELSE IF a.name = STAR \/ a.name \in TableFields[ItemTable(a)] THEN "SUCCESS"
  ELSE "SCHEMA_FIELD_MISSING"

(* Lines 148-199: the query expressions a column item adds. *)
ItemColumns(a) ==
  CASE a.name = STAR /\ a.rel \in {BLANK, STAR} -> AllWildcards
    [] a.name = STAR                          -> Wildcard(a.rel)
    [] OTHER -> <<[kind |-> "field", table |-> ItemTable(a), name |-> a.name]>>

(* Lines 139-201: a column item is counted, then bound or refused. *)
BindColumnItem ==
  /\ pc = "select"
  /\ k >= 1
  /\ items[k].kind = "attr"
  /\ num_attr' = num_attr + 1
  /\ LET a == items[k].attr
     IN IF ItemRc(a) = "SUCCESS"
        THEN query' = query \o ItemColumns(a) /\ k' = k - 1 /\ UNCHANGED <<pc, rc>>
        ELSE Stop(ItemRc(a)) /\ UNCHANGED <<query, k>>
  /\ UNCHANGED <<items, num_aggr, insertVars, aggrVars>>

(* Lines 117-133: an aggregation item is bound by create_aggr_unit, with  *)
(* a fresh unit and Table* local.                                          *)
BindAggrItem ==
  /\ pc = "select"
  /\ k >= 1
  /\ items[k].kind = "aggr"
  /\ pc' = "aggr"
  /\ node' = items[k].node
  /\ table' = NULL
  /\ unit' = [field |-> NULL, star |-> FALSE]
  /\ j' = 1
  /\ UNCHANGED <<rc, from, insertVars, selectVars>>

(* Lines 203-207: with no GROUP BY, columns and aggregations may not be   *)
(* mixed.  The JOIN and WHERE binding after it are SelectPlan's inputs.   *)
SelectDone ==
  /\ pc = "select"
  /\ k = 0
  /\ Stop(IF num_aggr > 0 /\ num_attr > 0 THEN "INVALID_ARGUMENT" ELSE "SUCCESS")
  /\ UNCHANGED <<insertVars, aggrVars, selectVars>>

-----------------------------------------------------------------------------
InsertInit ==
  /\ pc = "insert"
  /\ schema \in SeqsOf(Fields, MaxValues) \cup {NULL}
  /\ values \in SeqsOf(Literals, MaxValues)
  /\ orig = values
  /\ i = 1
  /\ from = <<>>
  /\ items = <<>>
  /\ k = 0

ColumnItems ==
  {[kind |-> "attr", attr |-> a]
     : a \in [rel : {BLANK, STAR} \cup Tables, name : FieldNames \cup {STAR}]}

AggrItems(n) ==
  {[kind |-> "aggr", node |-> nd] : nd \in [type : AggrTypes, attrs : SeqsOf(Attrs, n)]}

(* The FROM list is duplicate-free: table_map keys the tables by name.     *)
(* An aggregation of several attributes is bound as the only item.         *)
SelectInit ==
  /\ pc = "select"
  /\ from \in {s \in SeqsOf(Tables, 2) : IsInjective(s)}
  /\ items \in SeqsOf(ColumnItems \cup AggrItems(1), MaxItems)
               \cup {<<it>> : it \in AggrItems(MaxAttrs)}
  /\ k = Len(items)
  /\ schema = NULL
  /\ values = <<>>
  /\ orig = <<>>
  /\ i = 1

Init == /\ rc = "SUCCESS"
        /\ node = [type |-> "COUNT", attrs |-> <<>>]
        /\ table = NULL
        /\ unit = [field |-> NULL, star |-> FALSE]
        /\ j = 1
        /\ query = <<>>
        /\ num_attr = 0
        /\ num_aggr = 0
        /\ InsertInit \/ SelectInit

Next == \/ InsertBegin \/ CheckValue \/ InsertDone
        \/ BindColumnItem \/ BindAggrItem \/ BindAttr \/ AggrDone \/ SelectDone

Spec == Init /\ [][Next]_vars

-----------------------------------------------------------------------------
(***************************************************************************)
(* What the specification says a bound statement is (sections 3, 6, 7):   *)
(* every attribute resolved to a column of a FROM table, every value of   *)
(* an INSERT of its field's type and, for text, within the field's length; *)
(* differing types are coerced as compare() coerces them: a float         *)
(* truncated toward zero, a text parsed best-effort with 0 on failure.     *)
(***************************************************************************)
Unsign(p) == IF p # <<>> /\ p[1] \in {"-", "+"} THEN Tail(p) ELSE p

Negated(p, n) == IF p # <<>> /\ p[1] = "-" THEN -n ELSE n

NumVal(ds) == FoldLeft(LAMBDA acc, c : 10 * acc + DigitOf(c), 0, ds)

AllDigits(ds) == \A x \in DOMAIN ds : IsDigit(ds[x])

(* An integer numeral: a sign, then one or more digits. *)
IsIntNumeral(p) == Unsign(p) # <<>> /\ AllDigits(Unsign(p))

(* A decimal numeral: a sign, then digits, or digits '.' digits, with at  *)
(* least one digit.                                                        *)
IsDecimalNumeral(p) ==
  LET u == Unsign(p)
  IN \/ IsIntNumeral(p)
     \/ \E x \in DOMAIN u :
          /\ u[x] = "."
          /\ Len(u) > 1
          /\ AllDigits(SubSeq(u, 1, x - 1))
          /\ AllDigits(SubSeq(u, x + 1, Len(u)))

(* The value of a decimal numeral in halves (its fraction is a half or 0). *)
HalvesOf(p) ==
  LET u    == Unsign(p)
      dots == {x \in DOMAIN u : u[x] = "."}
      ip   == IF dots = {} THEN u ELSE SubSeq(u, 1, Min(dots) - 1)
      fp   == IF dots = {} THEN <<>> ELSE SubSeq(u, Min(dots) + 1, Len(u))
  IN Negated(p, 2 * NumVal(ip) + (2 * NumVal(fp)) \div (10 ^ Len(fp)))

(* Best-effort parse: the longest prefix that is a numeral, else none. *)
LongestPrefix(s, IsNumeral(_)) ==
  LET ks == {x \in 1 .. Len(s) : IsNumeral(SubSeq(s, 1, x))}
  IN IF ks = {} THEN <<>> ELSE SubSeq(s, 1, Max(ks))

SpecParseInt(s) ==
  LET p == LongestPrefix(s, IsIntNumeral) IN IF p = <<>> THEN 0 ELSE Negated(p, NumVal(Unsign(p)))

SpecParseHalves(s) ==
  LET p == LongestPrefix(s, IsDecimalNumeral) IN IF p = <<>> THEN 0 ELSE HalvesOf(p)

(* The int nearest zero whose double is within 2 of the halves h. *)
SpecTrunc(h) ==
  CHOOSE n \in -h .. h \cup h .. -h : 2 * n * h >= 0 /\ (2 * n - h) * (2 * n - h) < 4 /\ 4 * n * n <= h * h

(* A value coerced to an INTS or FLOATS field as compare() coerces it. *)
SpecCoerce(ft, o) ==
  CASE o.type = ft                         -> o
    [] ft = "INTS" /\ o.type = "FLOATS"    -> [type |-> "INTS", v |-> SpecTrunc(o.v)]
    [] ft = "INTS" /\ o.type = "CHARS"     -> [type |-> "INTS", v |-> SpecParseInt(o.v)]
    [] ft = "FLOATS" /\ o.type = "INTS"    -> [type |-> "FLOATS", v |-> 2 * o.v]
    [] ft = "FLOATS" /\ o.type = "CHARS"   -> [type |-> "FLOATS", v |-> SpecParseHalves(o.v)]

(* The column an attribute names: a FROM table (the only one when no      *)
(* relation is given) and one of its fields, or '*'; NULL if none.        *)
SpecResolve(a) ==
  LET t == IF a.rel = BLANK THEN IF Len(from) = 1 THEN from[1] ELSE NULL
           ELSE IF a.rel \in Range(from) THEN a.rel ELSE NULL
  IN IF t # NULL /\ (a.name = STAR \/ a.name \in TableFields[t])
     THEN [table |-> t, name |-> a.name] ELSE NULL

-----------------------------------------------------------------------------
(* The Table* local, and the unit's Field, only ever refer to FROM tables. *)
TypeOK ==
  /\ pc \in {"insert", "check", "select", "aggr", "done"}
  /\ rc \in {"SUCCESS", "SCHEMA_TABLE_NOT_EXIST", "SCHEMA_FIELD_MISSING",
             "SCHEMA_FIELD_TYPE_MISMATCH", "VARIABLE_NOT_VALID",
             "SCHEMA_FIELD_NOT_EXIST", "INTERNAL", "INVALID_ARGUMENT"}
  /\ i \in 1 .. Len(values) + 1
  /\ j \in 1 .. Len(node.attrs) + 1
  /\ k \in 0 .. Len(items)
  /\ table \in Range(from) \cup {NULL}
  /\ unit.field \in {NULL} \cup [table : Range(from), name : FieldNames \cup {STAR}]

(***************************************************************************)
(* An INSERT the binder accepts holds, in every INTS and FLOATS field, the *)
(* value the parser gave coerced to the field type by the engine's rules  *)
(* (spec section 3): truncation of a float, best-effort parse of a text.  *)
(* InsertStmt::create converts with (int) get_float(), atoi and atof over *)
(* get_string(), in place, one value per iteration.                       *)
(***************************************************************************)
ConversionFollowsSpec ==
  pc = "done" /\ rc = "SUCCESS" /\ schema # NULL =>
    \A x \in DOMAIN values :
      schema[x].type \in {"INTS", "FLOATS"} => values[x] = SpecCoerce(schema[x].type, orig[x])

(***************************************************************************)
(* Every attribute of an accepted aggregation that names a column names   *)
(* the unit's column: create_aggr_unit accepts SUM(x, y) only if x and y  *)
(* are the same column of the same table (AggrUnit::exist compares the    *)
(* table and the field names).                                             *)
(***************************************************************************)
AttributesAgreeOnField ==
  pc = "done" /\ rc = "SUCCESS" =>
    \A x \in DOMAIN node.attrs : SpecResolve(node.attrs[x]) \in {NULL, unit.field}

(***************************************************************************)
(* The columns a select item names by the specification: '*' (with or     *)
(* without the relation '*') every field of every FROM table, 't.*' those *)
(* of the FROM table t, a column the one it resolves to; an aggregation   *)
(* the column of its attribute; NULL if it names none.                     *)
(***************************************************************************)
SpecItemColumns(it) ==
  IF it.kind = "attr"
  THEN LET a == it.attr
       IN CASE a.name = STAR /\ a.rel \in {BLANK, STAR} -> AllWildcards
            [] a.name = STAR /\ a.rel \in Range(from)      -> Wildcard(a.rel)
            [] a.name # STAR /\ SpecResolve(a) # NULL     ->
                 <<[kind |-> "field", table |-> SpecResolve(a).table, name |-> a.name]>>
            [] OTHER                                       -> NULL
  ELSE LET r == SpecResolve(it.node.attrs[1])
       IN IF r = NULL \/ (r.name = STAR /\ it.node.type # "COUNT") THEN NULL
          ELSE <<[kind |-> it.node.type, table |-> r.table, name |-> r.name]>>

(* A select list mixes columns and aggregations (no GROUP BY is bound). *)
Mixed(its) ==
  \E n, m \in DOMAIN its : its[n].kind = "attr" /\ its[m].kind = "aggr"

(***************************************************************************)
(* An accepted SELECT carries what its select list names, in the written  *)
(* order (spec 4.1: the projection holds the original, unreordered list): *)
(* the parser's select_exprs hold the items last first, and create walks  *)
(* them from the end (line 112), so query_exprs is the items' columns     *)
(* from the last item of select_exprs to the first; columns and           *)
(* aggregations are never mixed.  A wrong default table, a missed          *)
(* wildcard or a walk in the other direction breaks it.                    *)
(***************************************************************************)
SelectListBound ==
  pc = "done" /\ rc = "SUCCESS" /\ items # <<>> =>
    /\ \A n \in DOMAIN items : SpecItemColumns(items[n]) # NULL
    /\ query = FlattenSeq(Reverse([n \in DOMAIN items |-> SpecItemColumns(items[n])]))
    /\ ~Mixed(items)

(***************************************************************************)
(* The binder decides by validity (spec sections 6 and 7).  A statement it *)
(* accepts is what the plan generator is promised: every attribute of an   *)
(* aggregation resolves to a column of a FROM table, and every value of an *)
(* INSERT has its field's type and, for text, fits the field's length;    *)
(* a value stored in a CHARS field is the text of the value the parser    *)
(* gave (spec 4.3: the canonical text form).  A value it refuses as invalid (VARIABLE_NOT_VALID, lines 95-102) is a   *)
(* date out of range, or one whose text is longer than its CHARS column.   *)
(* A select list it refuses has an item that names no column, or an      *)
(* aggregation of other than one attribute, or mixes columns and          *)
(* aggregations; a COUNT of the bare star needs no table, so it is valid  *)
(* over any FROM list.                                                     *)
(***************************************************************************)
SpecItemValid(it) ==
  IF it.kind = "aggr"
  THEN \/ it.node.type = "COUNT" /\ it.node.attrs = <<[rel |-> BLANK, name |-> STAR]>>
       \/ Len(it.node.attrs) = 1 /\ SpecItemColumns(it) # NULL
  ELSE SpecItemColumns(it) # NULL

BinderDecidesOnValidity ==
  /\ pc = "done" /\ rc = "SUCCESS" =>
       /\ \A x \in DOMAIN node.attrs : SpecResolve(node.attrs[x]) # NULL
       /\ schema # NULL =>
            \A x \in DOMAIN values :
              /\ values[x].type = schema[x].type /\ Length(values[x]) <= schema[x].len
              /\ schema[x].type = "CHARS" => values[x] = SetString(to_string(orig[x]))
  /\ pc = "done" /\ rc = "VARIABLE_NOT_VALID" =>
       \/ orig[i].type = "DATES" /\ orig[i].v = 0
       \/ schema[i].type = "CHARS" /\ Len(to_string(orig[i])) > schema[i].len
  /\ pc = "done" /\ rc # "SUCCESS" /\ items # <<>> =>
       \/ \E n \in DOMAIN items : ~SpecItemValid(items[n])
       \/ Mixed(items)
====
