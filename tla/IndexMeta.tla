----------------------------- MODULE IndexMeta -----------------------------
(***************************************************************************)
(* IndexMeta (storage/index/index_meta.cpp): the metadata of one index, its *)
(* name and the ordered names of its fields.  init builds it, to_json       *)
(* writes it into the table's metadata document and from_json reads it     *)
(* back when the table is opened; field(i), field_num(), fields() and      *)
(* desc() read it.  The callers (the table's create-index and open paths)  *)
(* are not under src/: an index is created on a fresh IndexMeta with       *)
(* fields of its table, and loaded into a fresh one, from the document     *)
(* to_json wrote or from any document the file may hold.  A document is   *)
(* [name, field_names]; JSON text and rendering are abstracted to the     *)
(* values they carry.                                                      *)
(***************************************************************************)
EXTENDS Integers, Sequences, SequencesExt

CONSTANTS
  Names,        \* index names a statement or a document may give
  Blank,        \* the names common::is_blank holds of
  TableFields,  \* the field names of the table (table.field(name) # nullptr)
  FieldNames,   \* names a document may list, TableFields among them
  MaxFields,    \* fields of an index, and names of a document, at most
  NonString,    \* a JSON value that is neither a string nor an array
  Dangling      \* what a read through a pointer to freed storage gives

VARIABLES
  pc,       \* "create", "created", "stored", "loaded"; "refused", "unloaded" on failure
  meta,     \* the IndexMeta the index was created with: [name, fields]
  doc,      \* the index's object in the table's metadata document
  written,  \* whether doc is what to_json wrote
  loaded,   \* the IndexMeta from_json fills
  rc,       \* the status of the last init or from_json
  out       \* what the last accessor returned: [op, val]

vars == <<pc, meta, doc, written, loaded, rc, out>>

Fresh == [name |-> "", fields |-> <<>>]

SeqsUpTo(S, n) == UNION {[1 .. m -> S] : m \in 0 .. n}

Docs ==
  [name : Names \cup {NonString},
   field_names : SeqsUpTo(FieldNames \cup {NonString}, MaxFields) \cup {NonString}]

-----------------------------------------------------------------------------
(* init, lines 26-39: a blank name is refused; otherwise the name is set   *)
(* and the field names are appended to fields_, which is not cleared.      *)
InitRc(name) == IF name \in Blank THEN "INVALID_ARGUMENT" ELSE "SUCCESS"

InitMeta(m, name, fs) ==
  IF name \in Blank THEN m ELSE [name |-> name, fields |-> m.fields \o fs]

(* Creating an index: init on a fresh IndexMeta with fields of the table. *)
Create ==
  /\ pc = "create"
  /\ \E name \in Names, fs \in SeqsUpTo(TableFields, MaxFields) :
       /\ meta' = InitMeta(Fresh, name, fs)
       /\ rc' = InitRc(name)
       /\ pc' = IF InitRc(name) = "SUCCESS" THEN "created" ELSE "refused"
  /\ UNCHANGED <<doc, written, loaded, out>>

(* to_json as it was for a single field_ (the comment at line 117). *)
ToJson_FirstField(m) ==
  [name |-> m.name, field_names |-> IF m.fields = <<>> THEN <<>> ELSE <<m.fields[1]>>]

(* to_json, lines 41-49: the name and the field names, in order. *)
ToJson(m) == [name |-> m.name, field_names |-> m.fields]

Store ==
  /\ pc = "created"
  /\ doc' = ToJson(meta)
  /\ written' = TRUE
  /\ pc' = "stored"
  /\ UNCHANGED <<meta, loaded, rc, out>>

(***************************************************************************)
(* from_json, lines 51-84: the name must be a string and field_names an   *)
(* array; the loop returns at the first element that is not a string      *)
(* (INTERNAL) or not a field of the table (SCHEMA_FIELD_MISSING); then    *)
(* init is called on the target with the name and the fields.             *)
(***************************************************************************)
BadElement_StringOnly(e) == e = NonString

BadElement(e) == e = NonString \/ e \notin TableFields

FirstBad(d) ==
  {x \in DOMAIN d.field_names : BadElement(d.field_names[x])
                                /\ \A y \in 1 .. x - 1 : ~BadElement(d.field_names[y])}

FromJsonRc_SkipsLast(d) ==
  CASE d.name = NonString \/ d.field_names = NonString -> "INTERNAL"
    [] \E x \in FirstBad(d) : x < Len(d.field_names) /\ d.field_names[x] = NonString -> "INTERNAL"
    [] \E x \in FirstBad(d) : x < Len(d.field_names) -> "SCHEMA_FIELD_MISSING"
    [] OTHER -> InitRc(d.name)

FromJsonRc(d) ==
  CASE d.name = NonString \/ d.field_names = NonString -> "INTERNAL"
    [] \E x \in FirstBad(d) : d.field_names[x] = NonString -> "INTERNAL"
    [] FirstBad(d) # {}                                    -> "SCHEMA_FIELD_MISSING"
    [] OTHER                                               -> InitRc(d.name)

(* Opening the table: from_json into a fresh IndexMeta. *)
Load ==
  /\ pc = "stored"
  /\ rc' = FromJsonRc(doc)
  /\ loaded' = IF FromJsonRc(doc) = "SUCCESS"
               THEN InitMeta(Fresh, doc.name, doc.field_names) ELSE Fresh
  /\ pc' = IF FromJsonRc(doc) = "SUCCESS" THEN "loaded" ELSE "unloaded"
  /\ UNCHANGED <<meta, doc, written, out>>

-----------------------------------------------------------------------------
(* The IndexMeta the accessors read: the loaded one once there is one. *)
Current == IF pc = "loaded" THEN loaded ELSE meta

(* field(i), lines 91-97: nullptr outside 0 .. field_num() - 1. *)
FieldAt(m, i) == IF i < 0 \/ i >= Len(m.fields) THEN "nullptr" ELSE m.fields[i + 1]

ReadField ==
  /\ pc \in {"created", "loaded"}
  /\ \E i \in -1 .. MaxFields : out' = [op |-> "field", val |-> FieldAt(Current, i)]
  /\ UNCHANGED <<pc, meta, doc, written, loaded, rc>>

(* field_num(), lines 111-114. *)
ReadFieldNum ==
  /\ pc \in {"created", "loaded"}
  /\ out' = [op |-> "field_num", val |-> Len(Current.fields)]
  /\ UNCHANGED <<pc, meta, doc, written, loaded, rc>>

(***************************************************************************)
(* fields(), lines 99-109, joins the names into a local std::string and   *)
(* returns its c_str(): the storage is released when fields() returns, so *)
(* the caller reads the names if nothing has reused it yet, or whatever   *)
(* reused it.                                                              *)
(***************************************************************************)
ReadFields ==
  /\ pc \in {"created", "loaded"}
  /\ \E v \in {Current.fields, Dangling} : out' = [op |-> "fields", val |-> v]
  /\ UNCHANGED <<pc, meta, doc, written, loaded, rc>>

(* desc(), lines 115-125: the name and the names, written to the stream. *)
ReadDesc ==
  /\ pc \in {"created", "loaded"}
  /\ out' = [op |-> "desc", val |-> Current.fields]
  /\ UNCHANGED <<pc, meta, doc, written, loaded, rc>>

-----------------------------------------------------------------------------
(* The index is created, or the file holds a document written otherwise. *)
Init ==
  /\ meta = Fresh
  /\ loaded = Fresh
  /\ rc = "SUCCESS"
  /\ out = [op |-> "none", val |-> <<>>]
  /\ \/ pc = "create" /\ doc = ToJson(Fresh) /\ written = FALSE
     \/ pc = "stored" /\ doc \in Docs /\ written = FALSE

Next ==
  \/ Create \/ Store \/ Load
  \/ ReadField \/ ReadFieldNum \/ ReadFields \/ ReadDesc

Spec == Init /\ [][Next]_vars

-----------------------------------------------------------------------------
TypeOK ==
  /\ pc \in {"create", "created", "stored", "loaded", "refused", "unloaded"}
  /\ rc \in {"SUCCESS", "INVALID_ARGUMENT", "INTERNAL", "SCHEMA_FIELD_MISSING"}
  /\ meta.fields \in SeqsUpTo(TableFields, MaxFields)
  /\ loaded.fields \in SeqsUpTo(TableFields, MaxFields)
  /\ doc \in Docs

(***************************************************************************)
(* The metadata survives the round trip through the document (spec section *)
(* 6: the name and the ordered field-name list): an index that was created *)
(* and stored is loaded back with its name and its fields in order.        *)
(***************************************************************************)
RoundTrip ==
  written /\ pc \in {"loaded", "unloaded"} => rc = "SUCCESS" /\ loaded = meta

(***************************************************************************)
(* from_json accepts exactly the well-formed documents: a non-blank string *)
(* name and an array of names of the table's fields; what it loads is the  *)
(* document's name and list, and a refused document loads nothing.        *)
(***************************************************************************)
WellFormed(d) ==
  /\ d.name \notin Blank \cup {NonString}
  /\ d.field_names # NonString
  /\ \A x \in DOMAIN d.field_names : d.field_names[x] \in TableFields

FromJsonDecides ==
  pc \in {"loaded", "unloaded"} =>
    IF WellFormed(doc)
    THEN rc = "SUCCESS" /\ loaded = [name |-> doc.name, fields |-> doc.field_names]
    ELSE rc # "SUCCESS" /\ loaded = Fresh

(***************************************************************************)
(* fields() names the index's fields, as desc() lists them.                *)
(***************************************************************************)
FieldsAsDesc ==
  out.op = "fields" => out.val = Current.fields
====
