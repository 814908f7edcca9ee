----------------------------- MODULE UpdateExec -----------------------------
(***************************************************************************)
(* UpdatePhysicalOperator (src/observer/sql/operator/                      *)
(* update_physical_operator.cpp): sessions executing UPDATE t SET c = val  *)
(* over the same table, each driving its own operator through open, next  *)
(* and close.  The child (a table scan and optional filter) yields the     *)
(* selected rows in order; for each, next() copies the bytes of the new    *)
(* value over the column's region of the row buffer with memmove, twice,   *)
(* between lock() and unlock() of a common::Mutex declared in the loop     *)
(* body.  memmove is modelled byte by byte, one byte per step, so that     *)
(* copies of two sessions interleave as unsynchronized stores do.  The     *)
(* column is a CHARS column of FieldLen bytes; a text value is copied      *)
(* with value_->length() = its strlen, which is at most FieldLen.          *)
(***************************************************************************)
EXTENDS Integers, Sequences, SequencesExt, FiniteSets

CONSTANTS
  Sessions,     \* sessions running an UPDATE
  Rows,         \* row ids of the table, a set of naturals
  Chars,        \* characters of CHARS values
  FieldLen,     \* bytes of the column
  ChildMayFail  \* whether the child's open, next and close may fail

NUL == "NUL"

Bytes == Chars \cup {NUL}

(* Texts of 1 .. FieldLen characters, and a text as a column region.      *)
Texts == UNION {[1 .. n -> Chars] : n \in 1 .. FieldLen}

Stored(s) == [j \in 1 .. FieldLen |-> IF j <= Len(s) THEN s[j] ELSE NUL]

(* What a reader of the column gets: the bytes before the first NUL.     *)
ReadBack(f) ==
  LET nuls == {j \in 1 .. FieldLen : f[j] = NUL}
  IN IF nuls = {} THEN f ELSE SubSeq(f, 1, Min(nuls) - 1)

(* The region after one whole memmove of the text v over it. *)
Overwrite(f, v) == [j \in 1 .. FieldLen |-> IF j <= Len(v) THEN v[j] ELSE f[j]]

VARIABLES
  field,   \* field[r]: the column's bytes in row r's buffer
  orig,    \* the column's bytes before any UPDATE ran (history)
  val,     \* val[s]: value_ of session s's operator
  todo,    \* todo[s]: the rows session s's child has still to yield
  sel,     \* sel[s]: the rows session s's child selects (history)
  pc,      \* pc[s]: where session s is in open / next / close
  cur,     \* cur[s]: the row of the current tuple
  k,       \* k[s]: the next byte memmove copies
  pass,    \* pass[s]: which of the two memmoves is running
  mutex,   \* mutex[s]: the lock_ of session s's current loop iteration
  failed,  \* failed[s]: session s's child reported an error
  res      \* res[s]: the status the executor got for the statement

vars == <<field, orig, val, todo, sel, pc, cur, k, pass, mutex, failed, res>>

MayFail == IF ChildMayFail THEN BOOLEAN ELSE {FALSE}

-----------------------------------------------------------------------------
(* open() (lines 14-30): opens the child and returns its status. *)
Open(s) ==
  /\ pc[s] = "open"
  /\ \E fail \in MayFail :
       /\ pc' = [pc EXCEPT ![s] = IF fail THEN "close" ELSE "next"]
       /\ failed' = [failed EXCEPT ![s] = fail]
       /\ res' = [res EXCEPT ![s] = IF fail THEN "IOERR" ELSE @]
  /\ UNCHANGED <<field, orig, val, todo, sel, cur, k, pass, mutex>>

(* The loop condition child->next() == SUCCESS (line 40) with a tuple:    *)
(* the row of the next selected record.  The tuple is never null here:   *)
(* a scan's current_tuple is its own member.                              *)
ChildNext(s) ==
  /\ pc[s] = "next"
  /\ todo[s] # <<>>
  /\ cur' = [cur EXCEPT ![s] = Head(todo[s])]
  /\ todo' = [todo EXCEPT ![s] = Tail(@)]
  /\ pc' = [pc EXCEPT ![s] = "lock"]
  /\ UNCHANGED <<field, orig, val, sel, k, pass, mutex, failed, res>>

(* child->next() returns anything but SUCCESS: RECORD_EOF when drained,   *)
(* or an error.  Either way the loop ends and next() returns RECORD_EOF   *)
(* (line 66), which the executor takes for the normal end.               *)
ChildEnd(s) ==
  /\ pc[s] = "next"
  /\ \E fail \in MayFail :
       /\ fail \/ todo[s] = <<>>
       /\ failed' = [failed EXCEPT ![s] = @ \/ fail]
  /\ pc' = [pc EXCEPT ![s] = "close"]
  /\ UNCHANGED <<field, orig, val, todo, sel, cur, k, pass, mutex, res>>

(* lock_.lock() (lines 53-54): the mutex is a fresh local of this loop    *)
(* iteration, so nothing but its own holder could block on it.           *)
Lock(s) ==
  /\ pc[s] = "lock"
  /\ ~mutex[s]
  /\ mutex' = [mutex EXCEPT ![s] = TRUE]
  /\ k' = [k EXCEPT ![s] = 1]
  /\ pass' = [pass EXCEPT ![s] = 1]
  /\ pc' = [pc EXCEPT ![s] = "copy"]
  /\ UNCHANGED <<field, orig, val, todo, sel, cur, failed, res>>

(* One byte of memmove(data + offset, value_data, value_->length())       *)
(* (lines 55-57); the second memmove starts over at the first byte.       *)
CopyByte_ExtraPass(s) ==
  /\ pc[s] = "copy"
  /\ field' = [field EXCEPT ![cur[s]][k[s]] = val[s][k[s]]]
  /\ IF k[s] < Len(val[s])
     THEN /\ k' = [k EXCEPT ![s] = @ + 1]
          /\ UNCHANGED <<pass, pc>>
     ELSE IF pass[s] < 3
     THEN /\ k' = [k EXCEPT ![s] = 1]
          /\ pass' = [pass EXCEPT ![s] = @ + 1]
          /\ UNCHANGED pc
     ELSE /\ pc' = [pc EXCEPT ![s] = "unlock"]
          /\ UNCHANGED <<k, pass>>
  /\ UNCHANGED <<orig, val, todo, sel, cur, mutex, failed, res>>

CopyByte_SkipsLast(s) ==
  /\ pc[s] = "copy"
  /\ field' = IF k[s] < Len(val[s])
              THEN [field EXCEPT ![cur[s]][k[s]] = val[s][k[s]]]
              ELSE field
  /\ IF k[s] < Len(val[s])
     THEN /\ k' = [k EXCEPT ![s] = @ + 1]
          /\ UNCHANGED <<pass, pc>>
     ELSE IF pass[s] = 1
     THEN /\ k' = [k EXCEPT ![s] = 1]
          /\ pass' = [pass EXCEPT ![s] = 2]
          /\ UNCHANGED pc
     ELSE /\ pc' = [pc EXCEPT ![s] = "unlock"]
          /\ UNCHANGED <<k, pass>>
  /\ UNCHANGED <<orig, val, todo, sel, cur, mutex, failed, res>>

CopyByte(s) ==
  /\ pc[s] = "copy"
  /\ field' = [field EXCEPT ![cur[s]][k[s]] = val[s][k[s]]]
  /\ IF k[s] < Len(val[s])
     THEN /\ k' = [k EXCEPT ![s] = @ + 1]
          /\ UNCHANGED <<pass, pc>>
     ELSE IF pass[s] = 1
     THEN /\ k' = [k EXCEPT ![s] = 1]
          /\ pass' = [pass EXCEPT ![s] = 2]
          /\ UNCHANGED pc
     ELSE /\ pc' = [pc EXCEPT ![s] = "unlock"]
          /\ UNCHANGED <<k, pass>>
  /\ UNCHANGED <<orig, val, todo, sel, cur, mutex, failed, res>>

(* lock_.unlock() (line 58); rc is still SUCCESS (lines 60-63), so the    *)
(* loop asks the child for the next tuple.                                *)
Unlock(s) ==
  /\ pc[s] = "unlock"
  /\ mutex' = [mutex EXCEPT ![s] = FALSE]
  /\ pc' = [pc EXCEPT ![s] = "next"]
  /\ UNCHANGED <<field, orig, val, todo, sel, cur, k, pass, failed, res>>

(* close() (lines 69-75): closes the child, ignores its status, returns   *)
(* SUCCESS.                                                                *)
Close(s) ==
  /\ pc[s] = "close"
  /\ \E fail \in MayFail : failed' = [failed EXCEPT ![s] = @ \/ fail]
  /\ pc' = [pc EXCEPT ![s] = "done"]
  /\ UNCHANGED <<field, orig, val, todo, sel, cur, k, pass, mutex, res>>

-----------------------------------------------------------------------------
Init ==
  /\ field \in [Rows -> {Stored(t) : t \in Texts}]
  /\ orig = field
  /\ val \in [Sessions -> Texts]
  /\ sel \in [Sessions -> SUBSET Rows]
  /\ todo = [s \in Sessions |-> SetToSortSeq(sel[s], <)]
  /\ pc = [s \in Sessions |-> "open"]
  /\ cur = [s \in Sessions |-> CHOOSE r \in Rows : TRUE]
  /\ k = [s \in Sessions |-> 1]
  /\ pass = [s \in Sessions |-> 1]
  /\ mutex = [s \in Sessions |-> FALSE]
  /\ failed = [s \in Sessions |-> FALSE]
  /\ res = [s \in Sessions |-> "SUCCESS"]

Next ==
  \E s \in Sessions :
    \/ Open(s) \/ ChildNext(s) \/ ChildEnd(s) \/ Lock(s)
    \/ CopyByte(s) \/ Unlock(s) \/ Close(s)

Spec == Init /\ [][Next]_vars

-----------------------------------------------------------------------------
TypeOK ==
  /\ field \in [Rows -> [1 .. FieldLen -> Bytes]]
  /\ \A s \in Sessions :
       /\ pc[s] \in {"open", "next", "lock", "copy", "unlock", "close", "done"}
       /\ k[s] \in 1 .. Len(val[s])
       /\ pass[s] \in 1 .. 2
       /\ res[s] \in {"SUCCESS", "IOERR"}

(***************************************************************************)
(* A statement whose child reported no error leaves, once closed, every   *)
(* row the child yielded with the new value copied over the column and    *)
(* every other row as it was (the loop of lines 40-64).                   *)
(***************************************************************************)
YieldedRowsUpdated ==
  \A s \in Sessions :
    pc[s] = "done" /\ ~failed[s] =>
      \A r \in Rows :
        field[r] = IF r \in sel[s] THEN Overwrite(orig[r], val[s]) ELSE orig[r]

(***************************************************************************)
(* An UPDATE the executor saw succeed had no child error, and every row   *)
(* the child selected reads back as the new value, whatever it held       *)
(* before (next() returns RECORD_EOF only once the child is drained;      *)
(* close() reports a child's close failure: spec sections 3 and 8).       *)
(***************************************************************************)
SuccessMeansUpdated ==
  \A s \in Sessions :
    pc[s] = "done" /\ res[s] = "SUCCESS" =>
      /\ ~failed[s]
      /\ \A r \in sel[s] : ReadBack(field[r]) = val[s]

====
