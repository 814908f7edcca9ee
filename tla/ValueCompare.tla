---------------------------- MODULE ValueCompare ----------------------------
(***************************************************************************)
(* Value::compare, Value::compare_like and Value::compare_not_like        *)
(* (src/observer/sql/parser/value.cpp), against the comparison rules the  *)
(* specification gives for them (spec section 3, "compare(a, b)").        *)
(*                                                                         *)
(* A Value is a record [type, v]:                                          *)
(*   INTS     v is the int,                                                *)
(*   FLOATS   v is the float in halves (v = 3 stands for 1.5), which is    *)
(*            exact for the floats of the model and their differences,     *)
(*            all far above compare_float's EPSILON,                       *)
(*   BOOLEANS v is the bool,                                               *)
(*   DATES    v is the packed date as an int,                              *)
(*   CHARS    v is the text, a sequence of characters of Alphabet.        *)
(* The state machine evaluates one comparison of two operands, as a       *)
(* ComparisonExpr of a WHERE unit does.                                   *)
(***************************************************************************)
EXTENDS Integers, Sequences, FiniteSets

CONSTANTS
  Ints,      \* int values of INTS operands
  Halves,    \* FLOATS operands, in halves
  Dates,     \* packed DATES operands
  Alphabet,  \* characters of CHARS operands (no regex metacharacters)
  MaxText,   \* length of CHARS operands at most
  NaN,       \* the float NaN
  NONE       \* no comparison evaluated yet

(* The setters, getters and rendering of Value. *)
VC == INSTANCE ValueConvert

Texts == UNION {[1 .. n -> Alphabet] : n \in 0 .. MaxText}

Values ==
  {[type |-> "INTS", v |-> n] : n \in Ints} \cup
  {[type |-> "FLOATS", v |-> h] : h \in Halves} \cup
  {[type |-> "BOOLEANS", v |-> b] : b \in BOOLEAN} \cup
  {[type |-> "DATES", v |-> d] : d \in Dates} \cup
  {[type |-> "CHARS", v |-> s] : s \in Texts}

-----------------------------------------------------------------------------
(* The comparators of common/lang/comparator: the sign of the difference; *)
(* compare_float is 0 within EPSILON, hence also when either side is NaN. *)
Sign(x) == IF x > 0 THEN 1 ELSE IF x < 0 THEN -1 ELSE 0

CmpInt(x, y) == Sign(x - y)

CmpFloat(x, y) == IF x = NaN \/ y = NaN THEN 0 ELSE Sign(x - y)

(* Byte order of the characters: '-' 45 < '0' 48 < '1' 49 < 'a' 97. *)
Code(c) == CASE c = "-" -> 45 [] c = "0" -> 48 [] c = "1" -> 49 [] c = "a" -> 97

(* compare_string: strncmp over the common prefix, then the longer wins. *)
RECURSIVE CmpString(_, _)
CmpString(s, t) ==
  CASE s = <<>> /\ t = <<>> -> 0
    [] s = <<>>             -> -1
    [] t = <<>>             -> 1
    [] Head(s) # Head(t)    -> CmpInt(Code(Head(s)), Code(Head(t)))
    [] OTHER                -> CmpString(Tail(s), Tail(t))

(* atoi: an optional '-', then the leading decimal digits; 0 if none. *)
IsDigit(c) == c \in {"0", "1"}

RECURSIVE DigitsValue(_, _)
DigitsValue(s, acc) ==
  IF s = <<>> \/ ~IsDigit(Head(s)) THEN acc
  ELSE DigitsValue(Tail(s), 10 * acc + (IF Head(s) = "1" THEN 1 ELSE 0))

Atoi(s) ==
  IF s # <<>> /\ Head(s) = "-" THEN -DigitsValue(Tail(s), 0) ELSE DigitsValue(s, 0)

(* (int) of a float truncates toward zero. *)
Trunc(h) == IF h >= 0 THEN h \div 2 ELSE -((-h) \div 2)

BoolInt(b) == IF b THEN 1 ELSE 0

-----------------------------------------------------------------------------
(* The int the INTS branch coerces the right operand to (lines 233-251).  *)
IntCoerce_Rounds(o) ==
  CASE o.type = "FLOATS"   -> (o.v + 1) \div 2
    [] o.type = "BOOLEANS" -> BoolInt(o.v)
    [] o.type = "CHARS"    -> Atoi(o.v)
    [] o.type = "INTS"     -> o.v

IntCoerce(o) ==
  CASE o.type = "FLOATS"   -> Trunc(o.v)
    [] o.type = "BOOLEANS" -> BoolInt(o.v)
    [] o.type = "CHARS"    -> Atoi(o.v)
    [] o.type = "INTS"     -> o.v

(***************************************************************************)
(* The FLOATS branch (lines 254-277) stores the coerced right operand in   *)
(* an int and hands its address to compare_float, which reads the int's   *)
(* bits as a float.  For the ints of the model (|n| < 2^23): 0 is +0.0; a *)
(* positive n is the denormal n * 2^-149, within EPSILON of 0 and so      *)
(* compared as 0; a negative n has all exponent bits set and a non-zero   *)
(* mantissa: NaN.  The result is in halves like every float.             *)
(***************************************************************************)
FloatOfIntBits(n) == IF n < 0 THEN NaN ELSE 0

(* Lines 201-310. *)
Compare(a, b) ==
  IF a.type = b.type
  THEN CASE a.type \in {"INTS", "DATES"} -> CmpInt(a.v, b.v)
         [] a.type = "FLOATS"            -> CmpFloat(a.v, b.v)
         [] a.type = "CHARS"             -> CmpString(a.v, b.v)
         [] a.type = "BOOLEANS"          -> CmpInt(BoolInt(a.v), BoolInt(b.v))
  ELSE CASE a.type = "INTS" /\ b.type \in {"FLOATS", "BOOLEANS", "CHARS"} ->
              CmpInt(a.v, IntCoerce(b))
         [] a.type = "FLOATS" /\ b.type \in {"INTS", "BOOLEANS", "CHARS"} ->
              CmpFloat(a.v, FloatOfIntBits(IntCoerce(b)))
         [] a.type = "CHARS" /\ b.type = "INTS"   -> CmpInt(Atoi(a.v), b.v)
         [] a.type = "CHARS" /\ b.type = "FLOATS" -> CmpFloat(2 * Atoi(a.v), b.v)
         [] OTHER                                 -> -1

(***************************************************************************)
(* Two BOOLEANS operands go to compare_int over &bool_value_ (line 224),  *)
(* which reads four bytes of the union: set_boolean (lines 111-116)       *)
(* stores one, and the other three are whatever the union held before.    *)
(* Reading them is undefined, so the result may be any order.            *)
(***************************************************************************)
CompareOutcomes(a, b) ==
  IF a.type = "BOOLEANS" /\ b.type = "BOOLEANS" THEN {-1, 0, 1} ELSE {Compare(a, b)}

(* Lines 315-333: both operands text, the right one a pattern matched     *)
(* against the whole left text; over Alphabet a pattern is literal.       *)
CompareLike(a, b) ==
  IF a.type # "CHARS" \/ b.type # "CHARS" THEN 0
  ELSE IF a.v = b.v THEN 1 ELSE 0

(* Lines 335-339. *)
CompareNotLike(a, b) == IF CompareLike(a, b) = 1 THEN 0 ELSE 1

-----------------------------------------------------------------------------
(***************************************************************************)
(* The rules of the specification.  Differing types: if either side is an *)
(* integer both are compared as ints (float truncated, bool 0/1, text     *)
(* parsed, 0 on failure); else if either is a float both as floats; else  *)
(* if either is text both as text, the other rendered (a bool renders as  *)
(* "1" or "0").  Other combinations are the -1 sentinel.  LIKE and NOT    *)
(* LIKE on a non-text operand are the 0 sentinel.                          *)
(***************************************************************************)
Numeral(p) ==
  LET digits == IF p # <<>> /\ p[1] = "-" THEN Tail(p) ELSE p
  IN digits # <<>> /\ \A k \in DOMAIN digits : digits[k] \in {"0", "1"}

NumeralValue(p) ==
  LET neg    == p[1] = "-"
      digits == IF neg THEN Tail(p) ELSE p
      mag    == LET F[k \in 0 .. Len(digits)] ==
                      IF k = 0 THEN 0
                      ELSE 10 * F[k - 1] + (IF digits[k] = "1" THEN 1 ELSE 0)
                IN F[Len(digits)]
  IN IF neg THEN -mag ELSE mag

(* Best-effort parse: the longest numeral the text starts with, else 0. *)
SpecParse(s) ==
  LET ps == {k \in 1 .. Len(s) : Numeral(SubSeq(s, 1, k))}
  IN IF ps = {} THEN 0
     ELSE NumeralValue(SubSeq(s, 1, CHOOSE k \in ps : \A j \in ps : j <= k))

(* The int nearest to zero among those within one of the float x/2. *)
SpecTrunc(h) == CHOOSE n \in h .. -h \cup -h .. h :
                  /\ h >= 0 => 2 * n \in h - 1 .. h
                  /\ h < 0 => 2 * n \in h .. h + 1

ToInt(o) ==
  CASE o.type = "INTS"     -> o.v
    [] o.type = "FLOATS"   -> SpecTrunc(o.v)
    [] o.type = "BOOLEANS" -> IF o.v THEN 1 ELSE 0
    [] o.type = "CHARS"    -> SpecParse(o.v)

ToHalves(o) ==
  CASE o.type = "FLOATS"   -> o.v
    [] o.type = "BOOLEANS" -> IF o.v THEN 2 ELSE 0
    [] o.type = "CHARS"    -> 2 * SpecParse(o.v)

ToText(o) == IF o.type = "CHARS" THEN o.v ELSE IF o.v THEN <<"1">> ELSE <<"0">>

Types(a, b) == {a.type, b.type}

SpecCompare(a, b) ==
  IF a.type = b.type THEN Compare(a, b)
  ELSE CASE "DATES" \in Types(a, b)    -> -1
         [] "INTS" \in Types(a, b)     -> CmpInt(ToInt(a), ToInt(b))
         [] "FLOATS" \in Types(a, b)   -> CmpFloat(ToHalves(a), ToHalves(b))
         [] OTHER                      -> CmpString(ToText(a), ToText(b))

(* Pairs for which the specification defines an order (not the sentinel). *)
SpecOrdered(a, b) == a.type = b.type \/ "DATES" \notin Types(a, b)

SpecLike(a, b) ==
  IF a.type = "CHARS" /\ b.type = "CHARS" /\ a.v = b.v THEN 1 ELSE 0

SpecNotLike(a, b) ==
  IF a.type = "CHARS" /\ b.type = "CHARS" /\ a.v # b.v THEN 1 ELSE 0

-----------------------------------------------------------------------------
VARIABLES
  left,    \* the left operand of the ComparisonExpr
  right,   \* the right operand
  result   \* NONE, or the results of evaluating it

vars == <<left, right, result>>

Init ==
  /\ left \in Values
  /\ right \in Values
  /\ result = NONE

(* Evaluate the comparison, LIKE and NOT LIKE of the two operands. *)
Evaluate ==
  /\ result = NONE
  /\ \E c \in CompareOutcomes(left, right) :
       result' = [cmp     |-> c,
                  like    |-> CompareLike(left, right),
                  notlike |-> CompareNotLike(left, right)]
  /\ UNCHANGED <<left, right>>

Next == Evaluate

Spec == Init /\ [][Next]_vars

-----------------------------------------------------------------------------
(***************************************************************************)
(* When one operand is an INTS value and the left one is INTS or text,    *)
(* Value::compare orders the pair as the specification's integer rule     *)
(* does: float truncated, bool 0/1, text parsed with atoi (lines 231-253, *)
(* 282-285).                                                               *)
(***************************************************************************)
IntegerRuleFollowsSpec ==
  result # NONE /\ "INTS" \in Types(left, right) /\ left.type \in {"INTS", "CHARS"} =>
    Sign(result.cmp) = Sign(SpecCompare(left, right))

(***************************************************************************)
(* Value::compare orders every pair as the specification's coercion rules *)
(* do (lines 201-310), and LIKE / NOT LIKE match whole texts and are both *)
(* the 0 failure sentinel when an operand is not text (lines 315-339).    *)
(***************************************************************************)
CompareFollowsSpec ==
  result # NONE =>
    /\ SpecOrdered(left, right) => Sign(result.cmp) = Sign(SpecCompare(left, right))
    /\ result.like = SpecLike(left, right)
    /\ result.notlike = SpecNotLike(left, right)
(***************************************************************************)
(* Spec section 8, round trip: for every type set_* then the matching get_* *)
(* returns the value, and for ints, floats and dates to_string then the     *)
(* matching get_* of the text-typed Value returns it too (value.cpp,       *)
(* to_string lines 166-199, get_int 341-370, get_float 372-402,            *)
(* get_boolean 409-449, get_date 451-478).                                 *)
(***************************************************************************)
RoundTrips(o) ==
  LET txt == VC!SetString(VC!to_string(o)) IN
  CASE o.type = "INTS"     -> VC!GetInt(o) = o.v /\ VC!GetInt(txt) = o.v
    [] o.type = "FLOATS"   -> VC!GetFloat(o) = o.v /\ VC!GetFloat(txt) = o.v
    [] o.type = "DATES"    -> VC!GetDate(o) = o.v /\ VC!GetDate(txt) = o.v
    [] o.type = "BOOLEANS" -> VC!GetBoolean(o) = o.v
    [] o.type = "CHARS"    -> VC!to_string(o) = o.v

(***************************************************************************)
(* Value follows the specification: its comparisons obey the coercion      *)
(* rules, and every operand of a comparison round-trips through its       *)
(* getters and its text.                                                   *)
(***************************************************************************)
ValueFollowsSpec ==
  /\ CompareFollowsSpec
  /\ RoundTrips(left) /\ RoundTrips(right)
====
