---------------------------- MODULE ValueConvert ----------------------------
(***************************************************************************)
(* The conversions of Value (src/observer/sql/parser/value.cpp) that       *)
(* InsertStmt::create applies to the values of an INSERT: the setters, the *)
(* rendering to_string (which get_string returns), get_date, and the C     *)
(* library parsers atoi and atof it hands the rendered text to.            *)
(*                                                                         *)
(* A Value is a record [type, v] as in ValueCompare: INTS v is the int,    *)
(* FLOATS v the float in halves (3 stands for 1.5), BOOLEANS the bool,     *)
(* DATES the packed date (year << 16 | month << 8 | day), CHARS the text,  *)
(* a sequence of one-character strings.                                    *)
(***************************************************************************)
EXTENDS Integers, Sequences

DigitChar == <<"0", "1", "2", "3", "4", "5", "6", "7", "8", "9">>

IsDigit(c) == \E d \in 1 .. 10 : DigitChar[d] = c

DigitOf(c) == CHOOSE d \in 0 .. 9 : DigitChar[d + 1] = c

(* os << n for n >= 0: the decimal digits, most significant first. *)
RECURSIVE Decimal(_)
Decimal(n) ==
  IF n < 10 THEN <<DigitChar[n + 1]>>
  ELSE Decimal(n \div 10) \o <<DigitChar[(n % 10) + 1]>>

Signed(neg, s) == IF neg THEN <<"-">> \o s ELSE s

(* std::setw(w) << std::setfill('0'): left-padded with '0' to w chars. *)
ZeroPad(s, w) == [j \in 1 .. w - Len(s) |-> "0"] \o s

IntText(n) == Signed(n < 0, Decimal(IF n < 0 THEN -n ELSE n))

(* common::double_to_str: "%.2f", then trailing zeros and a trailing '.'  *)
(* dropped; a float of the model is a whole number or one half.           *)
FloatText(h) ==
  LET m == IF h < 0 THEN -h ELSE h
  IN Signed(h < 0, Decimal(m \div 2) \o (IF m % 2 = 1 THEN <<".", "5">> ELSE <<>>))

DateText(d) ==
  ZeroPad(Decimal(d \div 65536), 4) \o <<"-">> \o
  ZeroPad(Decimal((d \div 256) % 256), 2) \o <<"-">> \o ZeroPad(Decimal(d % 256), 2)

(* Value::to_string, which Value::get_string returns. *)
to_string(o) ==
  CASE o.type = "INTS"     -> IntText(o.v)
    [] o.type = "FLOATS"   -> FloatText(o.v)
    [] o.type = "BOOLEANS" -> IF o.v THEN <<"1">> ELSE <<"0">>
    [] o.type = "DATES"    -> DateText(o.v)
    [] o.type = "CHARS"    -> o.v

(* set_int, set_float, set_string: the tag, the member, and length_, which *)
(* is sizeof the member (1 for set_boolean's bool), or the strlen of the  *)
(* text.                                                                   *)
SetInt(n) == [type |-> "INTS", v |-> n]

SetFloat(h) == [type |-> "FLOATS", v |-> h]

SetString(t) == [type |-> "CHARS", v |-> t]

Length(o) ==
  CASE o.type = "CHARS"    -> Len(o.v)
    [] o.type = "BOOLEANS" -> 1
    [] OTHER               -> 4

(* Value::get_date: the member for a DATES value, 0 for every other type. *)
GetDate(o) == IF o.type = "DATES" THEN o.v ELSE 0


-----------------------------------------------------------------------------
(* The leading digits of s, and their value. *)
RECURSIVE DigitRun(_)
DigitRun(s) == IF s # <<>> /\ IsDigit(Head(s)) THEN <<Head(s)>> \o DigitRun(Tail(s)) ELSE <<>>

RECURSIVE DigitsValue(_)
DigitsValue(ds) ==
  IF ds = <<>> THEN 0 ELSE 10 * DigitsValue(SubSeq(ds, 1, Len(ds) - 1)) + DigitOf(ds[Len(ds)])

(* An optional sign, and the rest of the text. *)
IsNeg(s) == s # <<>> /\ Head(s) = "-"

Unsigned(s) == IF s # <<>> /\ Head(s) \in {"-", "+"} THEN Tail(s) ELSE s

(* atoi: an optional sign, then the leading digits; 0 if there are none. *)
Atoi(s) ==
  LET n == DigitsValue(DigitRun(Unsigned(s))) IN IF IsNeg(s) THEN -n ELSE n

(* atof, in halves: an optional sign, digits, then optionally '.' and      *)
(* more digits; 0 if there are no digits.  The texts of the model have no *)
(* fraction or a fraction of one half, so the halves are exact.            *)
Atof(s) ==
  LET u    == Unsigned(s)
      ip   == DigitRun(u)
      rest == SubSeq(u, Len(ip) + 1, Len(u))
      fp   == IF rest # <<>> /\ Head(rest) = "." THEN DigitRun(Tail(rest)) ELSE <<>>
      h    == 2 * DigitsValue(ip) + (2 * DigitsValue(fp)) \div (10 ^ Len(fp))
  IN IF IsNeg(s) THEN -h ELSE h

(* (int) of a float truncates toward zero. *)
Trunc_Floor(h) == h \div 2

Trunc(h) == IF h >= 0 THEN h \div 2 ELSE -((-h) \div 2)

-----------------------------------------------------------------------------
(* Value::get_int: std::stol of a text, which reads like atoi and throws  *)
(* (0) when there is no number; the float truncated; the bool as 0 or 1;  *)
(* the packed date.                                                        *)
GetInt(o) ==
  CASE o.type = "CHARS"    -> Atoi(o.v)
    [] o.type = "INTS"     -> o.v
    [] o.type = "FLOATS"   -> Trunc(o.v)
    [] o.type = "BOOLEANS" -> IF o.v THEN 1 ELSE 0
    [] o.type = "DATES"    -> o.v

(* Value::get_float, in halves: std::stof of a text (0 when it throws),    *)
(* the int or bool widened, and 0 for a date.                              *)
GetFloat(o) ==
  CASE o.type = "CHARS"    -> Atof(o.v)
    [] o.type = "INTS"     -> 2 * o.v
    [] o.type = "FLOATS"   -> o.v
    [] o.type = "BOOLEANS" -> IF o.v THEN 2 ELSE 0
    [] o.type = "DATES"    -> 0

(* Value::get_boolean: a text is true when its stof or stol is non-zero,  *)
(* and otherwise (both zero, or a throw) when it is not empty, so exactly *)
(* when it is not empty; a number or date when it is non-zero (a float    *)
(* of the model is 0 or at least a half, outside EPSILON).                 *)
GetBoolean(o) ==
  CASE o.type = "CHARS"    -> o.v # <<>>
    [] o.type = "BOOLEANS" -> o.v
    [] OTHER               -> o.v # 0
=========================================================================
