----------------------------- MODULE SqlValues -----------------------------
(***************************************************************************)
(* SQL values, their comparison, three-valued logic, coercion, and the     *)
(* order of index keys (sql/types.rs and the KeyPart type of               *)
(* sql/executor.rs).                                                       *)
(*                                                                         *)
(* A value is its type and a number.  Numbers count halves, so that a      *)
(* FLOAT can lie between two INTEGERs; a BOOLEAN is 0 or 1; a TEXT is its  *)
(* place in the alphabetical order, the empty text being 0.  An INTEGER    *)
(* has 64 bits and a FLOAT is a double, which does not represent every     *)
(* large integer: Rounding is what the conversion makes of those.  NaN and *)
(* negative zero are left out.                                             *)
(***************************************************************************)
EXTENDS Integers

CONSTANT Rounding   \* number of an INTEGER no double represents -> of the nearest one

ASSUME RoundingAssumption ==
  /\ DOMAIN Rounding \subseteq Int
  /\ \A n \in DOMAIN Rounding : Rounding[n] \in Int \ DOMAIN Rounding

DataType == {"Integer", "Float", "Text", "Boolean"}

Null == [type |-> "Null", v |-> 0]
SqlValue == {Null} \union [type : DataType, v : Int]

IntegerValue(n) == [type |-> "Integer", v |-> 2 * n]
FloatValue(halves) == [type |-> "Float", v |-> halves]
TextValue(rank) == [type |-> "Text", v |-> rank]
BooleanValue(b) == [type |-> "Boolean", v |-> IF b THEN 1 ELSE 0]

IsNull(a) == a.type = "Null"

----------------------------------------------------------------------------
(* Types *)

IsCompatibleWith(a, t) ==
  \/ IsNull(a)
  \/ a.type = t
  \/ a.type = "Integer" /\ t = "Float"

\* A number as a double.
AsDouble(a) == IF a.type = "Integer" /\ a.v \in DOMAIN Rounding THEN Rounding[a.v] ELSE a.v

\* coerce_to is defined exactly for the compatible types.
CoerceTo(a, t) == IF IsNull(a) \/ a.type = t THEN a ELSE [type |-> t, v |-> AsDouble(a)]

----------------------------------------------------------------------------
(* Three-valued logic *)

SqlTruth == {"True", "False", "Unknown"}

FromBool(b) == IF b THEN "True" ELSE "False"

AndTruth(p, q) ==
  IF "False" \in {p, q} THEN "False"
  ELSE IF p = "True" /\ q = "True" THEN "True" ELSE "Unknown"

OrTruth(p, q) ==
  IF "True" \in {p, q} THEN "True"
  ELSE IF p = "False" /\ q = "False" THEN "False" ELSE "Unknown"

\* Slip: what is not known to be true is false, and its negation true.
Negate_TwoValued(p) == IF p = "True" THEN "False" ELSE "True"

Negate(p) == [True |-> "False", False |-> "True", Unknown |-> "Unknown"][p]

Truth(a) == IF IsNull(a) THEN "Unknown" ELSE FromBool(a.v # 0)

TruthValue(p) == IF p = "Unknown" THEN Null ELSE BooleanValue(p = "True")

----------------------------------------------------------------------------
(* Comparison *)

ComparisonOp == {"=", "<>", "<", "<=", ">", ">="}

Numeric(a) == a.type \in {"Integer", "Float"}

\* partial_cmp yields an ordering.
Comparable(a, b) == a.type = b.type \/ (Numeric(a) /\ Numeric(b))

\* What it looks at of a, beside b: an integer and a float compare as doubles.
Against(a, b) == IF a.type = b.type THEN a.v ELSE AsDouble(a)

Ordered(a, op, b) ==
  CASE op = "="  -> a = b
    [] op = "<>" -> a # b
    [] op = "<"  -> a < b
    [] op = "<=" -> a <= b
    [] op = ">"  -> a > b
    [] op = ">=" -> a >= b

\* Values that do not compare are different and in no order.
CompareSql(a, op, b) ==
  IF IsNull(a) \/ IsNull(b) THEN "Unknown"
  ELSE FromBool(IF Comparable(a, b) THEN Ordered(Against(a, b), op, Against(b, a))
                ELSE op = "<>")

ReverseComparison(op) ==
  CASE op = "<"  -> ">"
    [] op = "<=" -> ">="
    [] op = ">"  -> "<"
    [] op = ">=" -> "<="
    [] OTHER     -> op

----------------------------------------------------------------------------
(* Index keys: KeyPart::from_value keeps type and number, and the derived  *)
(* order puts the types one after the other.                               *)

KeyRank == [Null |-> 0, Boolean |-> 1, Integer |-> 2, Float |-> 3, Text |-> 4]

CompareKeyPart(a, op, b) ==
  IF a.type = b.type THEN Ordered(a.v, op, b.v)
  ELSE Ordered(KeyRank[a.type], op, KeyRank[b.type])
=============================================================================
