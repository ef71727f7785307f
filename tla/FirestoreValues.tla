--------------------------- MODULE FirestoreValues ----------------------------
(***************************************************************************)
(* How the Firestore emulator compares field values: typeOrder,            *)
(* compareValues and matchesOp of internal/firestore/query.go.             *)
(*                                                                         *)
(* A value is the rank of its type, a key that has the order of the type   *)
(* (for a string the place strings.Compare gives it among the others), and *)
(* the elements when it is an array.                                       *)
(***************************************************************************)
EXTENDS Integers

CONSTANT NaN    \* the key of a double that is not a number

ASSUME NaNAssumption == NaN \notin Int

\* typeOrder: missing, null, boolean, number, timestamp, string, bytes,
\* reference, geo point, array, map, and any other type of value.
Ranks == -1..10
Number == 2
Array == 8

\* Only a number may be NaN.
IsValue(v) ==
  v.rank \in Ranks /\ v.key \in Int \cup {NaN} /\ (v.rank # Number => v.key \in Int)

Cmp(a, b) == IF a < b THEN -1 ELSE IF a > b THEN 1 ELSE 0

CmpFloat(a, b) ==
  IF a = NaN THEN (IF b = NaN THEN 0 ELSE -1) ELSE IF b = NaN THEN 1 ELSE Cmp(a, b)

\* Nulls are alike, and so are any two geo points, arrays, maps or values of
\* the types typeOrder does not know.
CompareValues(a, b) ==
  IF a.rank # b.rank THEN Cmp(a.rank, b.rank)
  ELSE IF a.rank \in {-1, 0} \cup 7..10 THEN 0
  ELSE IF a.rank = Number THEN CmpFloat(a.key, b.key)
  ELSE Cmp(a.key, b.key)

\* The elements of an array; of another value, none.
Elements(v) == IF v.rank = Array THEN v.elements ELSE {}

HasLike(vs, v) == \E w \in vs : CompareValues(w, v) = 0

\* A field's value against the value of a filter.
MatchesOp(v, op, target) ==
  CASE op = "EQUAL"                 -> CompareValues(v, target) = 0
    [] op = "NOT_EQUAL"             -> CompareValues(v, target) # 0
    [] op = "LESS_THAN"             -> CompareValues(v, target) < 0
    [] op = "LESS_THAN_OR_EQUAL"    -> CompareValues(v, target) <= 0
    [] op = "GREATER_THAN"          -> CompareValues(v, target) > 0
    [] op = "GREATER_THAN_OR_EQUAL" -> CompareValues(v, target) >= 0
    [] op = "IN"                    -> HasLike(Elements(target), v)
    [] op = "NOT_IN"                -> ~HasLike(Elements(target), v)
    [] op = "ARRAY_CONTAINS"        -> HasLike(Elements(v), target)
    [] op = "ARRAY_CONTAINS_ANY"    -> \E t \in Elements(target) : HasLike(Elements(v), t)
    [] OTHER                        -> FALSE
=============================================================================
