--------------------------- MODULE MCFirestoreQuery ---------------------------
(* Small instances of FirestoreQuery for TLC. *)
EXTENDS FirestoreQuery

Num(k) == [rank |-> Number, key |-> k]

Null == [rank |-> 0, key |-> 0]

List(vs) == [rank |-> Array, key |-> 0, elements |-> vs]

MCStored == {Num(NaN), Num(1), List({Num(1), Num(NaN)})}

Asks(op, v) == [type |-> "field", field |-> "f", op |-> op, value |-> v]

MCFilters ==
  {Asks("NOT_EQUAL", Num(1)), Asks("NOT_IN", List({Null, Num(1)})),
   Asks("ARRAY_CONTAINS_ANY", List({Num(1), Null})),
   [type |-> "and", filters |-> <<Asks("GREATER_THAN", Null), Asks("LESS_THAN_OR_EQUAL", Num(1))>>],
   [type |-> "or", filters |-> <<Asks("EQUAL", Num(1)), Asks("IN", List({Num(1), Num(NaN)}))>>],
   [type |-> "none"]}

By(f, d) == [field |-> f, descending |-> d]

MCOrders == {<<By("f", FALSE)>>, <<By("f", TRUE), By("__name__", TRUE)>>}

MCNames == 1..3
=============================================================================
