---------------------------- MODULE MCFirestore -----------------------------
(* Small instances of Firestore for TLC. *)
EXTENDS Firestore, TLC

CONSTANTS d1, d2

\* Changes one document and deletes the other.
MCCommits == {<<[doc |-> d1, del |-> FALSE], [doc |-> d2, del |-> TRUE]>>}

\* Requests differ in nothing but their name; no temporal property is checked with it.
CallSymmetry == Permutations(Calls)
=============================================================================
