------------------------------ MODULE MCStores ------------------------------
(* Small instances of Stores for TLC. *)
EXTENDS Stores, TLC

CONSTANTS p1, p2, t1, t2

Symmetry == Permutations({p1, p2}) \cup Permutations(Services) \cup Permutations({t1, t2})
=============================================================================
