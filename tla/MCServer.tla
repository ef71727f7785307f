------------------------------ MODULE MCServer ------------------------------
(* Small instances of Server for TLC. *)
EXTENDS Server

SafetySpec == Init /\ [][Next]_vars
=============================================================================
