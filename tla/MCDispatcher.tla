---------------------------- MODULE MCDispatcher ----------------------------
(* The two dispatchers of the program, with one call of each, for TLC. *)
EXTENDS Dispatcher

CONSTANTS push, task

\* internal/pubsub/service.go:44 and internal/cloudtasks/service.go:40.
MCConfig ==
  [c \in {push, task} |->
     IF c = push
       THEN [MaxRetries |-> 3, InitialBackoff |-> 1, Multiplier |-> 2, MaxBackoff |-> 10]
       ELSE [MaxRetries |-> 0, InitialBackoff |-> 0, Multiplier |-> 1, MaxBackoff |-> 0]]
=============================================================================
