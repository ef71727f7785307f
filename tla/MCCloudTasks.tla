---------------------------- MODULE MCCloudTasks ----------------------------
(* Small instances of CloudTasks for TLC. *)
EXTENDS CloudTasks

\* The full range of backoffs; and a queue that leaves all but the limit to the
\* defaults, so that a doubling passes the limit.
MCConfigs ==
  {[maxAttempts |-> 3, minBackoff |-> 1, maxBackoff |-> 2, maxDoublings |-> 5],
   [maxAttempts |-> 0, minBackoff |-> 0, maxBackoff |-> 1, maxDoublings |-> 1]}

ASSUME MCBackoffs == BackoffsFit
=============================================================================
