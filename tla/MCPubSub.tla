------------------------------ MODULE MCPubSub ------------------------------
(* Small instances of PubSub for TLC. *)
EXTENDS PubSub, TLC

CONSTANTS t1, t2, s1, s2

\* A request for a pull subscription without a dead letter policy.
PullOn(t, seconds) ==
  [topic |-> t, ackDeadline |-> seconds, push |-> FALSE, dlt |-> NoTopic, maxAttempts |-> 0]

\* A push subscription on t1 that dead-letters to t2 after n attempts.
PushOnT1(n) ==
  [topic |-> t1, ackDeadline |-> 1, push |-> TRUE, dlt |-> t2, maxAttempts |-> n]

\* Pull subscriptions only; s2 leaves the ack deadline to the default and may
\* be recreated on the other topic.
PullConfigs == (s1 :> {PullOn(t1, 1)}) @@ (s2 :> {PullOn(t1, 0), PullOn(t2, 0)})

\* s1 is a push subscription that may be recreated under another policy or as
\* a pull one; s2 reads the dead letters.
PushConfigs ==
  (s1 :> {PushOnT1(1), PushOnT1(2), PullOn(t1, 1)}) @@ (s2 :> {PullOn(t2, 0)})
=============================================================================
