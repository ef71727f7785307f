----------------------------- MODULE Mailboxes ------------------------------
(***************************************************************************)
(* What the Pub/Sub emulator promises its subscribers: every message of a  *)
(* topic is held by each of the topic's subscriptions, under an ID of its  *)
(* own, until it is acknowledged, or passed on to a dead letter topic, or  *)
(* the subscription is deleted.  Pulls, leases, retries and the rounds of  *)
(* the push loop change nothing of this, and with a data directory neither *)
(* does a restart.  Acknowledgements and ends of the process come from     *)
(* outside: a step cannot take a message away without having been told.    *)
(***************************************************************************)
EXTENDS Naturals, Functions

CONSTANTS
  Topics,        \* topic names
  SubNames,      \* subscription names
  DeletedTopic,  \* the topic of a subscription whose topic was deleted
  NoSub,         \* a name that is not taken
  DataDir        \* whether a data directory is configured

VARIABLES
  topics,        \* the topics there are
  subscriptions, \* each with the topic it is of and its dead letter topic
  held,          \* the payloads a subscription holds, by ID
  last,          \* the last ID given
  event          \* what the last step was told: an acknowledgement, an end

vars == <<topics, subscriptions, held, last, event>>

NoEvent == [kind |-> "none", sub |-> NoSub, ids |-> {}]

Nothing == [i \in {} |-> 0]

Takes(s, t) == subscriptions[s] # NoSub /\ subscriptions[s].topic = t

\* What is held after new messages were sent to the subscriptions of a topic.
Sent(t, new) ==
  [s \in SubNames |->
     IF Takes(s, t)
     THEN [i \in DOMAIN held[s] \cup DOMAIN new |-> IF i \in DOMAIN new THEN new[i] ELSE held[s][i]]
     ELSE held[s]]

Init ==
  /\ topics = {}
  /\ subscriptions = [s \in SubNames |-> NoSub]
  /\ held = [s \in SubNames |-> Nothing]
  /\ last = 0
  /\ event = NoEvent

CreateTopic(t) ==
  /\ t \notin topics
  /\ topics' = topics \cup {t}
  /\ event' = NoEvent
  /\ UNCHANGED <<subscriptions, held, last>>

\* Its subscriptions keep what they hold, and get no more.
DeleteTopic(t) ==
  /\ t \in topics
  /\ topics' = topics \ {t}
  /\ subscriptions' = [s \in SubNames |->
        IF Takes(s, t) THEN [subscriptions[s] EXCEPT !.topic = DeletedTopic]
                       ELSE subscriptions[s]]
  /\ event' = NoEvent
  /\ UNCHANGED <<held, last>>

Subscribe(s) ==
  /\ subscriptions[s] = NoSub
  /\ subscriptions'[s] # NoSub /\ subscriptions'[s].topic \in topics
  /\ subscriptions' = [subscriptions EXCEPT ![s] = subscriptions'[s]]
  /\ held' = [held EXCEPT ![s] = Nothing]
  /\ event' = NoEvent
  /\ UNCHANGED <<topics, last>>

Unsubscribe(s) ==
  /\ subscriptions[s] # NoSub
  /\ subscriptions' = [subscriptions EXCEPT ![s] = NoSub]
  /\ held' = [held EXCEPT ![s] = Nothing]
  /\ event' = NoEvent
  /\ UNCHANGED <<topics, last>>

\* New messages, under the next IDs; the first ID a payload has names it.
Publish(t) ==
  /\ t \in topics
  /\ last' > last
  /\ held' = Sent(t, [i \in (last + 1)..last' |-> i])
  /\ event' = NoEvent
  /\ UNCHANGED <<topics, subscriptions>>

\* The acknowledged messages go, and nothing else.
Acknowledge(s, ids) ==
  /\ event' = [kind |-> "ack", sub |-> s, ids |-> ids]
  /\ held' = [held EXCEPT ![s] = Restrict(@, DOMAIN @ \ ids)]
  /\ UNCHANGED <<topics, subscriptions, last>>

\* A message is passed on with its payload, to a topic that there is.
DeadLetter(s, i) ==
  /\ subscriptions[s] # NoSub /\ subscriptions[s].dlt \in topics
  /\ last' = last + 1
  /\ held' = [Sent(subscriptions[s].dlt, [k \in {last'} |-> held[s][i]])
                EXCEPT ![s] = Restrict(@, DOMAIN @ \ {i})]
  /\ event' = NoEvent
  /\ UNCHANGED <<topics, subscriptions>>

\* Handing messages out, refused pushes and the passing of time.
Work ==
  /\ event' = NoEvent
  /\ UNCHANGED <<topics, subscriptions, held, last>>

Lost ==
  /\ topics' = {}
  /\ subscriptions' = [s \in SubNames |-> NoSub]
  /\ held' = [s \in SubNames |-> Nothing]
  /\ last' = 0

\* The process ends and another one takes over.
Restart ==
  /\ event' = [NoEvent EXCEPT !.kind = "restart"]
  /\ IF DataDir THEN UNCHANGED <<topics, subscriptions, held, last>> ELSE Lost

\* What is not promised: the process ended inside the writing of the file.
Torn ==
  /\ DataDir
  /\ event' = [NoEvent EXCEPT !.kind = "torn"]
  /\ Lost

Next ==
  \/ \E t \in Topics : CreateTopic(t) \/ DeleteTopic(t) \/ Publish(t)
  \/ \E s \in SubNames : Subscribe(s) \/ Unsubscribe(s)
  \/ \E s \in SubNames : \E ids \in SUBSET (1..last) : Acknowledge(s, ids)
  \/ \E s \in SubNames : \E i \in DOMAIN held[s] : DeadLetter(s, i)
  \/ Work \/ Restart \/ Torn

Spec == Init /\ [][Next]_vars
=============================================================================
