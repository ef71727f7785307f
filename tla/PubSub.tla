------------------------------- MODULE PubSub -------------------------------
(***************************************************************************)
(* The Pub/Sub emulator: internal/pubsub/store.go (the store) and          *)
(* internal/pubsub/service.go (the RPC handlers that change it, the        *)
(* streaming pulls and the one goroutine that pushes messages to HTTP      *)
(* endpoints).                                                             *)
(*                                                                         *)
(* Every store method runs under one mutex and, when a data directory is   *)
(* configured, ends by writing the whole state to one JSON file, so each   *)
(* method is one step.  The push loop calls the store several times for    *)
(* one round of deliveries; between two of its calls anything may happen.  *)
(*                                                                         *)
(* Message IDs are the numbers the store's counter hands out.  A message   *)
(* is identified in a queue by its ack ID, "subscription:ID": a queue is a *)
(* function from the IDs it holds.  The payload of a message is named by   *)
(* the ID under which it was first published.  A lease is kept as the time *)
(* left until the ack deadline, so that Tick is the only clock.            *)
(***************************************************************************)
EXTENDS Integers, FiniteSets, Functions

CONSTANTS
  Topics,             \* topic names
  SubNames,           \* subscription names
  Streams,            \* StreamingPull calls that may be open at a time
  SubConfigs,         \* the requests CreateSubscription is given, by name
  PullSizes,          \* max_messages of the Pull requests
  AckDeadlines,       \* ack_deadline_seconds of the ModifyAckDeadline requests
  DefaultAckDeadline, \* used for a request without a positive ack deadline
  StreamBatch,        \* messages a StreamingPull takes in one poll
  DeletedTopic,       \* "_deleted-topic_"
  NoTopic,            \* a subscription without a dead letter topic
  NoSub,              \* a name that is not in the subscriptions map
  NoJob,              \* the push loop is not working on a subscription
  DataDir,            \* whether a data directory is configured
  MaxMsgs,            \* bound: the message counter
  MaxPublished,       \* bound: the counter up to which clients publish
  MaxBatch,           \* bound: messages in one Publish request
  AttemptCap,         \* bound: delivery attempts are counted up to here
  MaxCrashes          \* bound: restarts of the process

Ids == 1..MaxMsgs

Message == [data : Ids, delivered : BOOLEAN, ttl : Nat, attempt : 0..AttemptCap]

IsQueue(q) == DOMAIN q \subseteq Ids /\ q \in [DOMAIN q -> Message]

\* One queue per name.
AreQueues(f) ==
  /\ f = [s \in SubNames |-> f[s]]
  /\ \A s \in SubNames : IsQueue(f[s])

SubConfig == [topic : Topics, ackDeadline : Nat, push : BOOLEAN,
              dlt : Topics \cup {NoTopic}, maxAttempts : 0..AttemptCap]

Subscription == [topic : Topics \cup {DeletedTopic}, ackDeadline : Nat \ {0},
                 push : BOOLEAN, dlt : Topics \cup {NoTopic},
                 maxAttempts : 0..AttemptCap]

ASSUME BoundsAssumption ==
  /\ {MaxMsgs, MaxPublished, MaxBatch, MaxCrashes, AttemptCap} \subseteq Nat
  /\ DefaultAckDeadline \in Nat \ {0}

ASSUME RequestAssumption ==
  /\ SubConfigs \in [SubNames -> SUBSET SubConfig]
  /\ AckDeadlines \subseteq Int
  /\ PullSizes \subseteq Nat \ {0} /\ StreamBatch \in Nat \ {0}

ASSUME FlagAssumption == DataDir \in BOOLEAN

PushJobs == [name : SubNames, dlt : Topics \cup {NoTopic},
             maxAttempts : 0..AttemptCap]

ASSUME NamesAssumption ==
  /\ DeletedTopic \notin Topics /\ NoTopic \notin Topics
  /\ NoSub \notin Subscription /\ NoSub \notin SubNames
  /\ NoJob \notin PushJobs

VARIABLES
  topics,        \* the names in Store.topics
  subscriptions, \* Store.subscriptions
  topicSubs,     \* Store.topicSubs: topic -> names of its subscriptions
  messages,      \* Store.messages: subscription -> queue
  msgCounter,    \* Store.msgCounter
  disk,          \* what load() would read from state.json
  streams,       \* the subscription each open StreamingPull was opened on
  round,         \* push loop: subscriptions of this tick still to be visited
  job,           \* push loop: the subscription being worked on
  batch,         \* push loop: its messages still to be dispatched
  crashes,       \* restarts so far
  event          \* history: what the last step was told from outside

storeVars == <<topics, subscriptions, topicSubs, messages, msgCounter>>
pushVars == <<round, job, batch>>
vars == <<storeVars, disk, streams, pushVars, crashes, event>>

-----------------------------------------------------------------------------
(* Queues                                                                  *)

EmptyQueue == [i \in {} |-> 0]

NewMessage(d) == [data |-> d, delivered |-> FALSE, ttl |-> 0, attempt |-> 0]

\* Never handed out, or its ack deadline has passed.
Available(m) == ~m.delivered \/ m.ttl = 0

\* Variant: an expired lease is not noticed.
DeliverableFresh(q) == {i \in DOMAIN q : ~q[i].delivered}

Deliverable(q) == {i \in DOMAIN q : Available(q[i])}

\* The number of digits of a positive number.
Digits(n) == CHOOSE w \in 1..19 : 10^(w - 1) <= n /\ n < 10^w

\* IDs are strings: they are sorted as decimal strings, not as numbers.
IdLess(i, j) ==
  LET k == Digits(i)
      l == Digits(j)
  IN  i # j /\ IF k <= l THEN i * 10^(l - k) <= j ELSE i < j * 10^(k - l)

\* The first n of a set of IDs in string order.
FirstOf(ids, n) == {i \in ids : Cardinality({j \in ids : IdLess(j, i)}) < n}

Without(q, ids) == Restrict(q, DOMAIN q \ ids)

Put(q, new) ==
  [i \in DOMAIN q \cup DOMAIN new |-> IF i \in DOMAIN new THEN new[i] ELSE q[i]]

\* Variant: the default is forgotten.
EffectiveDeadlineUnset(d) == d

EffectiveDeadline(d) == IF d > 0 THEN d ELSE DefaultAckDeadline

Bump(n) == IF n < AttemptCap THEN n + 1 ELSE AttemptCap

Exists(s) == subscriptions[s] # NoSub

-----------------------------------------------------------------------------
(* The file.  persistedMessage has no DeliveryAttempt.                     *)

Unattempted(q) == [i \in DOMAIN q |-> [q[i] EXCEPT !.attempt = 0]]

ImageOf(ts, subs, qs, n) ==
  [topics |-> ts, subscriptions |-> subs,
   messages |-> [s \in SubNames |-> Unattempted(qs[s])], msgCounter |-> n]

\* Variant: the file does not hold the counter.
ImageNoCounter == ImageOf(topics, subscriptions, messages, 0)

Image == ImageOf(topics, subscriptions, messages, msgCounter)

\* No file, or one that does not parse.
NoImage == [topics |-> {}, subscriptions |-> [s \in SubNames |-> NoSub],
            messages |-> [s \in SubNames |-> EmptyQueue], msgCounter |-> 0]

persist == disk' = IF DataDir THEN Image' ELSE disk

\* topicSubs as load() builds it.
Indexed(subs) ==
  [t \in Topics |-> {s \in SubNames : subs[s] # NoSub /\ subs[s].topic = t}]

\* The store load() builds from an image.
load(image) ==
  /\ topics' = image.topics
  /\ subscriptions' = image.subscriptions
  /\ topicSubs' = Indexed(image.subscriptions)
  /\ messages' = image.messages
  /\ msgCounter' = image.msgCounter

-----------------------------------------------------------------------------
(* What a step is told from outside, which decides what it may do: that      *)
(* messages were acknowledged, or how the process ended.                     *)

Event == [kind : {"none", "ack", "restart", "torn"}, sub : SubNames \cup {NoSub}, ids : SUBSET Ids]

NoEvent == [kind |-> "none", sub |-> NoSub, ids |-> {}]

Acked(s, ids) == [kind |-> "ack", sub |-> s, ids |-> ids]

Ends(how) == [NoEvent EXCEPT !.kind = how]

-----------------------------------------------------------------------------
Init ==
  /\ topics = {}
  /\ subscriptions = [s \in SubNames |-> NoSub]
  /\ topicSubs = [t \in Topics |-> {}]
  /\ messages = [s \in SubNames |-> EmptyQueue]
  /\ msgCounter = 0
  /\ disk = NoImage
  /\ streams = [c \in Streams |-> NoSub]
  /\ round = {} /\ job = NoJob /\ batch = {}
  /\ crashes = 0
  /\ event = NoEvent

-----------------------------------------------------------------------------
(* Topics and subscriptions                                                *)

CreateTopic(t) ==
  /\ t \notin topics
  /\ topics' = topics \cup {t}
  /\ UNCHANGED <<subscriptions, topicSubs, messages, msgCounter>>
  /\ persist
  /\ UNCHANGED <<streams, pushVars, crashes>>
  /\ event' = NoEvent

\* The subscriptions of a deleted topic stay, orphaned.
DeleteTopic(t) ==
  /\ t \in topics
  /\ topics' = topics \ {t}
  /\ subscriptions' = [s \in SubNames |->
        IF s \in topicSubs[t] /\ Exists(s)
        THEN [subscriptions[s] EXCEPT !.topic = DeletedTopic]
        ELSE subscriptions[s]]
  /\ topicSubs' = [topicSubs EXCEPT ![t] = {}]
  /\ UNCHANGED <<messages, msgCounter>>
  /\ persist
  /\ UNCHANGED <<streams, pushVars, crashes>>
  /\ event' = NoEvent

CreateSubscription(s, cfg) ==
  /\ ~Exists(s)
  /\ cfg.topic \in topics
  /\ subscriptions' = [subscriptions EXCEPT ![s] =
        [cfg EXCEPT !.ackDeadline = EffectiveDeadline(@)]]
  /\ messages' = [messages EXCEPT ![s] = EmptyQueue]
  /\ topicSubs' = [topicSubs EXCEPT ![cfg.topic] = @ \cup {s}]
  /\ UNCHANGED <<topics, msgCounter>>
  /\ persist
  /\ UNCHANGED <<streams, pushVars, crashes>>
  /\ event' = NoEvent

\* Variant: the topic's set keeps the name.
UnindexedNot(s) == topicSubs

Unindexed(s) ==
  [t \in Topics |->
     IF t = subscriptions[s].topic THEN topicSubs[t] \ {s} ELSE topicSubs[t]]

DeleteSubscription(s) ==
  /\ Exists(s)
  /\ subscriptions' = [subscriptions EXCEPT ![s] = NoSub]
  /\ messages' = [messages EXCEPT ![s] = EmptyQueue]
  /\ topicSubs' = Unindexed(s)
  /\ UNCHANGED <<topics, msgCounter>>
  /\ persist
  /\ UNCHANGED <<streams, pushVars, crashes>>
  /\ event' = NoEvent

-----------------------------------------------------------------------------
(* Messages                                                                *)

\* The queues after the messages "new" were put in every queue of topic t.
FanOut(t, new) ==
  [s \in SubNames |-> IF s \in topicSubs[t] /\ Exists(s)
                      THEN Put(messages[s], new)
                      ELSE messages[s]]

Publish(t, n) ==
  LET ids == (msgCounter + 1)..(msgCounter + n)
  IN  /\ msgCounter + n <= MaxPublished /\ msgCounter + n <= MaxMsgs
      /\ t \in topics
      /\ msgCounter' = msgCounter + n
      /\ messages' = FanOut(t, [i \in ids |-> NewMessage(i)])
      /\ UNCHANGED <<topics, subscriptions, topicSubs>>
      /\ persist
      /\ UNCHANGED <<streams, pushVars, crashes>>
      /\ event' = NoEvent

HandedOut(q, ids, d) ==
  [i \in DOMAIN q |->
     IF i \in ids THEN [q[i] EXCEPT !.delivered = TRUE, !.ttl = d] ELSE q[i]]

\* Variant: a message is gone once it was handed out.
StorePullOnce(s, n) ==
  LET ids == FirstOf(Deliverable(messages[s]), n)
  IN  /\ messages' = [messages EXCEPT ![s] = Without(@, ids)]
      /\ UNCHANGED <<topics, subscriptions, topicSubs, msgCounter>>
      /\ persist

\* Store.Pull: hand out the first n deliverable messages under a new lease.
\* It does not count a delivery attempt.
StorePull(s, n) ==
  LET ids == FirstOf(Deliverable(messages[s]), n)
  IN  /\ messages' = [messages EXCEPT ![s] =
                        HandedOut(@, ids, subscriptions[s].ackDeadline)]
      /\ UNCHANGED <<topics, subscriptions, topicSubs, msgCounter>>
      /\ persist

Pull(s, n) ==
  /\ Exists(s)
  /\ StorePull(s, n)
  /\ UNCHANGED <<streams, pushVars, crashes>>
  /\ event' = NoEvent

\* Variant: an acknowledgement is not written to disk.
StoreAcknowledgeInMemory(s, ids) ==
  /\ messages' = [messages EXCEPT ![s] = Without(@, ids)]
  /\ UNCHANGED <<topics, subscriptions, topicSubs, msgCounter, disk>>

StoreAcknowledge(s, ids) ==
  /\ messages' = [messages EXCEPT ![s] = Without(@, ids)]
  /\ UNCHANGED <<topics, subscriptions, topicSubs, msgCounter>>
  /\ persist

Acknowledge(s, ids) ==
  /\ Exists(s)
  /\ StoreAcknowledge(s, ids)
  /\ event' = Acked(s, ids)
  /\ UNCHANGED <<streams, pushVars, crashes>>

\* A deadline of 0 is a nack; any other one moves the ack deadline, a negative
\* one into the past, and leaves "delivered" as it is.
Modified(m, d) ==
  IF d = 0 THEN [m EXCEPT !.delivered = FALSE, !.ttl = 0]
           ELSE [m EXCEPT !.ttl = IF d > 0 THEN d ELSE 0]

ModifiedQueue(q, ids, d) ==
  [i \in DOMAIN q |-> IF i \in ids THEN Modified(q[i], d) ELSE q[i]]

\* Variant: a nack is not written to disk.
ModifyAckDeadlineInMemory(s, ids, d) ==
  /\ Exists(s)
  /\ messages' = [messages EXCEPT ![s] = ModifiedQueue(@, ids, d)]
  /\ UNCHANGED <<topics, subscriptions, topicSubs, msgCounter, disk>>
  /\ UNCHANGED <<streams, pushVars, crashes>>
  /\ event' = NoEvent

ModifyAckDeadline(s, ids, d) ==
  /\ Exists(s)
  /\ messages' = [messages EXCEPT ![s] = ModifiedQueue(@, ids, d)]
  /\ UNCHANGED <<topics, subscriptions, topicSubs, msgCounter>>
  /\ persist
  /\ UNCHANGED <<streams, pushVars, crashes>>
  /\ event' = NoEvent

-----------------------------------------------------------------------------
(* StreamingPull: checks the subscription once, then polls it by name.     *)

StreamOpen(c, s) ==
  /\ streams[c] = NoSub
  /\ Exists(s) /\ ~subscriptions[s].push
  /\ streams' = [streams EXCEPT ![c] = s]
  /\ UNCHANGED <<storeVars, disk, pushVars, crashes>>
  /\ event' = NoEvent

StreamPoll(c) ==
  /\ streams[c] # NoSub
  /\ Exists(streams[c])
  /\ StorePull(streams[c], StreamBatch)
  /\ UNCHANGED <<streams, pushVars, crashes>>
  /\ event' = NoEvent

\* The client goes away, or a Send fails after a poll.
StreamClose(c) ==
  /\ streams[c] # NoSub
  /\ streams' = [streams EXCEPT ![c] = NoSub]
  /\ UNCHANGED <<storeVars, disk, pushVars, crashes>>
  /\ event' = NoEvent

-----------------------------------------------------------------------------
(* The push loop                                                           *)

PushJob(s) == [name |-> s, dlt |-> subscriptions[s].dlt,
               maxAttempts |-> subscriptions[s].maxAttempts]

\* PushSubscriptions: the list is taken once per tick.
PushTick ==
  /\ round = {} /\ job = NoJob
  /\ round' = {PushJob(s) : s \in {r \in SubNames : Exists(r) /\ subscriptions[r].push}}
  /\ UNCHANGED <<storeVars, disk, streams, job, batch, crashes>>
  /\ event' = NoEvent

\* Variant: the attempt is counted on a copy.
AttemptedCopy(q, ids) == q

Attempted(q, ids) ==
  [i \in DOMAIN q |->
     IF i \in ids THEN [q[i] EXCEPT !.attempt = Bump(@)] ELSE q[i]]

\* PullAllUndelivered: lease all deliverable messages and count an attempt.
\* The lease is not written to disk.
PushPull(j) ==
  LET s == j.name
      ids == Deliverable(messages[s])
  IN  /\ job = NoJob
      /\ round' = round \ {j}
      /\ IF Exists(s) /\ ids # {}
         THEN /\ messages' = [messages EXCEPT ![s] =
                    Attempted(HandedOut(@, ids, subscriptions[s].ackDeadline), ids)]
              /\ batch' = {[id |-> i, data |-> messages[s][i].data,
                            attempt |-> Bump(messages[s][i].attempt)] : i \in ids}
              /\ job' = j
         ELSE UNCHANGED <<messages, batch, job>>
      /\ UNCHANGED <<topics, subscriptions, topicSubs, msgCounter>>
      /\ UNCHANGED <<disk, streams, crashes>>
      /\ event' = NoEvent

\* Dispatch reported the delivery of m a success: acknowledge it.
AutoAck(m) ==
  IF Exists(job.name) THEN StoreAcknowledge(job.name, {m.id})
                      ELSE UNCHANGED <<storeVars, disk>>

\* Variant: the dead letter topic may be gone.
ForwardableAnywhere(s, i) ==
  Exists(s) /\ subscriptions[s].dlt # NoTopic /\ i \in DOMAIN messages[s]

\* The early returns of ForwardToDeadLetter.
Forwardable(s, i) ==
  /\ Exists(s)
  /\ subscriptions[s].dlt # NoTopic
  /\ i \in DOMAIN messages[s]
  /\ subscriptions[s].dlt \in topics

\* ForwardToDeadLetter of message i of s, by the subscription as it is now.
ForwardToDeadLetter(s, i) ==
  IF Forwardable(s, i)
  THEN LET id   == msgCounter + 1
           copy == [k \in {id} |-> NewMessage(messages[s][i].data)]
           sent == FanOut(subscriptions[s].dlt, copy)
       IN  /\ id <= MaxMsgs
           /\ msgCounter' = id
           /\ messages' = [sent EXCEPT ![s] = Without(@, {i})]
           /\ UNCHANGED <<topics, subscriptions, topicSubs>>
           /\ persist
  ELSE UNCHANGED <<storeVars, disk>>

\* Variant: one attempt too early.
DeadLetterDueEarly(m) ==
  job.dlt # NoTopic /\ job.maxAttempts > 0 /\ m.attempt + 1 >= job.maxAttempts

\* The dead letter policy is the one the loop read at its tick.
DeadLetterDue(m) ==
  job.dlt # NoTopic /\ job.maxAttempts > 0 /\ m.attempt >= job.maxAttempts

\* A failed dispatch of m: dead-letter it or leave it to its lease.
AfterFailure(m) ==
  IF DeadLetterDue(m)
  THEN ForwardToDeadLetter(job.name, m.id)
  ELSE UNCHANGED <<storeVars, disk>>

\* pushMessage for the next message of the batch, in string order of IDs.
PushDeliver(ok) ==
  \E m \in batch :
    /\ \A k \in batch : k.id = m.id \/ IdLess(m.id, k.id)
    /\ IF ok THEN AutoAck(m) ELSE AfterFailure(m)
    /\ batch' = batch \ {m}
    /\ job' = IF batch' = {} THEN NoJob ELSE job
    /\ event' = IF ok THEN Acked(job.name, {m.id}) ELSE NoEvent
    /\ UNCHANGED <<round, streams, crashes>>

-----------------------------------------------------------------------------
(* The environment                                                         *)

\* The process ends between two store calls and a new one loads the file.
\* Clients keep their ack IDs; streams and the push loop's batch are gone.
Restarts(image) ==
  /\ crashes < MaxCrashes
  /\ crashes' = crashes + 1
  /\ load(image)
  /\ streams' = [c \in Streams |-> NoSub]
  /\ round' = {} /\ job' = NoJob /\ batch' = {}

Restart == Restarts(disk) /\ UNCHANGED disk /\ event' = Ends("restart")

\* The process ends inside os.WriteFile, which truncates the file before it
\* writes it: what is left does not parse.
TornWrite ==
  /\ DataDir
  /\ Restarts(NoImage)
  /\ disk' = NoImage
  /\ event' = Ends("torn")

Aged(q) == [i \in DOMAIN q |->
              [q[i] EXCEPT !.ttl = IF @ > 0 THEN @ - 1 ELSE 0]]

\* Deadlines are absolute times, in memory and in the file.
Tick ==
  /\ \E s \in SubNames : \E i \in DOMAIN messages[s] : messages[s][i].ttl > 0
  /\ messages' = [s \in SubNames |-> Aged(messages[s])]
  /\ disk' = [disk EXCEPT !.messages = [s \in SubNames |-> Aged(@[s])]]
  /\ UNCHANGED <<topics, subscriptions, topicSubs, msgCounter>>
  /\ UNCHANGED <<streams, pushVars, crashes>>
  /\ event' = NoEvent

-----------------------------------------------------------------------------
AdminNext ==
  \/ \E t \in Topics : CreateTopic(t) \/ DeleteTopic(t)
  \/ \E s \in SubNames : \E cfg \in SubConfigs[s] : CreateSubscription(s, cfg)
  \/ \E s \in SubNames : DeleteSubscription(s)

PublishNext == \E t \in Topics, n \in 1..MaxBatch : Publish(t, n)

SubscriberNext ==
  \/ \E s \in SubNames, n \in PullSizes : Pull(s, n)
  \/ \E s \in SubNames, ids \in SUBSET (1..msgCounter) : Acknowledge(s, ids)
  \/ \E s \in SubNames, ids \in SUBSET (1..msgCounter), d \in AckDeadlines :
       ModifyAckDeadline(s, ids, d)
  \/ \E c \in Streams, s \in SubNames : StreamOpen(c, s)
  \/ \E c \in Streams : StreamPoll(c) \/ StreamClose(c)

PushNext ==
  \/ PushTick
  \/ \E j \in round : PushPull(j)
  \/ \E ok \in BOOLEAN : PushDeliver(ok)

EnvNext == Restart \/ TornWrite \/ Tick

Next == AdminNext \/ PublishNext \/ SubscriberNext \/ PushNext \/ EnvNext

Spec == Init /\ [][Next]_vars

\* The push loop is a goroutine whose store calls never block for ever and
\* whose dispatches are bounded by the client timeout and the retry limit;
\* time passes.  Nothing is assumed of clients, nor that they leave the
\* leases of push subscriptions alone: PushSpec has no subscriber.
Fairness ==
  /\ WF_vars(PushTick)
  /\ WF_vars(\E j \in round : PushPull(j))
  /\ WF_vars(\E ok \in BOOLEAN : PushDeliver(ok))
  /\ WF_vars(Tick)

PushSpec ==
  Init /\ [][AdminNext \/ PublishNext \/ PushNext \/ EnvNext]_vars /\ Fairness

-----------------------------------------------------------------------------
(* Properties                                                              *)

IsImage(d) ==
  /\ d = [topics |-> d.topics, subscriptions |-> d.subscriptions,
          messages |-> d.messages, msgCounter |-> d.msgCounter]
  /\ d.topics \in SUBSET Topics
  /\ d.subscriptions \in [SubNames -> Subscription \cup {NoSub}]
  /\ AreQueues(d.messages)
  /\ d.msgCounter \in 0..MaxMsgs

\* The type invariant: a lease is never negative, a stored subscription has a
\* positive ack deadline, and every ID is one the counter can have reached.
TypeOK ==
  /\ topics \in SUBSET Topics
  /\ subscriptions \in [SubNames -> Subscription \cup {NoSub}]
  /\ topicSubs \in [Topics -> SUBSET SubNames]
  /\ AreQueues(messages)
  /\ msgCounter \in 0..MaxMsgs
  /\ IsImage(disk)
  /\ streams \in [Streams -> SubNames \cup {NoSub}]
  /\ round \subseteq PushJobs
  /\ job \in PushJobs \cup {NoJob}
  /\ batch \subseteq [id : Ids, data : Ids, attempt : 0..AttemptCap]
  /\ crashes \in 0..MaxCrashes
  /\ event \in Event

\* The index Publish fans out by and the subscriptions' own topic fields are
\* two copies of one relation: a subscription is indexed under the topic it
\* names and under no other, an orphan under none, a deleted topic has no
\* entry, and a name without a subscription has no queue.  It must survive
\* every create, delete, recreate and load.
IndexConsistent ==
  /\ topicSubs = Indexed(subscriptions)
  /\ \A t \in Topics : topicSubs[t] # {} => t \in topics
  /\ \A s \in SubNames : ~Exists(s) => messages[s] = EmptyQueue

\* With a data directory the file holds, between any two store calls, every
\* topic, subscription and message in memory and the counter: a crash there
\* loses nothing but leases the push loop took and delivery attempts.
CrashLosesNothing ==
  DataDir =>
    /\ disk.topics = topics
    /\ disk.subscriptions = subscriptions
    /\ disk.msgCounter = msgCounter
    /\ \A s \in SubNames :
         /\ DOMAIN disk.messages[s] = DOMAIN messages[s]
         /\ \A i \in DOMAIN messages[s] :
              disk.messages[s][i].data = messages[s][i].data

\* A restart may shorten a lease (the push loop's leases are not written) but
\* never lengthens one: a message that is deliverable in memory is deliverable
\* after a restart, so that a nack is not forgotten.
RestartNeverExtendsLease ==
  DataDir =>
    \A s \in SubNames : \A i \in DOMAIN messages[s] :
      Available(messages[s][i]) => Available(disk.messages[s][i])

\* An ack ID names one message for ever: across restarts, forwards and the
\* recreation of a subscription under its old name, a message enters a queue
\* only under an ID above every ID given out before, and the message under an
\* ID keeps its payload.  A client's late acknowledgement, and the push loop's
\* after a slow dispatch, can therefore not remove another message.  Only a
\* torn file resets the counter.
IdsNeverReused ==
  [][DataDir /\ ~TornWrite =>
       /\ msgCounter' >= msgCounter
       /\ \A s \in SubNames : \A i \in DOMAIN messages'[s] :
            \/ i > msgCounter
            \/ i \in DOMAIN messages[s] /\ messages'[s][i].data = messages[s][i].data]_vars

\* The entries of the batch the push loop is working through, taken by
\* PullAllUndelivered some dispatches ago, still describe the queue: one whose
\* ID is still queued has that message's payload and its count of attempts,
\* though the subscription may have been deleted and recreated meanwhile.
InFlightNamesItsMessage ==
  /\ (batch = {}) <=> (job = NoJob)
  /\ \A m \in batch :
       /\ m.id <= msgCounter
       /\ m.id \in DOMAIN messages[job.name] =>
            /\ messages[job.name][m.id].data = m.data
            /\ messages[job.name][m.id].attempt = m.attempt

\* A step that moves the counter and takes a message off a queue is a forward.
Forwarded(s, i) ==
  /\ msgCounter' > msgCounter
  /\ i \in DOMAIN messages[s] \ DOMAIN messages'[s]

\* A dead-lettered message is, in the same step, in every queue of its
\* subscription's dead letter topic with its payload, never handed out; and it
\* left its queue after the maximum of attempts of the policy the push loop
\* read at its tick.  The subscription may have come back under another policy
\* since then: its topic is the new one, its maximum the old one.
DeadLettering ==
  [][\A s \in SubNames : \A i \in DOMAIN messages[s] : Forwarded(s, i) =>
       /\ job.name = s
       /\ job.maxAttempts > 0 /\ messages[s][i].attempt >= job.maxAttempts
       /\ \A d \in topicSubs[subscriptions[s].dlt] :
            messages'[d][msgCounter'] = NewMessage(messages[s][i].data)]_vars

\* The messages subscribers are still to get, by payload, behave as the
\* abstract mailboxes: whatever the handlers, the push loop and the restarts
\* do between each other, a message goes to every subscription of its topic at
\* once, and leaves one by an acknowledgement, a forward to a topic there is,
\* or with the subscription; a restart is a loss without a file only.
Payloads(q) == [i \in DOMAIN q |-> q[i].data]

Promise == INSTANCE Mailboxes
             WITH held <- [s \in SubNames |-> Payloads(messages[s])],
                  last <- msgCounter

ImplementsMailboxes == Promise!Spec

\* A message of a push subscription with a dead letter policy does not stay
\* for ever: it is acknowledged, forwarded or removed with its subscription,
\* unless its dead letter topic is deleted.
PushSettles ==
  \A s \in SubNames, i \in Ids :
    (/\ i \in DOMAIN messages[s] /\ Exists(s) /\ subscriptions[s].push
     /\ subscriptions[s].dlt # NoTopic /\ subscriptions[s].maxAttempts > 0)
    ~> (i \notin DOMAIN messages[s] \/ subscriptions[s].dlt \notin topics)

=============================================================================
