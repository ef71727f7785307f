---------------------------- MODULE PubSubProofs ----------------------------
(***************************************************************************)
(* Proofs about PubSub, for every value of its constants.                  *)
(***************************************************************************)
EXTENDS PubSub, TLAPS

-----------------------------------------------------------------------------
(* Queues                                                                  *)

\* The message a publish or a forward enqueues is well typed.
LEMMA NewMessageType ==
  ASSUME NEW d \in Ids
  PROVE  NewMessage(d) \in Message
BY BoundsAssumption DEF NewMessage, Message

\* A queue without some of its messages is a queue.
LEMMA WithoutIsQueue ==
  ASSUME NEW q, IsQueue(q), NEW ids
  PROVE  IsQueue(Without(q, ids))
BY DEF IsQueue, Without, Restrict

\* Putting messages in a queue gives a queue.
LEMMA PutIsQueue ==
  ASSUME NEW q, IsQueue(q), NEW new, IsQueue(new)
  PROVE  IsQueue(Put(q, new))
BY DEF IsQueue, Put

\* Handing messages out, counting an attempt, moving deadlines, aging and
\* writing to disk map each message of a queue to a message.
LEMMA HandedOutIsQueue ==
  ASSUME NEW q, IsQueue(q), NEW ids, NEW d \in Nat
  PROVE  IsQueue(HandedOut(q, ids, d))
BY DEF IsQueue, HandedOut, Message

\* Counting an attempt stays within the cap.
LEMMA BumpType ==
  ASSUME NEW n \in 0..AttemptCap
  PROVE  Bump(n) \in 0..AttemptCap
BY BoundsAssumption DEF Bump

\* PullAllUndelivered counts an attempt of each message it takes.
LEMMA AttemptedIsQueue ==
  ASSUME NEW q, IsQueue(q), NEW ids
  PROVE  IsQueue(Attempted(q, ids))
<1>1. ASSUME NEW i \in DOMAIN q
      PROVE  [q[i] EXCEPT !.attempt = Bump(@)] \in Message
  BY BumpType DEF IsQueue, Message
<1>. QED  BY <1>1 DEF IsQueue, Attempted

\* ModifyAckDeadline gives a message a deadline that is not negative.
LEMMA ModifiedType ==
  ASSUME NEW m \in Message, NEW d \in Int
  PROVE  Modified(m, d) \in Message
<1>1. ASSUME NEW b \in BOOLEAN, NEW t \in Nat
      PROVE  [m EXCEPT !.delivered = b, !.ttl = t] \in Message
  BY DEF Message
<1>2. ASSUME NEW t \in Nat
      PROVE  [m EXCEPT !.ttl = t] \in Message
  BY DEF Message
<1>3. (IF d > 0 THEN d ELSE 0) \in Nat
  OBVIOUS
<1>. QED  BY <1>1, <1>2, <1>3 DEF Modified

\* ModifyAckDeadline maps each message of a queue to a message.
LEMMA ModifiedIsQueue ==
  ASSUME NEW q, IsQueue(q), NEW ids, NEW d \in Int
  PROVE  IsQueue(ModifiedQueue(q, ids, d))
<1>1. ASSUME NEW i \in DOMAIN q
      PROVE  Modified(q[i], d) \in Message
  BY ModifiedType DEF IsQueue
<1>. QED  BY <1>1 DEF IsQueue, ModifiedQueue

\* Time passing maps each message of a queue to a message.
LEMMA AgedIsQueue ==
  ASSUME NEW q, IsQueue(q)
  PROVE  IsQueue(Aged(q))
<1>1. ASSUME NEW i \in DOMAIN q
      PROVE  [q[i] EXCEPT !.ttl = IF @ > 0 THEN @ - 1 ELSE 0] \in Message
  BY DEF IsQueue, Message
<1>. QED  BY <1>1 DEF IsQueue, Aged

\* The file holds a queue, without the attempts.
LEMMA UnattemptedIsQueue ==
  ASSUME NEW q, IsQueue(q)
  PROVE  IsQueue(Unattempted(q))
<1>1. ASSUME NEW i \in DOMAIN q
      PROVE  [q[i] EXCEPT !.attempt = 0] \in Message
  BY BoundsAssumption DEF IsQueue, Message
<1>. QED  BY <1>1 DEF IsQueue, Unattempted

\* A new or deleted subscription has an empty queue, which is one.
LEMMA EmptyIsQueue == IsQueue(EmptyQueue)
BY DEF IsQueue, EmptyQueue

\* Replacing one queue by a queue keeps one queue per name.
LEMMA ReplaceQueue ==
  ASSUME NEW f, AreQueues(f), NEW s \in SubNames, NEW q, IsQueue(q)
  PROVE  AreQueues([f EXCEPT ![s] = q])
BY DEF AreQueues

\* A fan-out keeps one queue per name.
LEMMA FanOutAreQueues ==
  ASSUME AreQueues(messages), NEW t, NEW new, IsQueue(new)
  PROVE  AreQueues(FanOut(t, new))
<1>1. ASSUME NEW s \in SubNames
      PROVE  IsQueue(FanOut(t, new)[s])
  BY PutIsQueue DEF AreQueues, FanOut
<1>2. FanOut(t, new) = [s \in SubNames |-> FanOut(t, new)[s]]
  BY DEF FanOut
<1>. QED  BY <1>1, <1>2 DEF AreQueues

\* What persist writes is an image if the store is well typed.
LEMMA ImageOfType ==
  ASSUME NEW ts \in SUBSET Topics,
         NEW subs \in [SubNames -> Subscription \cup {NoSub}],
         NEW qs, AreQueues(qs),
         NEW n \in 0..MaxMsgs
  PROVE  IsImage(ImageOf(ts, subs, qs, n))
<1>1. AreQueues([s \in SubNames |-> Unattempted(qs[s])])
  BY UnattemptedIsQueue DEF AreQueues
<1>. QED  BY <1>1 DEF IsImage, ImageOf

-----------------------------------------------------------------------------
(* Type correctness                                                        *)

\* TypeOK is inductive with one fact about the push loop: a batch has a job.
BatchHasJob == (batch = {}) <=> (job = NoJob)

TInv == TypeOK /\ BatchHasJob

\* A step that persists a well-typed store leaves an image on disk.
LEMMA PersistType ==
  ASSUME IsImage(disk),
         topics' \in SUBSET Topics,
         subscriptions' \in [SubNames -> Subscription \cup {NoSub}],
         AreQueues(messages'),
         msgCounter' \in 0..MaxMsgs,
         persist
  PROVE  IsImage(disk')
<1>1. IsImage(ImageOf(topics', subscriptions', messages', msgCounter'))
  BY ImageOfType
<1>. QED  BY <1>1 DEF persist, Image

\* A step that is told nothing records that.
LEMMA NoEventType == NoEvent \in Event
BY DEF NoEvent, Event

\* So does an end of the process, and an acknowledgement.
LEMMA EventType ==
  /\ Ends("restart") \in Event /\ Ends("torn") \in Event
  /\ \A s \in SubNames, ids \in SUBSET Ids : Acked(s, ids) \in Event
BY DEF Ends, NoEvent, Acked, Event

\* The empty store is well typed.
LEMMA InitType == Init => TInv
<1>. SUFFICES ASSUME Init PROVE TInv
  OBVIOUS
<1>1. AreQueues([s \in SubNames |-> EmptyQueue])
  BY EmptyIsQueue DEF AreQueues
<1>2. IsImage(NoImage)
  BY <1>1, BoundsAssumption DEF IsImage, NoImage
<1>. QED  BY <1>1, <1>2, NoEventType, BoundsAssumption DEF Init, TInv, TypeOK, BatchHasJob

\* Each store operation keeps the store and the disk well typed.
LEMMA AdminType ==
  ASSUME TInv, AdminNext
  PROVE  TInv'
<1>. USE NoEventType DEF TInv, TypeOK, BatchHasJob, pushVars
<1>1. ASSUME NEW t \in Topics, CreateTopic(t)
      PROVE  TInv'
  <2>1. IsImage(disk')
    BY <1>1, PersistType DEF CreateTopic
  <2>. QED  BY <1>1, <2>1 DEF CreateTopic
<1>2. ASSUME NEW t \in Topics, DeleteTopic(t)
      PROVE  TInv'
  <2>1. subscriptions' \in [SubNames -> Subscription \cup {NoSub}]
    BY <1>2 DEF DeleteTopic, Exists, Subscription
  <2>2. IsImage(disk')
    BY <1>2, <2>1, PersistType DEF DeleteTopic
  <2>. QED  BY <1>2, <2>1, <2>2 DEF DeleteTopic
<1>3. ASSUME NEW s \in SubNames, NEW cfg \in SubConfigs[s], CreateSubscription(s, cfg)
      PROVE  TInv'
  <2>1. cfg \in SubConfig
    BY RequestAssumption
  <2>2. [cfg EXCEPT !.ackDeadline = EffectiveDeadline(@)] \in Subscription
    BY <2>1, BoundsAssumption DEF EffectiveDeadline, SubConfig, Subscription
  <2>3. subscriptions' \in [SubNames -> Subscription \cup {NoSub}]
    BY <1>3, <2>2 DEF CreateSubscription
  <2>4. AreQueues(messages')
    BY <1>3, EmptyIsQueue, ReplaceQueue DEF CreateSubscription
  <2>5. IsImage(disk')
    BY <1>3, <2>3, <2>4, PersistType DEF CreateSubscription
  <2>. QED  BY <1>3, <2>1, <2>3, <2>4, <2>5 DEF CreateSubscription, SubConfig
<1>4. ASSUME NEW s \in SubNames, DeleteSubscription(s)
      PROVE  TInv'
  <2>1. subscriptions' \in [SubNames -> Subscription \cup {NoSub}]
    BY <1>4 DEF DeleteSubscription
  <2>2. AreQueues(messages')
    BY <1>4, EmptyIsQueue, ReplaceQueue DEF DeleteSubscription
  <2>3. IsImage(disk')
    BY <1>4, <2>1, <2>2, PersistType DEF DeleteSubscription
  <2>4. Unindexed(s) \in [Topics -> SUBSET SubNames]
    BY DEF Unindexed
  <2>. QED  BY <1>4, <2>1, <2>2, <2>3, <2>4 DEF DeleteSubscription
<1>. QED  BY <1>1, <1>2, <1>3, <1>4 DEF AdminNext

\* Publish keeps the store well typed.
LEMMA PublishType ==
  ASSUME TInv, NEW t \in Topics, NEW n \in 1..MaxBatch, Publish(t, n)
  PROVE  TInv'
<1>. USE NoEventType DEF TInv, TypeOK, BatchHasJob, pushVars
<1>. DEFINE ids == (msgCounter + 1)..(msgCounter + n)
            new == [i \in ids |-> NewMessage(i)]
<1>1. msgCounter + n \in 0..MaxMsgs
  BY BoundsAssumption DEF Publish
<1>2. ids \subseteq Ids
  BY <1>1, BoundsAssumption DEF Ids
<1>3. IsQueue(new)
  BY <1>2, NewMessageType DEF IsQueue
<1>4. AreQueues(messages')
  BY <1>3, FanOutAreQueues DEF Publish
<1>5. IsImage(disk')
  BY <1>1, <1>4, PersistType DEF Publish
<1>. QED  BY <1>1, <1>4, <1>5 DEF Publish

\* Store.Pull and Store.Acknowledge, called by RPCs, streams and the push loop.
LEMMA StorePullType ==
  ASSUME TInv, NEW s \in SubNames, Exists(s), NEW n, StorePull(s, n)
  PROVE  AreQueues(messages') /\ IsImage(disk')
<1>. USE DEF TInv, TypeOK
<1>1. subscriptions[s].ackDeadline \in Nat
  BY DEF Exists, Subscription
<1>2. AreQueues(messages')
  BY <1>1, HandedOutIsQueue, ReplaceQueue DEF StorePull, AreQueues
<1>. QED  BY <1>2, PersistType DEF StorePull

\* Store.Acknowledge keeps queues queues.
LEMMA StoreAcknowledgeType ==
  ASSUME TInv, NEW s \in SubNames, NEW ids, StoreAcknowledge(s, ids)
  PROVE  AreQueues(messages') /\ IsImage(disk')
<1>. USE DEF TInv, TypeOK
<1>1. AreQueues(messages')
  BY WithoutIsQueue, ReplaceQueue DEF StoreAcknowledge, AreQueues
<1>. QED  BY <1>1, PersistType DEF StoreAcknowledge

\* Pulls, acknowledgements and deadline changes keep the store well typed.
LEMMA SubscriberType ==
  ASSUME TInv, SubscriberNext
  PROVE  TInv'
<1>. USE NoEventType DEF TInv, TypeOK, BatchHasJob, pushVars
<1>1. ASSUME NEW s \in SubNames, NEW n \in PullSizes, Pull(s, n)
      PROVE  TInv'
  BY <1>1, StorePullType DEF Pull, StorePull
<1>2. ASSUME NEW s \in SubNames, NEW ids \in SUBSET (1..msgCounter), Acknowledge(s, ids)
      PROVE  TInv'
  <2>1. ids \in SUBSET Ids
    BY BoundsAssumption DEF Ids
  <2>. QED  BY <1>2, <2>1, EventType, StoreAcknowledgeType DEF Acknowledge, StoreAcknowledge
<1>3. ASSUME NEW s \in SubNames, NEW ids, NEW d \in AckDeadlines,
             ModifyAckDeadline(s, ids, d)
      PROVE  TInv'
  <2>1. AreQueues(messages')
    BY <1>3, ModifiedIsQueue, ReplaceQueue, RequestAssumption
    DEF ModifyAckDeadline, AreQueues
  <2>2. IsImage(disk')
    BY <1>3, <2>1, PersistType DEF ModifyAckDeadline
  <2>. QED  BY <1>3, <2>1, <2>2 DEF ModifyAckDeadline
<1>4. ASSUME NEW c \in Streams, NEW s \in SubNames, StreamOpen(c, s)
      PROVE  TInv'
  BY <1>4 DEF StreamOpen, storeVars
<1>5. ASSUME NEW c \in Streams, StreamPoll(c)
      PROVE  TInv'
  <2>1. streams[c] \in SubNames
    BY <1>5 DEF StreamPoll
  <2>. QED  BY <1>5, <2>1, StorePullType DEF StreamPoll, StorePull
<1>6. ASSUME NEW c \in Streams, StreamClose(c)
      PROVE  TInv'
  BY <1>6 DEF StreamClose, storeVars
<1>. QED  BY <1>1, <1>2, <1>3, <1>4, <1>5, <1>6 DEF SubscriberNext

\* What the push loop reads of a push subscription is a job.
LEMMA PushJobType ==
  ASSUME TypeOK, NEW s \in SubNames, Exists(s)
  PROVE  PushJob(s) \in PushJobs
BY DEF TypeOK, Exists, PushJob, PushJobs, Subscription

\* A forward gives a fresh ID to a copy and removes the original.
LEMMA ForwardType ==
  ASSUME TInv, NEW s \in SubNames, NEW i, ForwardToDeadLetter(s, i)
  PROVE  /\ AreQueues(messages') /\ IsImage(disk') /\ msgCounter' \in 0..MaxMsgs
         /\ UNCHANGED <<topics, subscriptions, topicSubs>>
<1>. USE DEF TInv, TypeOK
<1>1. CASE UNCHANGED <<storeVars, disk>>
  BY <1>1 DEF storeVars
<1>2. CASE ~UNCHANGED <<storeVars, disk>>
  <2>. DEFINE id   == msgCounter + 1
              copy == [k \in {id} |-> NewMessage(messages[s][i].data)]
              sent == FanOut(subscriptions[s].dlt, copy)
  <2>1. /\ i \in DOMAIN messages[s]
        /\ id <= MaxMsgs /\ msgCounter' = id
        /\ messages' = [sent EXCEPT ![s] = Without(@, {i})]
        /\ UNCHANGED <<topics, subscriptions, topicSubs>>
        /\ persist
    BY <1>2 DEF ForwardToDeadLetter, Forwardable
  <2>2. id \in Ids /\ id \in 0..MaxMsgs
    BY <2>1, BoundsAssumption DEF Ids
  <2>3. messages[s][i].data \in Ids
    BY <2>1 DEF AreQueues, IsQueue, Message
  <2>4. IsQueue(copy)
    BY <2>2, <2>3, NewMessageType DEF IsQueue
  <2>5. AreQueues(sent)
    BY <2>4, FanOutAreQueues
  <2>6. IsQueue(Without(sent[s], {i}))
    BY <2>5, WithoutIsQueue DEF AreQueues
  <2>7. sent[s] = FanOut(subscriptions[s].dlt, copy)[s]
    OBVIOUS
  <2>8. messages' = [sent EXCEPT ![s] = Without(sent[s], {i})]
    BY <2>1
  <2>9. AreQueues(messages')
    <3>. HIDE DEF sent
    <3>. QED  BY <2>5, <2>6, <2>8, ReplaceQueue
  <2>10. IsImage(disk')
    BY <2>1, <2>2, <2>9, PersistType
  <2>. QED  BY <2>1, <2>2, <2>9, <2>10
<1>. QED  BY <1>1, <1>2

\* The push loop keeps the store and its own batch well typed.
LEMMA PushType ==
  ASSUME TInv, PushNext
  PROVE  TInv'
<1>. USE NoEventType DEF TInv, TypeOK, BatchHasJob
<1>1. CASE PushTick
  BY <1>1, PushJobType DEF PushTick, storeVars
<1>2. ASSUME NEW j \in round, PushPull(j)
      PROVE  TInv'
  <2>. DEFINE s   == j.name
              ids == Deliverable(messages[s])
              new == {[id |-> i, data |-> messages[s][i].data,
                       attempt |-> Bump(messages[s][i].attempt)] : i \in ids}
  <2>1. j \in PushJobs /\ s \in SubNames
    BY DEF PushJobs
  <2>2. CASE Exists(s) /\ ids # {}
    <3>1. subscriptions[s].ackDeadline \in Nat
      BY <2>1, <2>2 DEF Exists, Subscription
    <3>2. IsQueue(Attempted(HandedOut(messages[s], ids, subscriptions[s].ackDeadline), ids))
      BY <2>1, <3>1, HandedOutIsQueue, AttemptedIsQueue DEF AreQueues
    <3>3. messages' = [messages EXCEPT ![s] =
            Attempted(HandedOut(messages[s], ids, subscriptions[s].ackDeadline), ids)]
      BY <1>2, <2>2 DEF PushPull
    <3>4. AreQueues(messages')
      BY <2>1, <3>2, <3>3, ReplaceQueue
    <3>5. \A i \in ids : i \in Ids /\ messages[s][i] \in Message
      BY <2>1 DEF AreQueues, IsQueue, Deliverable
    <3>6. new \subseteq [id : Ids, data : Ids, attempt : 0..AttemptCap]
      BY <3>5, BumpType DEF Message
    <3>7. batch' = new /\ job' = j
      BY <1>2, <2>2 DEF PushPull
    <3>8. new # {} /\ j # NoJob
      <4>1. PICK i \in ids : TRUE
        BY <2>2
      <4>2. [id |-> i, data |-> messages[s][i].data,
             attempt |-> Bump(messages[s][i].attempt)] \in new
        BY <4>1
      <4>. QED  BY <2>1, <4>2, NamesAssumption
    <3>9. UNCHANGED <<topics, subscriptions, topicSubs, msgCounter, disk, streams, crashes>>
          /\ round' \subseteq round /\ event' = NoEvent
      BY <1>2 DEF PushPull
    <3>10. BatchHasJob'
      BY <3>7, <3>8
    <3>. QED  BY <2>1, <3>4, <3>6, <3>7, <3>9, <3>10
  <2>3. CASE ~(Exists(s) /\ ids # {})
    BY <1>2, <2>3 DEF PushPull
  <2>. QED  BY <2>2, <2>3
<1>3. ASSUME NEW ok \in BOOLEAN, PushDeliver(ok)
      PROVE  TInv'
  <2>1. PICK m \in batch :
          /\ IF ok THEN AutoAck(m) ELSE AfterFailure(m)
          /\ batch' = batch \ {m}
          /\ job' = IF batch' = {} THEN NoJob ELSE job
          /\ event' = IF ok THEN Acked(job.name, {m.id}) ELSE NoEvent
          /\ UNCHANGED <<round, streams, crashes>>
    BY <1>3 DEF PushDeliver
  <2>2. job \in PushJobs /\ job.name \in SubNames /\ job # NoJob
    BY <2>1, NamesAssumption DEF PushJobs
  <2>3. /\ AreQueues(messages') /\ IsImage(disk') /\ msgCounter' \in 0..MaxMsgs
        /\ UNCHANGED <<topics, subscriptions, topicSubs>>
    <3>1. CASE UNCHANGED <<storeVars, disk>>
      BY <3>1 DEF storeVars
    <3>2. CASE StoreAcknowledge(job.name, {m.id})
      BY <2>2, <3>2, StoreAcknowledgeType DEF StoreAcknowledge
    <3>3. CASE ForwardToDeadLetter(job.name, m.id)
      BY <2>2, <3>3, ForwardType
    <3>. QED  BY <2>1, <3>1, <3>2, <3>3 DEF AutoAck, AfterFailure
  <2>4. BatchHasJob'
    BY <2>1, <2>2
  <2>5. event' \in Event
    BY <2>1, <2>2, EventType
  <2>. QED  BY <2>1, <2>2, <2>3, <2>4, <2>5
<1>. QED  BY <1>1, <1>2, <1>3 DEF PushNext

\* load() builds a well-typed store from an image.
LEMMA RestartsType ==
  ASSUME TInv, NEW image, IsImage(image), Restarts(image), IsImage(disk'),
         event' \in Event
  PROVE  TInv'
<1>1. Indexed(image.subscriptions) \in [Topics -> SUBSET SubNames]
  BY DEF Indexed
<1>. QED  BY <1>1, BoundsAssumption
          DEF Restarts, load, IsImage, TInv, TypeOK, BatchHasJob

\* Restarts, torn writes and time keep the store well typed.
LEMMA EnvType ==
  ASSUME TInv, EnvNext
  PROVE  TInv'
<1>1. CASE Restart
  BY <1>1, RestartsType, EventType DEF Restart, TInv, TypeOK
<1>2. CASE TornWrite
  <2>1. AreQueues([s \in SubNames |-> EmptyQueue])
    BY EmptyIsQueue DEF AreQueues
  <2>2. IsImage(NoImage)
    BY <2>1, BoundsAssumption DEF IsImage, NoImage
  <2>. QED  BY <1>2, <2>2, RestartsType, EventType DEF TornWrite
<1>3. CASE Tick
  <2>1. ASSUME NEW f, AreQueues(f)
        PROVE  AreQueues([s \in SubNames |-> Aged(f[s])])
    BY <2>1, AgedIsQueue DEF AreQueues
  <2>2. AreQueues(messages')
    BY <1>3, <2>1 DEF Tick, TInv, TypeOK
  <2>3. AreQueues([s \in SubNames |-> Aged(disk.messages[s])])
    BY <2>1 DEF TInv, TypeOK, IsImage
  <2>4. disk' = [disk EXCEPT !.messages = [s \in SubNames |-> Aged(disk.messages[s])]]
    BY <1>3 DEF Tick
  <2>5. IsImage(disk')
    BY <2>3, <2>4 DEF IsImage, TInv, TypeOK
  <2>. QED  BY <1>3, <2>2, <2>5, NoEventType DEF Tick, TInv, TypeOK, BatchHasJob, pushVars
<1>. QED  BY <1>1, <1>2, <1>3 DEF EnvNext

\* Every step does.
LEMMA NextType == TInv /\ [Next]_vars => TInv'
<1>. SUFFICES ASSUME TInv, [Next]_vars PROVE TInv'
  OBVIOUS
<1>1. CASE UNCHANGED vars
  BY <1>1 DEF vars, storeVars, pushVars, TInv, TypeOK, BatchHasJob
<1>. QED  BY <1>1, AdminType, PublishType, SubscriberType, PushType, EnvType
          DEF Next, PublishNext

\* Every state of the store, the file, the streams and the push loop is well
\* typed: no lease is negative, no stored subscription lacks an ack deadline,
\* and no ID exceeds the counter's bound.
THEOREM TypeCorrect == Spec => []TypeOK
<1>1. TInv => TypeOK
  BY DEF TInv
<1>. QED  BY <1>1, InitType, NextType, PTL DEF Spec

-----------------------------------------------------------------------------
(* The topic index                                                         *)

\* The subscriptions of a store, or of an image, name topics it has, and only
\* they have messages.
Rooted(ts, subs, qs) ==
  \A s \in SubNames :
    /\ subs[s] # NoSub => subs[s].topic \in ts \cup {DeletedTopic}
    /\ subs[s] = NoSub => qs[s] = EmptyQueue

\* Inductive: the index is a function of the subscriptions, and both the store
\* and the file it would be reloaded from are rooted.
XInv ==
  /\ TInv
  /\ topicSubs = Indexed(subscriptions)
  /\ Rooted(topics, subscriptions, messages)
  /\ Rooted(disk.topics, disk.subscriptions, disk.messages)

\* An empty queue is written as one.
LEMMA UnattemptedEmpty == Unattempted(EmptyQueue) = EmptyQueue
BY DEF Unattempted, EmptyQueue

\* An empty queue stays empty as time passes.
LEMMA AgedEmpty == Aged(EmptyQueue) = EmptyQueue
BY DEF Aged, EmptyQueue

\* Writing a rooted store leaves a rooted image.
LEMMA PersistRooted ==
  ASSUME Rooted(disk.topics, disk.subscriptions, disk.messages),
         Rooted(topics', subscriptions', messages'), persist
  PROVE  Rooted(disk'.topics, disk'.subscriptions, disk'.messages)
BY UnattemptedEmpty DEF persist, Image, ImageOf, Rooted

\* Replacing the queue of an existing subscription keeps the store rooted.
LEMMA ReplaceRooted ==
  ASSUME XInv, NEW s \in SubNames, Exists(s), NEW q,
         messages' = [messages EXCEPT ![s] = q],
         UNCHANGED <<topics, subscriptions, topicSubs>>
  PROVE  /\ Rooted(topics', subscriptions', messages')
         /\ topicSubs' = Indexed(subscriptions')
BY DEF XInv, Rooted, Exists, TInv, TypeOK, AreQueues

\* A fan-out keeps the store rooted: it adds to existing queues only.
LEMMA FanOutRooted ==
  ASSUME XInv, NEW t, NEW new
  PROVE  Rooted(topics, subscriptions, FanOut(t, new))
BY DEF XInv, Rooted, Exists, FanOut

\* The empty index is consistent.
LEMMA InitIndex == Init => XInv
<1>. SUFFICES ASSUME Init PROVE XInv
  OBVIOUS
<1>1. topicSubs = Indexed(subscriptions)
  BY DEF Init, Indexed
<1>2. /\ Rooted(topics, subscriptions, messages)
      /\ Rooted(disk.topics, disk.subscriptions, disk.messages)
  BY DEF Init, NoImage, Rooted
<1>. QED  BY <1>1, <1>2, InitType DEF XInv

\* Creating and deleting topics and subscriptions keeps the index consistent.
LEMMA AdminIndex ==
  ASSUME XInv, TInv', AdminNext
  PROVE  XInv'
<1>. USE DEF XInv, TInv, TypeOK
<1>1. ASSUME NEW t \in Topics, CreateTopic(t)
      PROVE  XInv'
  BY <1>1, PersistRooted DEF CreateTopic, Rooted
<1>2. ASSUME NEW t \in Topics, DeleteTopic(t)
      PROVE  XInv'
  <2>1. topicSubs[t] = {s \in SubNames : Exists(s) /\ subscriptions[s].topic = t}
    BY DEF Indexed, Exists
  <2>2. \A s \in SubNames :
          IF Exists(s) /\ subscriptions[s].topic = t
          THEN subscriptions'[s] # NoSub /\ subscriptions'[s].topic = DeletedTopic
          ELSE subscriptions'[s] = subscriptions[s]
    BY <1>2, <2>1, NamesAssumption DEF DeleteTopic, Subscription, Exists
  <2>3. topicSubs' = Indexed(subscriptions')
    <3>1. ASSUME NEW u \in Topics
          PROVE  topicSubs'[u] = Indexed(subscriptions')[u]
      BY <1>2, <2>2, NamesAssumption DEF DeleteTopic, Indexed, Exists
    <3>. QED  BY <1>2, <3>1 DEF DeleteTopic, Indexed
  <2>4. Rooted(topics', subscriptions', messages')
    BY <1>2, <2>2 DEF DeleteTopic, Rooted, Exists
  <2>. QED  BY <1>2, <2>3, <2>4, PersistRooted DEF DeleteTopic
<1>3. ASSUME NEW s \in SubNames, NEW cfg \in SubConfigs[s], CreateSubscription(s, cfg)
      PROVE  XInv'
  <2>. DEFINE sub == [cfg EXCEPT !.ackDeadline = EffectiveDeadline(@)]
  <2>1. cfg \in SubConfig /\ cfg.topic \in topics
    BY <1>3, RequestAssumption DEF CreateSubscription
  <2>2. sub \in Subscription /\ sub.topic = cfg.topic /\ sub # NoSub
    BY <2>1, BoundsAssumption, NamesAssumption
    DEF EffectiveDeadline, SubConfig, Subscription
  <2>3. subscriptions' = [subscriptions EXCEPT ![s] = sub]
    BY <1>3 DEF CreateSubscription
  <2>4. topicSubs' = Indexed(subscriptions')
    <3>1. ASSUME NEW u \in Topics
          PROVE  topicSubs'[u] = Indexed(subscriptions')[u]
      <4>. HIDE DEF sub
      <4>. QED  BY <1>3, <2>2, <2>3 DEF CreateSubscription, Indexed, Exists
    <3>. QED  BY <1>3, <3>1 DEF CreateSubscription, Indexed
  <2>5. Rooted(topics', subscriptions', messages')
    <3>. HIDE DEF sub
    <3>. QED  BY <1>3, <2>1, <2>2, <2>3 DEF CreateSubscription, Rooted, AreQueues
  <2>. QED  BY <1>3, <2>4, <2>5, PersistRooted DEF CreateSubscription
<1>4. ASSUME NEW s \in SubNames, DeleteSubscription(s)
      PROVE  XInv'
  <2>1. topicSubs' = Indexed(subscriptions')
    BY <1>4 DEF DeleteSubscription, Unindexed, Indexed, Exists
  <2>2. Rooted(topics', subscriptions', messages')
    BY <1>4 DEF DeleteSubscription, Rooted, AreQueues
  <2>. QED  BY <1>4, <2>1, <2>2, PersistRooted DEF DeleteSubscription
<1>. QED  BY <1>1, <1>2, <1>3, <1>4 DEF AdminNext

\* Publish fills only queues of existing subscriptions.
LEMMA PublishIndex ==
  ASSUME XInv, TInv', NEW t \in Topics, NEW n \in 1..MaxBatch, Publish(t, n)
  PROVE  XInv'
<1>1. Rooted(topics', subscriptions', messages')
  BY FanOutRooted DEF Publish
<1>. QED  BY <1>1, PersistRooted DEF Publish, XInv

\* The store operations that replace the queue of an existing subscription.
LEMMA ReplaceIndex ==
  ASSUME XInv, TInv', NEW s \in SubNames, Exists(s), NEW q,
         messages' = [messages EXCEPT ![s] = q],
         UNCHANGED <<topics, subscriptions, topicSubs>>,
         persist
  PROVE  XInv'
BY ReplaceRooted, PersistRooted DEF XInv

\* Subscribers change no index, and fill no queue.
LEMMA SubscriberIndex ==
  ASSUME XInv, TInv', SubscriberNext
  PROVE  XInv'
<1>1. ASSUME NEW s \in SubNames, NEW n \in PullSizes, Pull(s, n)
      PROVE  XInv'
  BY <1>1, ReplaceIndex DEF Pull, StorePull
<1>2. ASSUME NEW s \in SubNames, NEW ids, Acknowledge(s, ids)
      PROVE  XInv'
  BY <1>2, ReplaceIndex DEF Acknowledge, StoreAcknowledge
<1>3. ASSUME NEW s \in SubNames, NEW ids, NEW d \in AckDeadlines,
             ModifyAckDeadline(s, ids, d)
      PROVE  XInv'
  BY <1>3, ReplaceIndex DEF ModifyAckDeadline
<1>4. ASSUME NEW c \in Streams, NEW s \in SubNames, StreamOpen(c, s) \/ StreamClose(c)
      PROVE  XInv'
  BY <1>4 DEF StreamOpen, StreamClose, storeVars, XInv
<1>5. ASSUME NEW c \in Streams, StreamPoll(c)
      PROVE  XInv'
  <2>1. streams[c] \in SubNames
    BY <1>5 DEF StreamPoll, XInv, TInv, TypeOK
  <2>. QED  BY <1>5, <2>1, ReplaceIndex DEF StreamPoll, StorePull
<1>6. ASSUME NEW c \in Streams, StreamClose(c)
      PROVE  XInv'
  BY <1>6 DEF StreamClose, storeVars, XInv
<1>. QED  BY <1>1, <1>2, <1>3, <1>4, <1>5, <1>6 DEF SubscriberNext

\* The push loop changes no index; a forward fills only indexed queues.
LEMMA PushIndex ==
  ASSUME XInv, TInv', PushNext
  PROVE  XInv'
<1>1. CASE PushTick
  BY <1>1 DEF PushTick, storeVars, XInv
<1>2. ASSUME NEW j \in round, PushPull(j)
      PROVE  XInv'
  <2>1. j.name \in SubNames
    BY DEF XInv, TInv, TypeOK, PushJobs
  <2>2. CASE UNCHANGED messages
    BY <1>2, <2>2 DEF PushPull, XInv
  <2>3. CASE Exists(j.name) /\ ~UNCHANGED messages
    <3>1. PICK q : messages' = [messages EXCEPT ![j.name] = q]
      BY <1>2, <2>3 DEF PushPull
    <3>. QED  BY <1>2, <2>1, <2>3, <3>1, ReplaceRooted DEF PushPull, XInv
  <2>. QED  BY <1>2, <2>2, <2>3 DEF PushPull
<1>3. ASSUME NEW ok \in BOOLEAN, PushDeliver(ok)
      PROVE  XInv'
  <2>1. PICK m \in batch : IF ok THEN AutoAck(m) ELSE AfterFailure(m)
    BY <1>3 DEF PushDeliver
  <2>2. job.name \in SubNames
    BY <2>1 DEF XInv, TInv, TypeOK, BatchHasJob, PushJobs
  <2>3. CASE UNCHANGED <<storeVars, disk>>
    BY <2>3 DEF storeVars, XInv
  <2>4. CASE Exists(job.name) /\ StoreAcknowledge(job.name, {m.id})
    BY <2>2, <2>4, ReplaceIndex DEF StoreAcknowledge
  <2>5. CASE ForwardToDeadLetter(job.name, m.id) /\ ~UNCHANGED <<storeVars, disk>>
    <3>. DEFINE s    == job.name
                copy == [k \in {msgCounter + 1} |-> NewMessage(messages[s][m.id].data)]
                sent == FanOut(subscriptions[s].dlt, copy)
    <3>1. /\ Exists(s)
          /\ messages' = [sent EXCEPT ![s] = Without(@, {m.id})]
          /\ UNCHANGED <<topics, subscriptions, topicSubs>>
          /\ persist
      BY <2>5 DEF ForwardToDeadLetter, Forwardable
    <3>2. Rooted(topics, subscriptions, sent)
      BY FanOutRooted
    <3>3. DOMAIN sent = SubNames
      BY DEF FanOut
    <3>4. Rooted(topics', subscriptions', messages')
      <4>. HIDE DEF sent
      <4>. QED  BY <2>2, <3>1, <3>2, <3>3 DEF Rooted, Exists
    <3>. QED  BY <3>1, <3>4, PersistRooted DEF XInv
  <2>. QED  BY <2>1, <2>3, <2>4, <2>5 DEF AutoAck, AfterFailure
<1>. QED  BY <1>1, <1>2, <1>3 DEF PushNext

\* A load rebuilds the index from the subscriptions.
LEMMA EnvIndex ==
  ASSUME XInv, TInv', EnvNext
  PROVE  XInv'
<1>1. CASE Restart
  BY <1>1 DEF Restart, Restarts, load, XInv
<1>2. CASE TornWrite
  BY <1>2 DEF TornWrite, Restarts, load, NoImage, Rooted, XInv
<1>3. CASE Tick
  BY <1>3, AgedEmpty DEF Tick, XInv, Rooted, TInv, TypeOK, IsImage
<1>. QED  BY <1>1, <1>2, <1>3 DEF EnvNext

\* Every step keeps the index consistent.
LEMMA NextIndex == XInv /\ [Next]_vars => XInv'
<1>. SUFFICES ASSUME XInv, [Next]_vars PROVE XInv'
  OBVIOUS
<1>1. TInv'
  BY NextType DEF XInv
<1>2. CASE UNCHANGED vars
  BY <1>1, <1>2 DEF vars, storeVars, XInv
<1>. QED  BY <1>1, <1>2, AdminIndex, PublishIndex, SubscriberIndex, PushIndex, EnvIndex
          DEF Next, PublishNext

\* In every reachable state, across deletes, recreations and restarts, Publish
\* fans out to exactly the subscriptions that name the topic.
THEOREM IndexCorrect == Spec => []IndexConsistent
<1>1. XInv => IndexConsistent
  BY NamesAssumption DEF XInv, Rooted, Indexed, IndexConsistent, Exists
<1>. QED  BY <1>1, InitIndex, NextIndex, PTL DEF Spec

-----------------------------------------------------------------------------
(* Message IDs, and what a restart keeps                                   *)

\* r holds messages of q only, with their payloads.
Keeps(q, r) == \A i \in DOMAIN r : i \in DOMAIN q /\ r[i].data = q[i].data

\* What a step of a running process does to the queues: it adds messages only
\* under IDs it takes from the counter.
Appends ==
  /\ msgCounter' >= msgCounter
  /\ \A s \in SubNames : \A i \in DOMAIN messages'[s] :
       \/ i > msgCounter /\ i <= msgCounter'
       \/ i \in DOMAIN messages[s] /\ messages'[s][i].data = messages[s][i].data

\* No ID in a queue is above the counter.
Fresh(qs, n) == \A s \in SubNames : \A i \in DOMAIN qs[s] : i <= n

\* The lease of m in the file ends no later than the one in memory.
LeaseCovered(m, d) == Available(d) \/ (m.delivered /\ d.ttl <= m.ttl)

\* The image d holds a store, but for attempts and leases that are over sooner.
Covers(d, ts, subs, qs, n) ==
  /\ d.topics = ts /\ d.subscriptions = subs /\ d.msgCounter = n
  /\ \A s \in SubNames :
       /\ DOMAIN d.messages[s] = DOMAIN qs[s]
       /\ \A i \in DOMAIN qs[s] :
            /\ d.messages[s][i].data = qs[s][i].data
            /\ LeaseCovered(qs[s][i], d.messages[s][i])

DiskCovers == DataDir => Covers(disk, topics, subscriptions, messages, msgCounter)

\* Inductive: CrashLosesNothing says nothing of the leases that Tick runs
\* down, and IdsNeverReused needs the counter to bound the IDs on disk too.
DInv ==
  /\ XInv
  /\ Fresh(messages, msgCounter)
  /\ Fresh(disk.messages, disk.msgCounter)
  /\ DiskCovers

\* Handing out keeps IDs and payloads.
LEMMA HandedOutKeeps ==
  ASSUME NEW q, IsQueue(q), NEW ids, NEW d
  PROVE  Keeps(q, HandedOut(q, ids, d))
BY DEF IsQueue, Keeps, HandedOut, Message

\* Counting attempts keeps IDs and payloads.
LEMMA AttemptedKeeps ==
  ASSUME NEW q, IsQueue(q), NEW ids
  PROVE  Keeps(q, Attempted(q, ids))
BY DEF IsQueue, Keeps, Attempted, Message

\* Changing deadlines keeps IDs and payloads.
LEMMA ModifiedKeeps ==
  ASSUME NEW q, IsQueue(q), NEW ids, NEW d
  PROVE  Keeps(q, ModifiedQueue(q, ids, d))
BY DEF IsQueue, Keeps, ModifiedQueue, Modified, Message

\* Time keeps IDs and payloads.
LEMMA AgedKeeps ==
  ASSUME NEW q, IsQueue(q)
  PROVE  Keeps(q, Aged(q))
BY DEF IsQueue, Keeps, Aged, Message

\* Removing messages keeps the IDs and payloads of the others.
LEMMA WithoutKeeps ==
  ASSUME NEW q, NEW ids
  PROVE  Keeps(q, Without(q, ids))
BY DEF Keeps, Without, Restrict

\* Clearing a queue adds nothing.
LEMMA EmptyKeeps == ASSUME NEW q PROVE Keeps(q, EmptyQueue)
BY DEF Keeps, EmptyQueue

\* Replacing a queue by one it keeps adds nothing.
LEMMA ReplaceAppends ==
  ASSUME TInv, NEW s \in SubNames, NEW q, Keeps(messages[s], q),
         messages' = [messages EXCEPT ![s] = q], UNCHANGED msgCounter
  PROVE  Appends
BY DEF TInv, TypeOK, AreQueues, Keeps, Appends

\* A fan-out adds the IDs it is given.
LEMMA FanOutAppends ==
  ASSUME TInv, NEW t, NEW new, NEW s \in SubNames, NEW i \in DOMAIN FanOut(t, new)[s]
  PROVE  \/ i \in DOMAIN new
         \/ i \in DOMAIN messages[s] /\ FanOut(t, new)[s][i].data = messages[s][i].data
BY DEF FanOut, Put

\* Messages put under IDs above the counter are fresh.
LEMMA AppendsFresh ==
  ASSUME DInv, TInv', Appends
  PROVE  Fresh(messages', msgCounter')
<1>1. msgCounter \in Nat /\ msgCounter' \in Nat
  BY BoundsAssumption DEF DInv, XInv, TInv, TypeOK
<1>2. ASSUME NEW s \in SubNames, NEW i \in DOMAIN messages'[s]
      PROVE  i <= msgCounter'
  <2>1. i \in Nat
    BY BoundsAssumption DEF TInv, TypeOK, AreQueues, IsQueue, Ids
  <2>. QED  BY <1>1, <1>2, <2>1 DEF Appends, DInv, Fresh
<1>. QED  BY <1>2 DEF Fresh

\* What persist writes holds only IDs that the counter in the same file has
\* passed.
LEMMA PersistFresh ==
  ASSUME Fresh(messages', msgCounter'), Fresh(disk.messages, disk.msgCounter), persist
  PROVE  Fresh(disk'.messages, disk'.msgCounter)
BY DEF persist, Image, ImageOf, Unattempted, Fresh

\* A step that persists leaves a file that covers the store.
LEMMA PersistCovers ==
  ASSUME TInv', persist
  PROVE  DiskCovers'
<1>1. ASSUME NEW m \in Message
      PROVE  LET d == [m EXCEPT !.attempt = 0]
             IN  d.data = m.data /\ LeaseCovered(m, d)
  BY <1>1 DEF Message, LeaseCovered, Available
<1>2. ASSUME NEW s \in SubNames, NEW i \in DOMAIN messages'[s]
      PROVE  messages'[s][i] \in Message
  BY DEF TInv, TypeOK, AreQueues, IsQueue
<1>. QED  BY <1>1, <1>2 DEF persist, Image, ImageOf, Unattempted, DiskCovers, Covers

\* The two together: a persisting step that only appends.
LEMMA PersistStep ==
  ASSUME DInv, XInv', Appends, persist
  PROVE  DInv'
<1>1. Fresh(messages', msgCounter')
  BY AppendsFresh DEF XInv
<1>. QED  BY <1>1, PersistFresh, PersistCovers DEF DInv, XInv

\* A step that touches neither the store nor the file.
LEMMA IdleStep ==
  ASSUME DInv, XInv', UNCHANGED <<storeVars, disk>>
  PROVE  DInv' /\ Appends
<1>1. msgCounter \in Nat
  BY BoundsAssumption DEF DInv, XInv, TInv, TypeOK
<1>. QED  BY <1>1 DEF DInv, storeVars, DiskCovers, Appends

\* A step that leaves queues and counter alone appends nothing.
LEMMA IdleCounter ==
  ASSUME TInv, UNCHANGED <<messages, msgCounter>>
  PROVE  Appends
<1>1. msgCounter \in Nat
  BY BoundsAssumption DEF TInv, TypeOK
<1>. QED  BY <1>1 DEF Appends

\* The empty store agrees with the missing file.
LEMMA InitDurable == Init => DInv
<1>. SUFFICES ASSUME Init PROVE DInv
  OBVIOUS
<1>1. Fresh(messages, msgCounter) /\ Fresh(disk.messages, disk.msgCounter)
  BY DEF Init, NoImage, EmptyQueue, Fresh
<1>2. DiskCovers
  BY DEF Init, NoImage, EmptyQueue, DiskCovers, Covers
<1>. QED  BY <1>1, <1>2, InitIndex DEF DInv

\* Creating and deleting topics and subscriptions is durable.
LEMMA AdminDurable ==
  ASSUME DInv, XInv', AdminNext
  PROVE  DInv' /\ Appends
<1>. USE DEF DInv, XInv
<1>1. Appends /\ persist
  <2>1. ASSUME NEW t \in Topics, CreateTopic(t) \/ DeleteTopic(t)
        PROVE  Appends /\ persist
    BY <2>1, IdleCounter DEF CreateTopic, DeleteTopic, Appends
  <2>2. ASSUME NEW s \in SubNames,
               \/ \E cfg \in SubConfigs[s] : CreateSubscription(s, cfg)
               \/ DeleteSubscription(s)
        PROVE  Appends /\ persist
    BY <2>2, EmptyKeeps, ReplaceAppends DEF CreateSubscription, DeleteSubscription
  <2>. QED  BY <2>1, <2>2 DEF AdminNext
<1>. QED  BY <1>1, PersistStep

\* Publish is durable.
LEMMA PublishDurable ==
  ASSUME DInv, XInv', NEW t \in Topics, NEW n \in 1..MaxBatch, Publish(t, n)
  PROVE  DInv' /\ Appends
<1>. USE DEF DInv, XInv
<1>. DEFINE ids == (msgCounter + 1)..(msgCounter + n)
            new == [i \in ids |-> NewMessage(i)]
<1>1. /\ msgCounter \in Nat /\ n \in Nat
      /\ msgCounter' = msgCounter + n /\ messages' = FanOut(t, new) /\ persist
  BY BoundsAssumption DEF Publish, TInv, TypeOK
<1>2. ASSUME NEW s \in SubNames, NEW i \in DOMAIN messages'[s]
      PROVE  \/ i > msgCounter /\ i <= msgCounter'
             \/ i \in DOMAIN messages[s] /\ messages'[s][i].data = messages[s][i].data
  <2>1. CASE i \in DOMAIN new
    BY <1>1, <2>1
  <2>2. CASE i \notin DOMAIN new
    <3>. HIDE DEF new
    <3>. QED  BY <1>1, <2>2, FanOutAppends
  <2>. QED  BY <2>1, <2>2
<1>3. Appends
  <2>1. msgCounter' >= msgCounter
    BY <1>1
  <2>. QED  BY <1>2, <2>1 DEF Appends
<1>. QED  BY <1>1, <1>3, PersistStep

\* Pulls, acknowledgements and deadline changes are durable.
LEMMA SubscriberDurable ==
  ASSUME DInv, XInv', SubscriberNext
  PROVE  DInv' /\ Appends
<1>. USE DEF DInv, XInv
<1>1. \A s \in SubNames : IsQueue(messages[s])
  BY DEF TInv, TypeOK, AreQueues
<1>2. ASSUME NEW s \in SubNames, NEW n, StorePull(s, n)
      PROVE  DInv' /\ Appends
  BY <1>1, <1>2, HandedOutKeeps, ReplaceAppends, PersistStep DEF StorePull
<1>3. ASSUME NEW s \in SubNames, NEW ids, Acknowledge(s, ids)
      PROVE  DInv' /\ Appends
  BY <1>3, WithoutKeeps, ReplaceAppends, PersistStep DEF Acknowledge, StoreAcknowledge
<1>4. ASSUME NEW s \in SubNames, NEW ids, NEW d, ModifyAckDeadline(s, ids, d)
      PROVE  DInv' /\ Appends
  BY <1>1, <1>4, ModifiedKeeps, ReplaceAppends, PersistStep DEF ModifyAckDeadline
<1>5. ASSUME NEW c \in Streams, StreamPoll(c)
      PROVE  DInv' /\ Appends
  <2>1. streams[c] \in SubNames
    BY <1>5 DEF StreamPoll, TInv, TypeOK
  <2>. QED  BY <1>2, <1>5, <2>1 DEF StreamPoll
<1>6. ASSUME NEW c, NEW s, StreamOpen(c, s) \/ StreamClose(c)
      PROVE  DInv' /\ Appends
  BY <1>6, IdleStep DEF StreamOpen, StreamClose
<1>. QED  BY <1>2, <1>3, <1>4, <1>5, <1>6 DEF SubscriberNext, Pull

\* A message that is deliverable on disk is covered whatever its lease.
LEMMA AvailableCovered ==
  ASSUME NEW m \in Message, NEW d \in Message, Available(d)
  PROVE  LeaseCovered(m, d)
BY DEF LeaseCovered, Available, Message

\* What is deliverable in memory is deliverable on disk.
LEMMA CoveredAvailable ==
  ASSUME NEW m \in Message, NEW d \in Message, LeaseCovered(m, d), Available(m)
  PROVE  Available(d)
BY DEF Message, LeaseCovered, Available

\* The lease PullAllUndelivered takes in memory only leaves the file covering:
\* the messages it leases were deliverable on disk.
LEMMA PushPullDurable ==
  ASSUME DInv, XInv', NEW j \in round, PushPull(j)
  PROVE  DInv' /\ Appends
<1>. USE DEF DInv, XInv
<1>. DEFINE s   == j.name
            ids == Deliverable(messages[s])
            q   == HandedOut(messages[s], ids, subscriptions[s].ackDeadline)
<1>1. CASE UNCHANGED messages
  BY <1>1, IdleStep DEF PushPull, storeVars
<1>2. CASE messages' = [messages EXCEPT ![s] = Attempted(q, ids)] /\ Exists(s)
  <2>1. s \in SubNames /\ AreQueues(messages) /\ AreQueues(disk.messages)
    BY DEF TInv, TypeOK, PushJobs, IsImage
  <2>2. IsQueue(messages[s]) /\ subscriptions[s].ackDeadline \in Nat
    BY <1>2, <2>1 DEF TInv, TypeOK, AreQueues, Exists, Subscription
  <2>3. IsQueue(q)
    BY <2>2, HandedOutIsQueue
  <2>4. Keeps(messages[s], Attempted(q, ids))
    <3>1. Keeps(messages[s], q) /\ Keeps(q, Attempted(q, ids))
      BY <2>2, <2>3, HandedOutKeeps, AttemptedKeeps
    <3>. QED  BY <3>1 DEF Keeps
  <2>5. UNCHANGED <<topics, subscriptions, msgCounter, disk>>
    BY DEF PushPull
  <2>6. Appends
    BY <1>2, <2>1, <2>4, <2>5, ReplaceAppends
  <2>7. Fresh(messages', msgCounter')
    BY <2>6, AppendsFresh
  <2>8. ASSUME DataDir, NEW r \in SubNames
        PROVE  /\ DOMAIN disk.messages[r] = DOMAIN messages'[r]
               /\ \A i \in DOMAIN messages'[r] :
                    /\ disk.messages[r][i].data = messages'[r][i].data
                    /\ LeaseCovered(messages'[r][i], disk.messages[r][i])
    <3>1. /\ DOMAIN disk.messages[r] = DOMAIN messages[r]
          /\ \A i \in DOMAIN messages[r] :
               /\ disk.messages[r][i].data = messages[r][i].data
               /\ LeaseCovered(messages[r][i], disk.messages[r][i])
      BY <2>8 DEF DiskCovers, Covers
    <3>2. CASE r # s
      BY <1>2, <2>1, <3>1, <3>2 DEF AreQueues
    <3>3. CASE r = s
      <4>1. messages'[s] = Attempted(q, ids)
        BY <1>2, <2>1 DEF AreQueues
      <4>2. DOMAIN messages'[s] = DOMAIN messages[s]
        BY <4>1 DEF Attempted, HandedOut
      <4>3. ASSUME NEW i \in DOMAIN messages[s]
            PROVE  LeaseCovered(messages'[s][i], disk.messages[s][i])
        <5>1. messages[s][i] \in Message /\ disk.messages[s][i] \in Message
          BY <2>1, <3>1, <3>3 DEF AreQueues, IsQueue
        <5>2. CASE i \in ids
          <6>1. Available(messages[s][i])
            BY <5>2 DEF Deliverable
          <6>2. LeaseCovered(messages[s][i], disk.messages[s][i])
            BY <3>1, <3>3
          <6>3. Available(disk.messages[s][i])
            BY <5>1, <6>1, <6>2, CoveredAvailable
          <6>4. messages'[s][i] \in Message
            BY <2>1, <4>2 DEF TInv, TypeOK, AreQueues, IsQueue
          <6>. QED  BY <5>1, <6>3, <6>4, AvailableCovered
        <5>3. CASE i \notin ids
          <6>1. messages'[s][i] = messages[s][i]
            BY <4>1, <5>3 DEF Attempted, HandedOut
          <6>. QED  BY <3>1, <3>3, <6>1
        <5>. QED  BY <5>2, <5>3
      <4>. QED  BY <2>4, <3>1, <3>3, <4>1, <4>2, <4>3 DEF Keeps
    <3>. QED  BY <3>2, <3>3
  <2>9. DiskCovers'
    BY <2>5, <2>8 DEF DiskCovers, Covers
  <2>. QED  BY <2>5, <2>6, <2>7, <2>9
<1>. QED  BY <1>1, <1>2 DEF PushPull

\* The push loop is durable but for the leases it takes.
LEMMA PushDurable ==
  ASSUME DInv, XInv', PushNext
  PROVE  DInv' /\ Appends
<1>. USE DEF DInv, XInv
<1>1. CASE PushTick
  BY <1>1, IdleStep DEF PushTick
<1>2. ASSUME NEW ok \in BOOLEAN, PushDeliver(ok)
      PROVE  DInv' /\ Appends
  <2>1. PICK m \in batch : IF ok THEN AutoAck(m) ELSE AfterFailure(m)
    BY <1>2 DEF PushDeliver
  <2>2. job.name \in SubNames
    BY <2>1 DEF TInv, TypeOK, BatchHasJob, PushJobs
  <2>3. CASE UNCHANGED <<storeVars, disk>>
    BY <2>3, IdleStep
  <2>4. CASE StoreAcknowledge(job.name, {m.id})
    BY <2>2, <2>4, WithoutKeeps, ReplaceAppends, PersistStep DEF StoreAcknowledge
  <2>5. CASE ForwardToDeadLetter(job.name, m.id) /\ ~UNCHANGED <<storeVars, disk>>
    <3>. DEFINE s    == job.name
                copy == [k \in {msgCounter + 1} |-> NewMessage(messages[s][m.id].data)]
                sent == FanOut(subscriptions[s].dlt, copy)
    <3>1. /\ msgCounter' = msgCounter + 1
          /\ messages' = [sent EXCEPT ![s] = Without(@, {m.id})]
          /\ persist
      BY <2>5 DEF ForwardToDeadLetter, Forwardable
    <3>2. msgCounter \in Nat
      BY BoundsAssumption DEF TInv, TypeOK
    <3>3. ASSUME NEW r \in SubNames
          PROVE  Keeps(sent[r], messages'[r])
      <4>1. DOMAIN sent = SubNames
        BY DEF FanOut
      <4>. HIDE DEF sent
      <4>. QED  BY <3>1, <4>1, WithoutKeeps DEF Keeps
    <3>4. ASSUME NEW r \in SubNames, NEW i \in DOMAIN messages'[r]
          PROVE  \/ i > msgCounter /\ i <= msgCounter'
                 \/ i \in DOMAIN messages[r] /\ messages'[r][i].data = messages[r][i].data
      <4>1. i \in DOMAIN sent[r] /\ messages'[r][i].data = sent[r][i].data
        BY <3>3 DEF Keeps
      <4>2. CASE i \in DOMAIN copy
        <5>1. i = msgCounter + 1
          BY <4>2
        <5>2. i > msgCounter /\ i <= msgCounter + 1
          BY <3>2, <5>1
        <5>. QED  BY <3>1, <5>2
      <4>3. CASE i \notin DOMAIN copy
        <5>1. TInv /\ i \in DOMAIN FanOut(subscriptions[s].dlt, copy)[r]
          BY <4>1
        <5>2. i \in DOMAIN messages[r] /\ sent[r][i].data = messages[r][i].data
          <6>. HIDE DEF copy
          <6>. QED  BY <4>3, <5>1, FanOutAppends
        <5>3. messages'[r][i].data = messages[r][i].data
          BY <4>1, <5>2
        <5>. QED  BY <5>2, <5>3
      <4>. QED  BY <4>2, <4>3
    <3>5. msgCounter' >= msgCounter
      <4>1. msgCounter' = msgCounter + 1
        BY <3>1
      <4>. HIDE DEF s, copy, sent
      <4>. QED  BY <3>2, <4>1
    <3>6. Appends
      BY <3>4, <3>5 DEF Appends
    <3>. QED  BY <3>1, <3>6, PersistStep
  <2>. QED  BY <2>1, <2>3, <2>4, <2>5 DEF AutoAck, AfterFailure
<1>. QED  BY <1>1, <1>2, PushPullDurable DEF PushNext

\* A message and its image age together.
LEMMA AgedCovered ==
  ASSUME NEW m \in Message, NEW d \in Message, LeaseCovered(m, d)
  PROVE  LeaseCovered([m EXCEPT !.ttl = IF @ > 0 THEN @ - 1 ELSE 0],
                      [d EXCEPT !.ttl = IF @ > 0 THEN @ - 1 ELSE 0])
BY DEF Message, LeaseCovered, Available

\* Deadlines pass in the file as they do in memory.
LEMMA TickDurable ==
  ASSUME DInv, XInv', Tick
  PROVE  DInv' /\ Appends
<1>. USE DEF DInv, XInv
<1>1. /\ AreQueues(messages) /\ AreQueues(disk.messages) /\ msgCounter \in Nat
      /\ messages' = [s \in SubNames |-> Aged(messages[s])]
      /\ disk'.messages = [s \in SubNames |-> Aged(disk.messages[s])]
      /\ disk'.topics = disk.topics /\ disk'.subscriptions = disk.subscriptions
      /\ disk'.msgCounter = disk.msgCounter
      /\ UNCHANGED <<topics, subscriptions, msgCounter>>
  BY BoundsAssumption DEF Tick, TInv, TypeOK, IsImage
<1>2. Appends
  BY <1>1, AgedKeeps DEF Appends, Keeps, AreQueues
<1>3. Fresh(messages', msgCounter') /\ Fresh(disk'.messages, disk'.msgCounter)
  BY <1>1 DEF Fresh, Aged
<1>4. DiskCovers'
  <2>1. ASSUME DataDir, NEW s \in SubNames
        PROVE  /\ DOMAIN disk'.messages[s] = DOMAIN messages'[s]
               /\ \A i \in DOMAIN messages'[s] :
                    /\ disk'.messages[s][i].data = messages'[s][i].data
                    /\ LeaseCovered(messages'[s][i], disk'.messages[s][i])
    <3>1. /\ DOMAIN disk.messages[s] = DOMAIN messages[s]
          /\ \A i \in DOMAIN messages[s] :
               /\ disk.messages[s][i].data = messages[s][i].data
               /\ LeaseCovered(messages[s][i], disk.messages[s][i])
               /\ messages[s][i] \in Message /\ disk.messages[s][i] \in Message
      BY <1>1, <2>1 DEF DiskCovers, Covers, AreQueues, IsQueue
    <3>2. DOMAIN messages'[s] = DOMAIN messages[s]
      BY <1>1 DEF Aged
    <3>3. DOMAIN disk'.messages[s] = DOMAIN messages[s]
      BY <1>1, <3>1 DEF Aged
    <3>4. Keeps(messages[s], messages'[s]) /\ Keeps(disk.messages[s], disk'.messages[s])
      BY <1>1, AgedKeeps DEF AreQueues
    <3>5. ASSUME NEW i \in DOMAIN messages[s]
          PROVE  LeaseCovered(messages'[s][i], disk'.messages[s][i])
      <4>1. /\ messages'[s][i] = [messages[s][i] EXCEPT !.ttl = IF @ > 0 THEN @ - 1 ELSE 0]
            /\ disk'.messages[s][i] =
                 [disk.messages[s][i] EXCEPT !.ttl = IF @ > 0 THEN @ - 1 ELSE 0]
        <5>1. messages'[s] = Aged(messages[s]) /\ disk'.messages[s] = Aged(disk.messages[s])
          BY <1>1
        <5>2. i \in DOMAIN messages[s] /\ i \in DOMAIN disk.messages[s]
          BY <3>1
        <5>. QED  BY <5>1, <5>2 DEF Aged
      <4>2. LeaseCovered(messages[s][i], disk.messages[s][i])
        BY <3>1
      <4>3. messages[s][i] \in Message /\ disk.messages[s][i] \in Message
        BY <3>1
      <4>. QED  BY <4>1, <4>2, <4>3, AgedCovered
    <3>. QED  BY <3>1, <3>2, <3>3, <3>4, <3>5 DEF Keeps
  <2>. QED  BY <1>1, <2>1 DEF DiskCovers, Covers
<1>. QED  BY <1>2, <1>3, <1>4

\* A restart from the file appends nothing when there is a data directory, and
\* one from a torn file leaves store and file both empty.
LEMMA RestartDurable ==
  ASSUME DInv, XInv', Restart
  PROVE  DInv' /\ (DataDir => Appends)
<1>. USE DEF DInv, XInv
<1>1. /\ messages' = disk.messages /\ topics' = disk.topics
      /\ subscriptions' = disk.subscriptions /\ msgCounter' = disk.msgCounter
      /\ disk' = disk
  BY DEF Restart, Restarts, load
<1>2. ASSUME NEW s \in SubNames, NEW i \in DOMAIN disk.messages[s]
      PROVE  LeaseCovered(disk.messages[s][i], disk.messages[s][i])
  <2>1. disk.messages[s][i] \in Message
    BY DEF TInv, TypeOK, IsImage, AreQueues, IsQueue
  <2>. QED  BY <2>1 DEF Message, LeaseCovered, Available
<1>3. DiskCovers'
  BY <1>1, <1>2 DEF DiskCovers, Covers
<1>4. DataDir => Appends
  <2>1. msgCounter \in Nat
    BY BoundsAssumption DEF TInv, TypeOK
  <2>. QED  BY <1>1, <2>1 DEF DiskCovers, Covers, Appends
<1>. QED  BY <1>1, <1>3, <1>4 DEF Fresh

\* A torn write leaves an empty store and a file that loads as one.
LEMMA TornDurable ==
  ASSUME DInv, XInv', TornWrite
  PROVE  DInv'
BY DEF DInv, XInv, TornWrite, Restarts, load, NoImage, EmptyQueue, Fresh,
       DiskCovers, Covers

\* Every step but the loss of the file appends.
LEMMA NextDurable ==
  ASSUME DInv, [Next]_vars
  PROVE  DInv' /\ (DataDir /\ ~TornWrite => Appends)
<1>1. XInv'
  BY NextIndex DEF DInv
<1>2. CASE UNCHANGED vars
  BY <1>1, <1>2, IdleStep DEF vars
<1>3. CASE EnvNext
  BY <1>1, <1>3, RestartDurable, TornDurable, TickDurable DEF EnvNext
<1>. QED  BY <1>1, <1>2, <1>3, AdminDurable, PublishDurable, SubscriberDurable,
             PushDurable DEF Next, PublishNext

\* The file always holds every topic, subscription, message and ID the store
\* has: a restart loses nothing but leases of the push loop and attempts.
THEOREM Durability == Spec => []CrashLosesNothing
<1>1. DInv => CrashLosesNothing
  BY DEF DInv, DiskCovers, Covers, CrashLosesNothing
<1>2. DInv /\ [Next]_vars => DInv'
  BY NextDurable
<1>. QED  BY <1>1, <1>2, InitDurable, PTL DEF Spec

\* What could be delivered before a restart can be delivered after it.
THEOREM LeaseDurability == Spec => []RestartNeverExtendsLease
<1>1. DInv => RestartNeverExtendsLease
  <2>. SUFFICES ASSUME DInv, DataDir, NEW s \in SubNames, NEW i \in DOMAIN messages[s],
                       Available(messages[s][i])
                PROVE  Available(disk.messages[s][i])
    BY DEF RestartNeverExtendsLease
  <2>1. /\ LeaseCovered(messages[s][i], disk.messages[s][i])
        /\ i \in DOMAIN disk.messages[s]
    BY DEF DInv, DiskCovers, Covers
  <2>2. messages[s][i] \in Message /\ disk.messages[s][i] \in Message
    BY <2>1 DEF DInv, XInv, TInv, TypeOK, IsImage, AreQueues, IsQueue
  <2>. QED  BY <2>1, <2>2, CoveredAvailable
<1>2. DInv /\ [Next]_vars => DInv'
  BY NextDurable
<1>. QED  BY <1>1, <1>2, InitDurable, PTL DEF Spec

\* An ack ID is never given to a second message, whatever is deleted,
\* recreated, forwarded or restarted in between.
THEOREM FreshIds == Spec => IdsNeverReused
<1>1. DInv /\ [Next]_vars => DInv'
  BY NextDurable
<1>2. DInv /\ [Next]_vars =>
        [DataDir /\ ~TornWrite =>
          /\ msgCounter' >= msgCounter
          /\ \A s \in SubNames : \A i \in DOMAIN messages'[s] :
               \/ i > msgCounter
               \/ i \in DOMAIN messages[s] /\ messages'[s][i].data = messages[s][i].data]_vars
  BY NextDurable DEF Appends
<1>. QED  BY <1>1, <1>2, InitDurable, PTL DEF Spec, IdsNeverReused
-----------------------------------------------------------------------------
(* What the push loop holds, and dead-lettering                            *)

\* r holds messages of q only, with their counts of attempts.
KeepsCounts(q, r) == \A i \in DOMAIN r : i \in DOMAIN q /\ r[i].attempt = q[i].attempt

\* A step that counts no attempt of a message that is queued.
CountsNothing ==
  \A s \in SubNames : \A i \in DOMAIN messages'[s] :
    \/ i > msgCounter
    \/ i \in DOMAIN messages[s] /\ messages'[s][i].attempt = messages[s][i].attempt

\* The message m of a batch describes what is queued under its ID.
Describes(q, m) ==
  m.id \in DOMAIN q => q[m.id].data = m.data /\ q[m.id].attempt = m.attempt

\* Without a data directory no file is ever written.
NoFile == ~DataDir => disk.msgCounter = 0

\* Inductive: the batch names messages by ID, so it stays right because IDs are
\* never reused (DInv) and because only the loop itself counts attempts.
FInv ==
  /\ DInv
  /\ NoFile
  /\ \A m \in batch : m.id <= msgCounter /\ Describes(messages[job.name], m)

\* Subscribers' operations, time, acknowledgements and deletions count nothing.
LEMMA HandedOutCounts ==
  ASSUME NEW q, IsQueue(q), NEW ids, NEW d
  PROVE  KeepsCounts(q, HandedOut(q, ids, d))
BY DEF IsQueue, KeepsCounts, HandedOut, Message

\* Changing deadlines counts no attempt.
LEMMA ModifiedCounts ==
  ASSUME NEW q, IsQueue(q), NEW ids, NEW d
  PROVE  KeepsCounts(q, ModifiedQueue(q, ids, d))
BY DEF IsQueue, KeepsCounts, ModifiedQueue, Modified, Message

\* Time counts no attempt.
LEMMA AgedCounts ==
  ASSUME NEW q, IsQueue(q)
  PROVE  KeepsCounts(q, Aged(q))
BY DEF IsQueue, KeepsCounts, Aged, Message

\* Removing messages leaves the counts of the others.
LEMMA WithoutCounts ==
  ASSUME NEW q, NEW ids
  PROVE  KeepsCounts(q, Without(q, ids))
BY DEF KeepsCounts, Without, Restrict

\* Clearing a queue counts nothing.
LEMMA EmptyCounts == ASSUME NEW q PROVE KeepsCounts(q, EmptyQueue)
BY DEF KeepsCounts, EmptyQueue

\* Replacing one queue by one that keeps its counts.
LEMMA ReplaceCounts ==
  ASSUME TInv, NEW s \in SubNames, NEW q, KeepsCounts(messages[s], q),
         messages' = [messages EXCEPT ![s] = q]
  PROVE  CountsNothing
BY DEF TInv, TypeOK, AreQueues, KeepsCounts, CountsNothing

\* A fan-out leaves the messages that are queued alone.
LEMMA FanOutCounts ==
  ASSUME NEW t, NEW new, NEW s \in SubNames, NEW i \in DOMAIN FanOut(t, new)[s],
         i \notin DOMAIN new
  PROVE  i \in DOMAIN messages[s] /\ FanOut(t, new)[s][i] = messages[s][i]
BY DEF FanOut, Put

\* A fan-out removes nothing.
LEMMA FanOutRemovesNothing ==
  ASSUME NEW t, NEW new, NEW s \in SubNames
  PROVE  DOMAIN messages[s] \subseteq DOMAIN FanOut(t, new)[s]
BY DEF FanOut, Put

\* A step that leaves the queues alone counts nothing.
LEMMA IdleCounts == ASSUME UNCHANGED messages PROVE CountsNothing
BY DEF CountsNothing

\* A publish counts nothing.
LEMMA PublishCounts ==
  ASSUME TInv, NEW t, NEW n \in 1..MaxBatch, Publish(t, n)
  PROVE  CountsNothing
<1>. DEFINE new == [i \in (msgCounter + 1)..(msgCounter + n) |-> NewMessage(i)]
<1>1. messages' = FanOut(t, new) /\ msgCounter \in Nat
  BY BoundsAssumption DEF Publish, TInv, TypeOK
<1>2. \A i \in DOMAIN new : i > msgCounter
  BY <1>1
<1>. HIDE DEF new
<1>. QED  BY <1>1, <1>2, FanOutCounts DEF CountsNothing

\* A copy of the message goes to the dead letter topic, and it is gone.
MovesTheMessage(s, i) ==
  LET copy == [k \in {msgCounter + 1} |-> NewMessage(messages[s][i].data)]
      sent == FanOut(subscriptions[s].dlt, copy)
  IN  /\ i \in DOMAIN messages[s]
      /\ subscriptions[s].dlt \in topics
      /\ msgCounter' = msgCounter + 1
      /\ messages'[s] = Without(sent[s], {i})
      /\ \A r \in SubNames \ {s} : messages'[r] = sent[r]

\* What ForwardToDeadLetter does when it forwards.
LEMMA ForwardEffect ==
  ASSUME TInv, NEW s \in SubNames, NEW i, ForwardToDeadLetter(s, i),
         ~UNCHANGED <<storeVars, disk>>
  PROVE  MovesTheMessage(s, i)
BY DEF ForwardToDeadLetter, Forwardable, FanOut, MovesTheMessage

\* Nor does a forward.
LEMMA ForwardCounts ==
  ASSUME TInv, NEW s \in SubNames, NEW i, ForwardToDeadLetter(s, i)
  PROVE  CountsNothing
<1>1. CASE UNCHANGED <<storeVars, disk>>
  BY <1>1, IdleCounts DEF storeVars
<1>2. CASE ~UNCHANGED <<storeVars, disk>>
  <2>. DEFINE copy == [k \in {msgCounter + 1} |-> NewMessage(messages[s][i].data)]
              sent == FanOut(subscriptions[s].dlt, copy)
  <2>1. /\ messages'[s] = Without(sent[s], {i})
        /\ \A r \in SubNames \ {s} : messages'[r] = sent[r]
    <3>1. MovesTheMessage(s, i)
      BY <1>2, ForwardEffect
    <3>. QED  BY <3>1 DEF MovesTheMessage
  <2>2. msgCounter \in Nat
    BY BoundsAssumption DEF TInv, TypeOK
  <2>3. \A k \in DOMAIN copy : k > msgCounter
    BY <2>2
  <2>4. ASSUME NEW r \in SubNames, NEW k \in DOMAIN messages'[r], ~(k > msgCounter)
        PROVE  k \in DOMAIN messages[r] /\ messages'[r][k].attempt = messages[r][k].attempt
    <3>1. k \in DOMAIN sent[r] /\ messages'[r][k].attempt = sent[r][k].attempt
      <4>. HIDE DEF sent
      <4>. QED  BY <2>1, WithoutCounts DEF KeepsCounts
    <3>2. k \notin DOMAIN copy
      BY <2>3, <2>4
    <3>. HIDE DEF copy
    <3>. QED  BY <3>1, <3>2, FanOutCounts
  <2>. QED  BY <2>4 DEF CountsNothing
<1>. QED  BY <1>1, <1>2

\* A step that neither counts nor reuses IDs keeps what is in flight described.
LEMMA InFlightStep ==
  ASSUME FInv, DInv', Appends, CountsNothing, NoFile',
         batch' \subseteq batch, batch' # {} => job' = job
  PROVE  FInv'
<1>1. ASSUME NEW m \in batch'
      PROVE  m.id <= msgCounter' /\ Describes(messages[job.name], m)'
  <2>1. m \in batch /\ job' = job
    BY <1>1
  <2>2. job \in PushJobs /\ job.name \in SubNames
    BY <2>1 DEF FInv, DInv, XInv, TInv, TypeOK, BatchHasJob, PushJobs
  <2>3. m.id <= msgCounter /\ Describes(messages[job.name], m)
    BY <2>1 DEF FInv
  <2>4. m.id \in Nat /\ msgCounter \in Nat /\ msgCounter' \in Nat
    <3>1. m.id \in Ids
      BY <2>1 DEF FInv, DInv, XInv, TInv, TypeOK
    <3>2. TypeOK /\ TypeOK'
      BY DEF FInv, DInv, XInv, TInv
    <3>. QED  BY <3>1, <3>2, BoundsAssumption DEF TypeOK, Ids
  <2>5. m.id <= msgCounter' /\ ~(m.id > msgCounter)
    BY <2>3, <2>4 DEF Appends
  <2>6. ASSUME m.id \in DOMAIN messages'[job.name]
        PROVE  /\ m.id \in DOMAIN messages[job.name]
               /\ messages'[job.name][m.id].data = messages[job.name][m.id].data
               /\ messages'[job.name][m.id].attempt = messages[job.name][m.id].attempt
    BY <2>2, <2>5, <2>6 DEF Appends, CountsNothing
  <2>. QED  BY <2>1, <2>3, <2>5, <2>6 DEF Describes
<1>. QED  BY <1>1 DEF FInv

\* persist and a step that leaves the file alone write no file without a data
\* directory.
LEMMA PersistNoFile ==
  ASSUME NoFile, persist \/ UNCHANGED disk
  PROVE  NoFile'
BY DEF NoFile, persist

\* The store operations the RPCs call: none touches the push loop.
LEMMA CallsInFlight ==
  ASSUME FInv, DInv', AdminNext \/ PublishNext \/ SubscriberNext
  PROVE  FInv'
<1>. USE DEF FInv, DInv, XInv
<1>1. UNCHANGED <<batch, job>> /\ NoFile'
  <2>1. CASE AdminNext
    BY <2>1, PersistNoFile
    DEF AdminNext, CreateTopic, DeleteTopic, CreateSubscription, DeleteSubscription, pushVars
  <2>2. CASE PublishNext
    BY <2>2, PersistNoFile DEF PublishNext, Publish, pushVars
  <2>3. CASE SubscriberNext
    BY <2>3, PersistNoFile
    DEF SubscriberNext, Pull, Acknowledge, ModifyAckDeadline, StreamOpen, StreamPoll,
        StreamClose, StorePull, StoreAcknowledge, pushVars
  <2>. QED  BY <2>1, <2>2, <2>3
<1>2. Appends
  BY AdminDurable, PublishDurable, SubscriberDurable DEF PublishNext
<1>3. CountsNothing
  <2>1. \A s \in SubNames : IsQueue(messages[s])
    BY DEF TInv, TypeOK, AreQueues
  <2>2. ASSUME NEW t \in Topics, CreateTopic(t) \/ DeleteTopic(t)
        PROVE  CountsNothing
    BY <2>2, IdleCounts DEF CreateTopic, DeleteTopic
  <2>3. ASSUME NEW s \in SubNames,
               \/ \E cfg \in SubConfigs[s] : CreateSubscription(s, cfg)
               \/ DeleteSubscription(s)
        PROVE  CountsNothing
    BY <2>3, EmptyCounts, ReplaceCounts DEF CreateSubscription, DeleteSubscription
  <2>4. ASSUME NEW s \in SubNames, NEW n, StorePull(s, n)
        PROVE  CountsNothing
    BY <2>1, <2>4, HandedOutCounts, ReplaceCounts DEF StorePull
  <2>5. ASSUME NEW s \in SubNames, NEW ids, Acknowledge(s, ids)
        PROVE  CountsNothing
    BY <2>5, WithoutCounts, ReplaceCounts DEF Acknowledge, StoreAcknowledge
  <2>6. ASSUME NEW s \in SubNames, NEW ids, NEW d, ModifyAckDeadline(s, ids, d)
        PROVE  CountsNothing
    BY <2>1, <2>6, ModifiedCounts, ReplaceCounts DEF ModifyAckDeadline
  <2>7. ASSUME NEW c \in Streams, StreamPoll(c)
        PROVE  CountsNothing
    <3>1. streams[c] \in SubNames
      BY <2>7 DEF StreamPoll, TInv, TypeOK
    <3>. QED  BY <2>4, <2>7, <3>1 DEF StreamPoll
  <2>8. ASSUME NEW c, NEW s, StreamOpen(c, s) \/ StreamClose(c)
        PROVE  CountsNothing
    BY <2>8, IdleCounts DEF StreamOpen, StreamClose, storeVars
  <2>. QED  BY <2>2, <2>3, <2>4, <2>5, <2>6, <2>7, <2>8, PublishCounts
            DEF AdminNext, PublishNext, SubscriberNext, Pull
<1>. QED  BY <1>1, <1>2, <1>3, InFlightStep

\* PullAllUndelivered takes the batch down as it counts the attempts.
LEMMA PullInFlight ==
  ASSUME FInv, DInv', NEW j \in round, PushPull(j)
  PROVE  FInv'
<1>. USE DEF FInv, DInv, XInv, TInv
<1>1. NoFile' /\ msgCounter' = msgCounter
  BY PersistNoFile DEF PushPull
<1>2. j.name \in SubNames
  BY DEF TypeOK, PushJobs
<1>3. CASE ~UNCHANGED batch
  <2>. DEFINE s == j.name
              ids == Deliverable(messages[s])
              leased == HandedOut(messages[s], ids, subscriptions[s].ackDeadline)
  <2>1. /\ messages' = [messages EXCEPT ![s] = Attempted(leased, ids)]
        /\ batch' = {[id |-> i, data |-> messages[s][i].data,
                      attempt |-> Bump(messages[s][i].attempt)] : i \in ids}
        /\ job' = j
    BY <1>3 DEF PushPull
  <2>2. IsQueue(messages[s]) /\ messages'[s] = Attempted(leased, ids)
    BY <1>2, <2>1 DEF TypeOK, AreQueues
  <2>3. ASSUME NEW i \in ids
        PROVE  /\ i <= msgCounter
               /\ messages'[s][i].data = messages[s][i].data
               /\ messages'[s][i].attempt = Bump(messages[s][i].attempt)
    <3>1. i \in DOMAIN messages[s] /\ messages[s][i] \in Message
      BY <2>2 DEF IsQueue, Deliverable
    <3>2. i \in DOMAIN leased /\ leased[i] = [messages[s][i] EXCEPT !.delivered = TRUE,
                                                 !.ttl = subscriptions[s].ackDeadline]
      BY <3>1 DEF HandedOut
    <3>3. leased[i].data = messages[s][i].data /\ leased[i].attempt = messages[s][i].attempt
      BY <3>1, <3>2 DEF Message
    <3>4. Attempted(leased, ids)[i] = [leased[i] EXCEPT !.attempt = Bump(@)]
      <4>. HIDE DEF leased, ids
      <4>. QED  BY <2>3, <3>2 DEF Attempted
    <3>5. /\ Attempted(leased, ids)[i].data = leased[i].data
          /\ Attempted(leased, ids)[i].attempt = Bump(leased[i].attempt)
      <4>1. "data" \in DOMAIN leased[i] /\ "attempt" \in DOMAIN leased[i]
        BY <3>1, <3>2 DEF Message
      <4>. HIDE DEF leased, ids
      <4>. QED  BY <3>4, <4>1
    <3>6. i <= msgCounter
      BY <1>2, <3>1 DEF Fresh
    <3>. HIDE DEF leased, ids
    <3>. QED  BY <2>2, <3>3, <3>5, <3>6
  <2>4. ASSUME NEW m \in batch'
        PROVE  m.id <= msgCounter' /\ Describes(messages[job.name], m)'
    <3>1. PICK i \in ids : m = [id |-> i, data |-> messages[s][i].data,
                                attempt |-> Bump(messages[s][i].attempt)]
      BY <2>1
    <3>. HIDE DEF ids
    <3>. QED  BY <1>1, <2>1, <2>3, <3>1 DEF Describes
  <2>. QED  BY <1>1, <2>4
<1>4. CASE UNCHANGED batch
  <2>1. job = NoJob /\ batch = {}
    BY DEF PushPull, BatchHasJob
  <2>. QED  BY <1>1, <1>4, <2>1
<1>. QED  BY <1>3, <1>4

\* A delivery takes its message off the batch, and may remove one message or
\* put a copy under a new ID: the rest of the batch stays described.
LEMMA DeliverInFlight ==
  ASSUME FInv, DInv', NEW ok \in BOOLEAN, PushDeliver(ok)
  PROVE  FInv'
<1>. USE DEF FInv, DInv, XInv
<1>1. PICK m \in batch :
        /\ IF ok THEN AutoAck(m) ELSE AfterFailure(m)
        /\ batch' = batch \ {m}
        /\ job' = IF batch' = {} THEN NoJob ELSE job
  BY DEF PushDeliver
<1>2. job.name \in SubNames
  BY <1>1 DEF TInv, TypeOK, BatchHasJob, PushJobs
<1>3. Appends
  BY PushDurable DEF PushNext
<1>4. CountsNothing /\ NoFile'
  <2>1. CASE UNCHANGED <<storeVars, disk>>
    BY <2>1, IdleCounts, PersistNoFile DEF storeVars
  <2>2. CASE StoreAcknowledge(job.name, {m.id})
    BY <1>2, <2>2, WithoutCounts, ReplaceCounts, PersistNoFile DEF StoreAcknowledge
  <2>3. CASE ForwardToDeadLetter(job.name, m.id)
    <3>1. persist \/ UNCHANGED disk
      BY <2>3 DEF ForwardToDeadLetter, Forwardable
    <3>. QED  BY <1>2, <2>3, <3>1, ForwardCounts, PersistNoFile
  <2>. QED  BY <1>1, <2>1, <2>2, <2>3 DEF AutoAck, AfterFailure
<1>. QED  BY <1>1, <1>3, <1>4, InFlightStep

\* A restart drops the batch; time changes neither payloads nor counts.
LEMMA EnvInFlight ==
  ASSUME FInv, DInv', EnvNext
  PROVE  FInv'
<1>. USE DEF FInv, DInv, XInv
<1>1. CASE Restart \/ TornWrite
  <2>1. batch' = {} /\ NoFile'
    BY <1>1 DEF Restart, TornWrite, Restarts, NoFile
  <2>. QED  BY <2>1
<1>2. CASE Tick
  <2>1. NoFile' /\ UNCHANGED <<batch, job>>
    <3>1. disk'.msgCounter = disk.msgCounter
      BY <1>2 DEF Tick, TInv, TypeOK, IsImage
    <3>. QED  BY <1>2, <3>1 DEF Tick, NoFile, pushVars
  <2>2. CountsNothing
    BY <1>2, AgedCounts DEF Tick, TInv, TypeOK, AreQueues, KeepsCounts, CountsNothing
  <2>. QED  BY <1>2, <2>1, <2>2, TickDurable, InFlightStep
<1>. QED  BY <1>1, <1>2 DEF EnvNext

\* Every step keeps what is in flight described.
LEMMA NextInFlight ==
  ASSUME FInv, [Next]_vars
  PROVE  FInv'
<1>1. DInv'
  BY NextDurable DEF FInv
<1>2. CASE UNCHANGED vars
  BY <1>1, <1>2 DEF FInv, NoFile, Describes, vars, storeVars, pushVars
<1>3. CASE PushNext
  <2>1. CASE PushTick
    BY <1>1, <2>1 DEF PushTick, FInv, NoFile, Describes, storeVars
  <2>. QED  BY <1>1, <1>3, <2>1, PullInFlight, DeliverInFlight DEF PushNext
<1>. QED  BY <1>1, <1>2, <1>3, CallsInFlight, EnvInFlight DEF Next

\* Nothing is in flight at first.
LEMMA InitInFlight == Init => FInv
BY InitDurable DEF Init, FInv, NoFile, NoImage

\* Whatever happens between two dispatches, every message of the batch the push
\* loop still holds has the payload and the count of attempts of the message
\* that is queued under its ID, if there is one.
THEOREM InFlight == Spec => []InFlightNamesItsMessage
<1>1. FInv => InFlightNamesItsMessage
  BY DEF FInv, DInv, XInv, TInv, BatchHasJob, Describes, InFlightNamesItsMessage
<1>2. FInv /\ [Next]_vars => FInv'
  BY NextInFlight
<1>. QED  BY <1>1, <1>2, InitInFlight, PTL DEF Spec

\* Only a forward moves the counter and takes a message off a queue: a publish
\* adds, every other operation leaves the counter, and so does a restart.
LEMMA OnlyForwards ==
  ASSUME FInv, FInv', [Next]_vars, NEW s \in SubNames, NEW i \in DOMAIN messages[s],
         Forwarded(s, i)
  PROVE  \E m \in batch : DeadLetterDue(m) /\ ForwardToDeadLetter(job.name, m.id)
<1>. USE DEF FInv, DInv, XInv
<1>1. /\ msgCounter \in Nat /\ msgCounter' \in Nat /\ msgCounter' > msgCounter
      /\ i \notin DOMAIN messages'[s]
  BY BoundsAssumption DEF TInv, TypeOK, Forwarded
<1>2. ~UNCHANGED msgCounter
  BY <1>1
<1>3. ~UNCHANGED vars /\ ~AdminNext /\ ~SubscriberNext /\ ~Tick
  BY <1>2
  DEF vars, storeVars, AdminNext, CreateTopic, DeleteTopic, CreateSubscription,
      DeleteSubscription, SubscriberNext, Pull, Acknowledge, ModifyAckDeadline,
      StreamOpen, StreamPoll, StreamClose, StorePull, StoreAcknowledge, Tick
<1>4. ~PublishNext
  BY <1>1, FanOutRemovesNothing DEF PublishNext, Publish
<1>5. ~Restart /\ ~TornWrite
  <2>1. ASSUME Restart
        PROVE  FALSE
    <3>1. msgCounter' = disk.msgCounter
      BY <2>1 DEF Restart, Restarts, load
    <3>. QED  BY <1>1, <3>1, FlagAssumption DEF DiskCovers, Covers, NoFile
  <2>2. ASSUME TornWrite
        PROVE  FALSE
    <3>1. msgCounter' = 0
      BY <2>2 DEF TornWrite, Restarts, load, NoImage
    <3>. QED  BY <1>1, <3>1
  <2>. QED  BY <2>1, <2>2
<1>6. PICK ok \in BOOLEAN : PushDeliver(ok)
  <2>1. ~PushTick /\ \A j \in round : ~PushPull(j)
    BY <1>2 DEF PushTick, PushPull, storeVars
  <2>. QED  BY <1>3, <1>4, <1>5, <2>1 DEF Next, PushNext, EnvNext
<1>7. PICK m \in batch : IF ok THEN AutoAck(m) ELSE AfterFailure(m)
  BY <1>6 DEF PushDeliver
<1>. QED  BY <1>2, <1>7 DEF AutoAck, StoreAcknowledge, AfterFailure, storeVars

\* What such a step does to the message and to the dead letter topic.
LEMMA ForwardDelivers ==
  ASSUME FInv, FInv', [Next]_vars, NEW s \in SubNames, NEW i \in DOMAIN messages[s],
         Forwarded(s, i)
  PROVE  /\ job.name = s
         /\ job.maxAttempts > 0 /\ messages[s][i].attempt >= job.maxAttempts
         /\ \A d \in topicSubs[subscriptions[s].dlt] :
              messages'[d][msgCounter'] = NewMessage(messages[s][i].data)
<1>. USE DEF FInv, DInv, XInv
<1>1. PICK m \in batch : DeadLetterDue(m) /\ ForwardToDeadLetter(job.name, m.id)
  BY OnlyForwards
<1>. DEFINE r    == job.name
            copy == [k \in {msgCounter + 1} |-> NewMessage(messages[r][m.id].data)]
            sent == FanOut(subscriptions[r].dlt, copy)
<1>2. r \in SubNames
  BY <1>1 DEF TInv, TypeOK, BatchHasJob, PushJobs
<1>3. msgCounter \in Nat /\ msgCounter' > msgCounter /\ i \notin DOMAIN messages'[s]
  BY BoundsAssumption DEF TInv, TypeOK, Forwarded
<1>4. /\ m.id \in DOMAIN messages[r]
      /\ subscriptions[r].dlt \in topics
      /\ msgCounter' = msgCounter + 1
      /\ messages'[r] = Without(sent[r], {m.id})
      /\ \A q \in SubNames \ {r} : messages'[q] = sent[q]
  <2>1. ~UNCHANGED <<storeVars, disk>>
    BY <1>3 DEF storeVars
  <2>2. TInv /\ ForwardToDeadLetter(r, m.id)
    BY <1>1
  <2>. HIDE DEF FInv
  <2>3. MovesTheMessage(r, m.id)
    BY <1>2, <2>1, <2>2, ForwardEffect
  <2>. QED  BY <2>3 DEF MovesTheMessage
<1>5. r = s /\ m.id = i
  <2>1. i \in DOMAIN sent[s]
    <3>. HIDE DEF copy
    <3>. QED  BY FanOutRemovesNothing
  <2>. HIDE DEF sent
  <2>2. r = s
    BY <1>3, <1>4, <2>1
  <2>3. m.id = i
    BY <1>3, <1>4, <2>1, <2>2 DEF Without, Restrict
  <2>. QED  BY <2>2, <2>3
<1>6. job.maxAttempts > 0 /\ messages[s][i].attempt >= job.maxAttempts
  BY <1>1, <1>4, <1>5 DEF DeadLetterDue, Describes
<1>7. ASSUME NEW d \in topicSubs[subscriptions[s].dlt]
      PROVE  messages'[d][msgCounter'] = NewMessage(messages[s][i].data)
  <2>1. d \in SubNames /\ Exists(d)
    BY <1>4, <1>5 DEF TInv, TypeOK, Indexed, Exists
  <2>2. msgCounter + 1 \in DOMAIN sent[d] /\ sent[d][msgCounter + 1] = copy[msgCounter + 1]
    BY <1>5, <2>1 DEF FanOut, Put
  <2>3. copy[msgCounter + 1] = NewMessage(messages[s][i].data)
    BY <1>5
  <2>4. messages'[d][msgCounter + 1] = sent[d][msgCounter + 1]
    <3>1. CASE d # r
      BY <1>4, <2>1, <3>1
    <3>2. CASE d = r
      <4>1. m.id <= msgCounter
        BY <1>1
      <4>2. m.id \in Nat
        BY <1>1 DEF TInv, TypeOK, Ids
      <4>3. msgCounter + 1 # m.id
        BY <1>3, <4>1, <4>2
      <4>. HIDE DEF sent
      <4>. QED  BY <1>4, <2>2, <3>2, <4>3 DEF Without, Restrict
    <3>. QED  BY <3>1, <3>2
  <2>. QED  BY <1>4, <2>2, <2>3, <2>4
<1>. QED  BY <1>5, <1>6, <1>7

\* A message leaves its queue for the dead letter topic only after the maximum
\* of attempts, counted on the message itself, and in the same step every
\* subscription of that topic gets a copy, to be handed out anew.
THEOREM DeadLetters == Spec => DeadLettering
<1>1. FInv /\ [Next]_vars => FInv'
  BY NextInFlight
<1>2. FInv /\ FInv' /\ [Next]_vars =>
        [\A s \in SubNames : \A i \in DOMAIN messages[s] : Forwarded(s, i) =>
           /\ job.name = s
           /\ job.maxAttempts > 0 /\ messages[s][i].attempt >= job.maxAttempts
           /\ \A d \in topicSubs[subscriptions[s].dlt] :
                messages'[d][msgCounter'] = NewMessage(messages[s][i].data)]_vars
  BY ForwardDelivers
<1>. QED  BY <1>1, <1>2, InitInFlight, PTL DEF Spec, DeadLettering

-----------------------------------------------------------------------------
(* Mailboxes                                                               *)

\* Handing out, counting, moving deadlines and time leave payloads alone.
LEMMA HandedOutPayloads ==
  ASSUME NEW q, IsQueue(q), NEW ids, NEW d
  PROVE  Payloads(HandedOut(q, ids, d)) = Payloads(q)
BY DEF IsQueue, HandedOut, Payloads, Message

LEMMA AttemptedPayloads ==
  ASSUME NEW q, IsQueue(q), NEW ids
  PROVE  Payloads(Attempted(q, ids)) = Payloads(q)
BY DEF IsQueue, Attempted, Payloads, Message

LEMMA ModifiedPayloads ==
  ASSUME NEW q, IsQueue(q), NEW ids, NEW d
  PROVE  Payloads(ModifiedQueue(q, ids, d)) = Payloads(q)
BY DEF IsQueue, ModifiedQueue, Modified, Payloads, Message

LEMMA AgedPayloads ==
  ASSUME NEW q, IsQueue(q)
  PROVE  Payloads(Aged(q)) = Payloads(q)
BY DEF IsQueue, Aged, Payloads, Message

\* Removing messages restricts them.
LEMMA WithoutPayloads ==
  ASSUME NEW q, NEW ids
  PROVE  Payloads(Without(q, ids)) = Promise!Restrict(Payloads(q), DOMAIN Payloads(q) \ ids)
BY DEF Without, Restrict, Promise!Restrict, Payloads

LEMMA EmptyPayloads == Payloads(EmptyQueue) = Promise!Nothing
BY DEF Payloads, EmptyQueue, Promise!Nothing

\* Both modules record alike that a step was told nothing.
LEMMA SameNoEvent == NoEvent = Promise!NoEvent
BY DEF NoEvent, Promise!NoEvent

\* A step that is told nothing, and leaves payloads, topics, subscriptions and
\* the counter alone, is work the mailboxes do not show.
LEMMA PromiseStays ==
  ASSUME UNCHANGED <<topics, subscriptions, msgCounter>>, event' = NoEvent,
         \A s \in SubNames : Payloads(messages'[s]) = Payloads(messages[s])
  PROVE  Promise!Work
BY SameNoEvent DEF Promise!Work

\* So is one that replaces a queue by one of the same payloads.
LEMMA ReplaceStays ==
  ASSUME TInv, UNCHANGED <<topics, subscriptions, msgCounter>>, event' = NoEvent,
         NEW s \in SubNames, NEW q, Payloads(q) = Payloads(messages[s]),
         messages' = [messages EXCEPT ![s] = q]
  PROVE  Promise!Work
<1>1. \A r \in SubNames : Payloads(messages'[r]) = Payloads(messages[r])
  BY DEF TInv, TypeOK, AreQueues
<1>. QED  BY <1>1, PromiseStays

\* The store fans out by its index of topics, the mailboxes by what each
\* subscription says.
LEMMA FanOutIsSent ==
  ASSUME XInv, NEW t \in Topics, NEW new
  PROVE  [s \in SubNames |-> Payloads(FanOut(t, new)[s])] = Promise!Sent(t, Payloads(new))
<1>1. ASSUME NEW s \in SubNames
      PROVE  (s \in topicSubs[t] /\ Exists(s)) <=> Promise!Takes(s, t)
  BY DEF XInv, Indexed, Exists, Promise!Takes
<1>2. ASSUME NEW s \in SubNames
      PROVE  Payloads(FanOut(t, new)[s]) = Promise!Sent(t, Payloads(new))[s]
  <2>1. CASE Promise!Takes(s, t)
    <3>1. FanOut(t, new)[s] = Put(messages[s], new)
      BY <1>1, <2>1 DEF FanOut
    <3>2. Promise!Sent(t, Payloads(new))[s] =
            [i \in DOMAIN Payloads(messages[s]) \cup DOMAIN Payloads(new) |->
               IF i \in DOMAIN Payloads(new) THEN Payloads(new)[i] ELSE Payloads(messages[s])[i]]
      BY <2>1 DEF Promise!Sent
    <3>. QED  BY <3>1, <3>2 DEF Put, Payloads
  <2>2. CASE ~Promise!Takes(s, t)
    BY <1>1, <2>2 DEF FanOut, Promise!Sent
  <2>. QED  BY <2>1, <2>2
<1>. QED  BY <1>2 DEF Promise!Sent

\* Pulls leave the mailboxes alone.
LEMMA PullStays ==
  ASSUME TInv, NEW s \in SubNames, NEW n, StorePull(s, n), event' = NoEvent
  PROVE  Promise!Work
BY HandedOutPayloads, ReplaceStays DEF StorePull, TInv, TypeOK, AreQueues

\* An acknowledgement takes its messages away, and no other.
LEMMA AcknowledgeSettles ==
  ASSUME TInv, NEW s \in SubNames, NEW ids, StoreAcknowledge(s, ids), event' = Acked(s, ids)
  PROVE  Promise!Acknowledge(s, ids)
<1>. DEFINE held == [r \in SubNames |-> Payloads(messages[r])]
<1>1. messages'[s] = Without(messages[s], ids) /\ \A r \in SubNames \ {s} : messages'[r] = messages[r]
  BY DEF StoreAcknowledge, TInv, TypeOK, AreQueues
<1>2. held'[s] = Promise!Restrict(held[s], DOMAIN held[s] \ ids)
  BY <1>1, WithoutPayloads
<1>3. held' = [held EXCEPT ![s] = Promise!Restrict(@, DOMAIN @ \ ids)]
  BY <1>1, <1>2
<1>4. UNCHANGED <<topics, subscriptions, msgCounter>>
  BY DEF StoreAcknowledge
<1>. QED  BY <1>3, <1>4 DEF Promise!Acknowledge, Acked

\* One for a subscription that is gone finds no message to take.
LEMMA LateAcknowledge ==
  ASSUME XInv, NEW s \in SubNames, ~Exists(s), NEW ids,
         UNCHANGED storeVars, event' = Acked(s, ids)
  PROVE  Promise!Acknowledge(s, ids)
<1>. DEFINE held == [r \in SubNames |-> Payloads(messages[r])]
<1>1. held[s] = Promise!Nothing
  BY EmptyPayloads DEF XInv, Rooted, Exists
<1>2. Promise!Restrict(held[s], DOMAIN held[s] \ ids) = held[s]
  <2>. HIDE DEF held
  <2>. QED  BY <1>1 DEF Promise!Restrict, Promise!Nothing
<1>3. held' = [held EXCEPT ![s] = Promise!Restrict(@, DOMAIN @ \ ids)]
  BY <1>2 DEF storeVars
<1>. QED  BY <1>3 DEF Promise!Acknowledge, Acked, storeVars

\* A forward moves a message with its payload.
LEMMA ForwardIsDeadLetter ==
  ASSUME XInv, NEW s \in SubNames, NEW i, ForwardToDeadLetter(s, i),
         ~UNCHANGED <<storeVars, disk>>, event' = NoEvent
  PROVE  i \in DOMAIN Payloads(messages[s]) /\ Promise!DeadLetter(s, i)
<1>. DEFINE copy == [k \in {msgCounter + 1} |-> NewMessage(messages[s][i].data)]
            t == subscriptions[s].dlt
            sent == FanOut(t, copy)
<1>1. /\ Forwardable(s, i) /\ msgCounter' = msgCounter + 1
      /\ messages' = [sent EXCEPT ![s] = Without(@, {i})]
      /\ UNCHANGED <<topics, subscriptions>>
  BY DEF ForwardToDeadLetter
<1>2. t \in Topics /\ t \in topics /\ i \in DOMAIN messages[s] /\ subscriptions[s] # NoSub
  BY <1>1 DEF Forwardable, Exists, XInv, TInv, TypeOK
<1>3. Payloads(copy) = [k \in {msgCounter'} |-> Payloads(messages[s])[i]]
  BY <1>1, <1>2 DEF Payloads, NewMessage
<1>4. [r \in SubNames |-> Payloads(sent[r])] = Promise!Sent(t, Payloads(copy))
  BY <1>2, FanOutIsSent
<1>5. sent = [r \in SubNames |-> sent[r]]
  BY DEF FanOut
<1>. HIDE DEF copy, t, sent
<1>6. [r \in SubNames |-> Payloads(messages'[r])] =
        [[r \in SubNames |-> Payloads(sent[r])]
           EXCEPT ![s] = Promise!Restrict(@, DOMAIN @ \ {i})]
  <2>1. messages'[s] = Without(sent[s], {i}) /\ \A r \in SubNames \ {s} : messages'[r] = sent[r]
    BY <1>1, <1>5
  <2>2. Payloads(messages'[s]) =
          Promise!Restrict(Payloads(sent[s]), DOMAIN Payloads(sent[s]) \ {i})
    BY <2>1, WithoutPayloads
  <2>. QED  BY <2>1, <2>2
<1>7. i \in DOMAIN Payloads(messages[s])
  BY <1>2 DEF Payloads
<1>8. [r \in SubNames |-> Payloads(messages'[r])] =
        [Promise!Sent(t, [k \in {msgCounter'} |-> Payloads(messages[s])[i]])
           EXCEPT ![s] = Promise!Restrict(@, DOMAIN @ \ {i})]
  BY <1>3, <1>4, <1>6
<1>9. Payloads(messages[s])[i] = [r \in SubNames |-> Payloads(messages[r])][s][i]
  OBVIOUS
<1>. QED  BY <1>1, <1>2, <1>7, <1>8, <1>9, SameNoEvent DEF Promise!DeadLetter, t

\* Topics and subscriptions come and go.
LEMMA AdminRefines ==
  ASSUME XInv, AdminNext
  PROVE  Promise!Next
<1>. USE SameNoEvent
<1>1. ASSUME NEW t \in Topics, CreateTopic(t)
      PROVE  Promise!CreateTopic(t)
  BY <1>1 DEF CreateTopic, Promise!CreateTopic
<1>2. ASSUME NEW t \in Topics, DeleteTopic(t)
      PROVE  Promise!DeleteTopic(t)
  <2>1. \A s \in SubNames : (s \in topicSubs[t] /\ Exists(s)) <=> Promise!Takes(s, t)
    BY DEF XInv, Indexed, Exists, Promise!Takes
  <2>. QED  BY <1>2, <2>1 DEF DeleteTopic, Promise!DeleteTopic
<1>3. ASSUME NEW s \in SubNames, NEW c \in SubConfigs[s], CreateSubscription(s, c)
      PROVE  Promise!Subscribe(s)
  <2>. DEFINE sub == [c EXCEPT !.ackDeadline = EffectiveDeadline(@)]
  <2>1. /\ subscriptions' = [subscriptions EXCEPT ![s] = sub]
        /\ messages' = [messages EXCEPT ![s] = EmptyQueue]
        /\ subscriptions[s] = NoSub /\ c.topic \in topics
        /\ event' = NoEvent /\ UNCHANGED <<topics, msgCounter>>
    BY <1>3 DEF CreateSubscription, Exists
  <2>2. c \in SubConfig
    BY RequestAssumption
  <2>3. subscriptions'[s] = sub /\ sub.topic = c.topic
    BY <2>1, <2>2 DEF XInv, TInv, TypeOK, SubConfig
  <2>4. subscriptions'[s] # NoSub
    <3>1. TypeOK
      BY DEF XInv, TInv
    <3>2. sub \in Subscription
      <4>1. EffectiveDeadline(c.ackDeadline) \in Nat \ {0}
        BY <2>2, BoundsAssumption DEF SubConfig, EffectiveDeadline
      <4>. QED  BY <2>2, <4>1 DEF SubConfig, Subscription
    <3>. QED  BY <2>3, <3>2, NamesAssumption
  <2>5. [r \in SubNames |-> Payloads(messages'[r])] =
          [[r \in SubNames |-> Payloads(messages[r])] EXCEPT ![s] = Promise!Nothing]
    BY <2>1, EmptyPayloads DEF XInv, TInv, TypeOK, AreQueues
  <2>6. subscriptions' = [subscriptions EXCEPT ![s] = subscriptions'[s]]
    BY <2>1, <2>3
  <2>7. subscriptions'[s].topic \in topics
    BY <2>1, <2>3
  <2>. QED  BY <2>1, <2>4, <2>5, <2>6, <2>7 DEF Promise!Subscribe
<1>4. ASSUME NEW s \in SubNames, DeleteSubscription(s)
      PROVE  Promise!Unsubscribe(s)
  <2>1. [r \in SubNames |-> Payloads(messages'[r])] =
          [[r \in SubNames |-> Payloads(messages[r])] EXCEPT ![s] = Promise!Nothing]
    BY <1>4, EmptyPayloads DEF DeleteSubscription, XInv, TInv, TypeOK, AreQueues
  <2>. QED  BY <1>4, <2>1 DEF DeleteSubscription, Exists, Promise!Unsubscribe
<1>. QED  BY <1>1, <1>2, <1>3, <1>4 DEF AdminNext, Promise!Next

\* A publish goes to all mailboxes of its topic.
LEMMA PublishRefines ==
  ASSUME XInv, NEW t \in Topics, NEW n \in 1..MaxBatch, Publish(t, n)
  PROVE  Promise!Publish(t)
<1>. DEFINE ids == (msgCounter + 1)..(msgCounter + n)
            new == [i \in ids |-> NewMessage(i)]
<1>1. /\ messages' = FanOut(t, new) /\ msgCounter' = msgCounter + n
      /\ t \in topics /\ event' = NoEvent /\ UNCHANGED <<topics, subscriptions>>
  BY DEF Publish
<1>2. msgCounter' > msgCounter
  BY <1>1, BoundsAssumption DEF XInv, TInv, TypeOK
<1>3. Payloads(new) = [i \in (msgCounter + 1)..msgCounter' |-> i]
  <2>1. \A i \in ids : new[i].data = i
    BY DEF NewMessage
  <2>2. DOMAIN new = (msgCounter + 1)..msgCounter'
    BY <1>1
  <2>. QED  BY <2>1, <2>2 DEF Payloads
<1>4. [s \in SubNames |-> Payloads(messages'[s])] = Promise!Sent(t, Payloads(new))
  BY <1>1, FanOutIsSent
<1>. QED  BY <1>1, <1>2, <1>3, <1>4, SameNoEvent DEF Promise!Publish

\* Subscribers' calls acknowledge, or change nothing.
LEMMA SubscriberRefines ==
  ASSUME XInv, SubscriberNext
  PROVE  Promise!Next
<1>. USE DEF XInv
<1>1. ASSUME NEW s \in SubNames, NEW n, Pull(s, n)
      PROVE  Promise!Work
  BY <1>1, PullStays DEF Pull
<1>2. ASSUME NEW s \in SubNames, NEW ids \in SUBSET (1..msgCounter), Acknowledge(s, ids)
      PROVE  Promise!Acknowledge(s, ids)
  BY <1>2, AcknowledgeSettles DEF Acknowledge
<1>3. ASSUME NEW s \in SubNames, NEW ids, NEW d, ModifyAckDeadline(s, ids, d)
      PROVE  Promise!Work
  BY <1>3, ModifiedPayloads, ReplaceStays DEF ModifyAckDeadline, TInv, TypeOK, AreQueues
<1>4. ASSUME NEW c \in Streams, StreamPoll(c)
      PROVE  Promise!Work
  <2>1. streams[c] \in SubNames
    BY <1>4 DEF StreamPoll, TInv, TypeOK
  <2>. QED  BY <1>4, <2>1, PullStays DEF StreamPoll
<1>5. ASSUME UNCHANGED storeVars, event' = NoEvent
      PROVE  Promise!Work
  BY <1>5, PromiseStays DEF storeVars
<1>. QED
  BY <1>1, <1>2, <1>3, <1>4, <1>5 DEF SubscriberNext, StreamOpen, StreamClose, Promise!Next

\* The push loop acknowledges, forwards, or changes nothing.
LEMMA PushRefines ==
  ASSUME FInv, PushNext
  PROVE  Promise!Next
<1>. USE DEF FInv, DInv, XInv
<1>1. ASSUME UNCHANGED storeVars, event' = NoEvent
      PROVE  Promise!Work
  BY <1>1, PromiseStays DEF storeVars
<1>2. ASSUME NEW j \in round, PushPull(j)
      PROVE  Promise!Work
  <2>. DEFINE s == j.name
              ids == Deliverable(messages[s])
              leased == HandedOut(messages[s], ids, subscriptions[s].ackDeadline)
  <2>1. s \in SubNames
    BY DEF TInv, TypeOK, PushJobs
  <2>2. CASE UNCHANGED messages
    BY <1>1, <1>2, <2>2 DEF PushPull, storeVars
  <2>3. CASE messages' = [messages EXCEPT ![s] = Attempted(leased, ids)]
                /\ Exists(s)
    <3>1. IsQueue(messages[s]) /\ IsQueue(leased)
      <4>1. IsQueue(messages[s]) /\ subscriptions[s].ackDeadline \in Nat
        BY <2>1, <2>3 DEF TInv, TypeOK, AreQueues, Exists, Subscription
      <4>. QED  BY <4>1, HandedOutIsQueue
    <3>2. Payloads(leased) = Payloads(messages[s])
      BY <3>1, HandedOutPayloads
    <3>. HIDE DEF leased
    <3>3. Payloads(Attempted(leased, ids)) = Payloads(messages[s])
      BY <3>1, <3>2, AttemptedPayloads
    <3>4. UNCHANGED <<topics, subscriptions, msgCounter>> /\ event' = NoEvent
      BY <1>2 DEF PushPull
    <3>. HIDE DEF s, ids
    <3>. QED  BY <2>1, <2>3, <3>3, <3>4, ReplaceStays
  <2>. QED  BY <1>2, <2>2, <2>3 DEF PushPull
<1>3. ASSUME NEW m \in batch
      PROVE  job.name \in SubNames /\ m.id \in Ids /\ m.id <= msgCounter
  BY DEF FInv, DInv, TInv, TypeOK, BatchHasJob, PushJobs
<1>4. ASSUME NEW m \in batch, AutoAck(m), event' = Acked(job.name, {m.id})
      PROVE  Promise!Next
  <2>1. Promise!Acknowledge(job.name, {m.id})
    BY <1>3, <1>4, AcknowledgeSettles, LateAcknowledge DEF AutoAck
  <2>2. {m.id} \in SUBSET (1..msgCounter)
    BY <1>3, BoundsAssumption DEF Ids, TInv, TypeOK
  <2>. QED  BY <1>3, <2>1, <2>2 DEF Promise!Next
<1>5. ASSUME NEW m \in batch, AfterFailure(m), event' = NoEvent
      PROVE  Promise!Next
  <2>1. CASE UNCHANGED <<storeVars, disk>>
    BY <1>1, <1>5, <2>1 DEF Promise!Next
  <2>2. CASE ForwardToDeadLetter(job.name, m.id) /\ ~UNCHANGED <<storeVars, disk>>
    <3>1. m.id \in DOMAIN Payloads(messages[job.name]) /\ Promise!DeadLetter(job.name, m.id)
      BY <1>3, <1>5, <2>2, ForwardIsDeadLetter
    <3>. QED  BY <1>3, <3>1 DEF Promise!Next
  <2>. QED  BY <1>5, <2>1, <2>2 DEF AfterFailure
<1>6. ASSUME NEW ok \in BOOLEAN, PushDeliver(ok)
      PROVE  Promise!Next
  BY <1>4, <1>5, <1>6 DEF PushDeliver
<1>. QED  BY <1>1, <1>2, <1>6 DEF PushNext, PushTick, Promise!Next

\* Without a data directory a restart finds nothing.
NothingSaved == ~DataDir => disk = NoImage

LEMMA NextSaves ==
  ASSUME TInv, NothingSaved, [Next]_vars
  PROVE  NothingSaved'
<1>. SUFFICES ASSUME ~DataDir, disk = NoImage PROVE disk' = NoImage
  BY DEF NothingSaved
<1>1. persist => disk' = disk
  BY DEF persist
<1>2. ASSUME Tick PROVE disk' = NoImage
  BY <1>2, AgedEmpty DEF Tick, NoImage
<1>3. AdminNext => disk' = disk
  BY <1>1 DEF AdminNext, CreateTopic, DeleteTopic, CreateSubscription, DeleteSubscription
<1>4. SubscriberNext => disk' = disk
  BY <1>1
  DEF SubscriberNext, Pull, Acknowledge, ModifyAckDeadline, StreamOpen, StreamPoll,
      StreamClose, StorePull, StoreAcknowledge
<1>5. PushNext => disk' = disk
  BY <1>1
  DEF PushNext, PushTick, PushPull, PushDeliver, AutoAck, StoreAcknowledge, AfterFailure,
      ForwardToDeadLetter
<1>. QED
  BY <1>1, <1>2, <1>3, <1>4, <1>5
  DEF Next, PublishNext, Publish, EnvNext, Restart, TornWrite, vars

\* A restart leaves the mailboxes as they are, unless there is no file.
LEMMA EnvRefines ==
  ASSUME DInv, NothingSaved, EnvNext
  PROVE  Promise!Restart \/ Promise!Torn \/ Promise!Work
<1>. USE SameNoEvent DEF DInv, XInv, Ends
<1>1. ASSUME load(NoImage)
      PROVE  Promise!Lost
  BY <1>1, EmptyPayloads DEF load, NoImage, Promise!Lost
<1>2. CASE Restart /\ DataDir
  <2>1. /\ UNCHANGED <<topics, subscriptions, msgCounter>> /\ messages' = disk.messages
        /\ Covers(disk, topics, subscriptions, messages, msgCounter)
    BY <1>2 DEF Restart, Restarts, load, DiskCovers, Covers
  <2>2. \A s \in SubNames : Payloads(messages'[s]) = Payloads(messages[s])
    BY <2>1 DEF Covers, Payloads
  <2>3. event' = [Promise!NoEvent EXCEPT !.kind = "restart"]
    BY <1>2 DEF Restart
  <2>. QED  BY <1>2, <2>1, <2>2, <2>3 DEF Promise!Restart
<1>3. CASE Restart /\ ~DataDir
  BY <1>1, <1>3 DEF Restart, Restarts, NothingSaved, Promise!Restart
<1>4. CASE TornWrite
  BY <1>1, <1>4 DEF TornWrite, Restarts, Promise!Torn
<1>5. CASE Tick
  BY <1>5, AgedPayloads, PromiseStays DEF Tick, TInv, TypeOK, AreQueues
<1>. QED  BY <1>2, <1>3, <1>4, <1>5 DEF EnvNext

\* What subscribers are still to get behaves as the abstract mailboxes: every
\* step of a handler, of the push loop or of the environment is one of their
\* steps, so that a message leaves a mailbox only by an acknowledgement that was
\* received, by a forward or with its subscription, and with a file a restart
\* between two store calls takes none away.
THEOREM PubSubKeepsItsPromise == Spec => ImplementsMailboxes
<1>1. Init => NothingSaved /\ Promise!Init
  BY EmptyPayloads, SameNoEvent DEF Init, NothingSaved, Promise!Init
<1>2. TInv /\ NothingSaved /\ [Next]_vars => NothingSaved'
  BY NextSaves
<1>3. FInv /\ [Next]_vars => FInv'
  BY NextInFlight
<1>4. FInv => DInv /\ TInv
  BY DEF FInv, DInv, XInv
<1>5. FInv /\ NothingSaved /\ [Next]_vars => [Promise!Next]_(Promise!vars)
  <2>. SUFFICES ASSUME FInv, NothingSaved, [Next]_vars
                PROVE  [Promise!Next]_(Promise!vars)
    OBVIOUS
  <2>1. DInv /\ XInv
    BY DEF FInv, DInv
  <2>2. CASE PublishNext
    BY <2>1, <2>2, PublishRefines DEF PublishNext, Promise!Next
  <2>3. CASE UNCHANGED vars
    BY <2>3 DEF vars, storeVars, Promise!vars
  <2>4. CASE EnvNext
    BY <2>1, <2>4, EnvRefines DEF Promise!Next
  <2>. QED
    BY <2>1, <2>2, <2>3, <2>4, AdminRefines, SubscriberRefines, PushRefines DEF Next
<1>. QED
  BY <1>1, <1>2, <1>3, <1>4, <1>5, InitInFlight, PTL DEF Spec, ImplementsMailboxes, Promise!Spec

=============================================================================
