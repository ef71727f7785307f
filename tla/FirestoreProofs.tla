-------------------------- MODULE FirestoreProofs ---------------------------
(***************************************************************************)
(* Proofs about Firestore, for every value of its constants.               *)
(***************************************************************************)
EXTENDS Firestore, WellFoundedInduction, TLAPS

-----------------------------------------------------------------------------
(* Types of the store                                                      *)

\* A call that is to make a write has one to make, and one that iterates or
\* writes the file has seen something of every document.
ActiveCall ==
  {k \in Call : /\ k.at = "apply" => k.todo # <<>>
                /\ k.at \in {"scan", "file"} => \A d \in Docs : k.seen[d] # {}}

StoreInv == StoreTypeOK /\ calls \in [Calls -> ActiveCall]

\* The request that is not served.
LEMMA IdleType == Idle \in ActiveCall /\ Idle \in Call /\ Idle.at = "idle" /\ Idle.seq = 0
<1>1. (CHOOSE d \in Docs : TRUE) \in Docs
  BY StoreAssumption
<1>2. Idle \in Call
  BY <1>1, StoreAssumption DEF Idle, Call, Contents, NoDoc
<1>. QED  BY <1>2 DEF ActiveCall, Idle

\* A call that goes on to its next write or ends.
LEMMA DoingType ==
  ASSUME NEW ws \in Seq(Write)
  PROVE  Doing(ws) \in ActiveCall /\ Doing(ws).at \in {"idle", "apply"}
<1>1. CASE ws = <<>>
  BY <1>1, IdleType DEF Doing
<1>2. CASE ws # <<>>
  BY <1>2, IdleType DEF Doing, Call, ActiveCall
<1>. QED  BY <1>1, <1>2

LEMMA NoDocsType == NoDocs \in [Docs -> Contents]
BY StoreAssumption DEF NoDocs, NoDoc, Contents

LEMMA LoadedType ==
  ASSUME NEW f \in [Docs -> Contents] \cup {Empty, Garbage}
  PROVE  Loaded(f) \in [Docs -> Contents]
BY NoDocsType DEF Loaded

\* Only one call takes another state.
LEMMA OneCallType ==
  ASSUME StoreInv, NEW c \in Calls, NEW k \in ActiveCall,
         calls' = [calls EXCEPT ![c] = k],
         UNCHANGED <<docs, written, raced, mixed, crashes>>,
         file' \in [Docs -> Contents] \cup {Empty, Garbage},
         seq' \in Nat,
         changeLog' \in Seq(ChangeEvent), Len(changeLog') <= LogSize
  PROVE  StoreInv'
<1>1. calls' \in [Calls -> ActiveCall]
  BY DEF StoreInv
<1>2. calls' \in [Calls -> Call]
  BY <1>1 DEF ActiveCall
<1>. QED  BY <1>1, <1>2 DEF StoreInv, StoreTypeOK

\* A change of a document keeps the types, whoever makes it.
LEMMA ChangeType ==
  ASSUME StoreInv, NEW c \in Calls, NEW d \in Docs, NEW v \in {NoDoc, written + 1},
         NEW rest \in Seq(Write), Change(c, d, v, rest)
  PROVE  StoreInv'
<1>1. written \in Nat /\ MaxWrites \in Nat /\ written + 1 \in Contents /\ v \in Contents
  BY StoreAssumption DEF StoreInv, StoreTypeOK, Change, Contents, NoDoc
<1>2. docs' \in [Docs -> Contents]
  BY <1>1 DEF StoreInv, StoreTypeOK, Change
<1>3. calls' \in [Calls -> ActiveCall]
  <2>1. ASSUME NEW k \in Calls
        PROVE  SeenByOthers(k, d, v) \in ActiveCall
    <3>1. calls[k] \in Call /\ calls[k] \in ActiveCall
      BY DEF StoreInv, StoreTypeOK
    <3>2. SeenByOthers(k, d, v) \in Call
      BY <1>1, <3>1 DEF SeenByOthers, Call
    <3>. QED  BY <3>1, <3>2 DEF SeenByOthers, ActiveCall, Call
  <2>2. [at |-> AfterChange(v), todo |-> rest, doc |-> d, val |-> v,
         seen |-> [e \in Docs |-> {docs'[e]}], seq |-> 0] \in ActiveCall
    <3> DEFINE call == [at |-> AfterChange(v), todo |-> rest, doc |-> d, val |-> v,
                        seen |-> [e \in Docs |-> {docs'[e]}], seq |-> 0]
    <3>1. call.at \in {"scan", "file", "number", "notify"}
      BY DEF AfterChange
    <3>2. call.seen \in [Docs -> SUBSET Contents] /\ \A e \in Docs : call.seen[e] # {}
      BY <1>2
    <3>3. call \in Call
      BY <1>1, <3>1, <3>2 DEF Call
    <3>. QED  BY <3>1, <3>2, <3>3 DEF ActiveCall
  <2>. QED  BY <2>1, <2>2 DEF Change
<1>4. calls' \in [Calls -> Call]
  BY <1>3 DEF ActiveCall
<1>5. UNCHANGED <<file, seq, changeLog, crashes>> /\ written' = written + 1
  BY DEF Change
<1>6. raced' \subseteq Docs /\ mixed' \in BOOLEAN
  BY DEF StoreInv, StoreTypeOK, Change
<1>. QED  BY <1>1, <1>2, <1>3, <1>4, <1>5, <1>6 DEF StoreInv, StoreTypeOK

\* The requests.
LEMMA RequestType ==
  ASSUME StoreInv, RequestNext
  PROVE  StoreInv'
<1>1. <<>> \in Seq(Write)
  OBVIOUS
<1>2. ASSUME NEW c \in Calls, NEW d \in Docs,
             CreateDocument(c, d) \/ UpdateDocument(c, d) \/ DeleteDocument(c, d)
      PROVE  StoreInv'
  BY <1>1, <1>2, ChangeType DEF CreateDocument, UpdateDocument, DeleteDocument
<1>3. ASSUME NEW c \in Calls, NEW ws \in Commits, Commit(c, ws)
      PROVE  StoreInv'
  <2>1. Doing(ws) \in ActiveCall
    BY StoreAssumption, DoingType
  <2>. QED  BY <1>3, <2>1, OneCallType DEF Commit, StoreInv, StoreTypeOK
<1>. QED  BY <1>2, <1>3 DEF RequestNext

\* A write of a Commit.
LEMMA ApplyType ==
  ASSUME StoreInv, NEW c \in Calls, applyWrite(c)
  PROVE  StoreInv'
<1> DEFINE w == Head(calls[c].todo)
           rest == Tail(calls[c].todo)
<1>1. calls[c].todo \in Seq(Write) /\ calls[c].todo # <<>>
  BY DEF StoreInv, ActiveCall, Call, applyWrite
<1>2. w \in Write /\ rest \in Seq(Write)
  BY <1>1
<1>3. CASE w.del /\ docs[w.doc] = NoDoc
  <2>1. Doing(rest) \in ActiveCall
    BY <1>2, DoingType
  <2>. QED  BY <1>3, <2>1, OneCallType DEF applyWrite, StoreInv, StoreTypeOK
<1>4. CASE ~(w.del /\ docs[w.doc] = NoDoc)
  <2>1. Change(c, w.doc, IF w.del THEN NoDoc ELSE written + 1, rest)
    BY <1>4 DEF applyWrite
  <2>. QED  BY <1>2, <2>1, ChangeType DEF Write
<1>. QED  BY <1>3, <1>4

\* The steps at the file and the number.
LEMMA PersistOpenType ==
  ASSUME StoreInv, NEW c \in Calls, PersistOpen(c)
  PROVE  StoreInv'
<1>1. PICK image \in [Docs -> Contents] :
        calls' = [calls EXCEPT ![c].at = "file", ![c].seen = [d \in Docs |-> {image[d]}]]
  BY DEF PersistOpen
<1>2. calls[c] \in Call /\ [d \in Docs |-> {image[d]}] \in [Docs -> SUBSET Contents]
  BY DEF StoreInv, StoreTypeOK
<1> DEFINE k == calls'[c]
<1>3. k \in Call
  BY <1>1, <1>2 DEF Call, StoreInv
<1>4. k.at = "file" /\ k.seen = [d \in Docs |-> {image[d]}]
  BY <1>1, <1>2 DEF Call, StoreInv
<1>5. k \in ActiveCall
  BY <1>3, <1>4 DEF ActiveCall
<1>6. calls' = [calls EXCEPT ![c] = k]
  BY <1>1, <1>2 DEF StoreInv
<1>. QED  BY <1>5, <1>6, OneCallType DEF PersistOpen, StoreInv, StoreTypeOK

LEMMA PersistWriteType ==
  ASSUME StoreInv, NEW c \in Calls, PersistWrite(c)
  PROVE  StoreInv'
<1> DEFINE image == [d \in Docs |-> CHOOSE v \in calls[c].seen[d] : TRUE]
           k == calls'[c]
<1>1. calls[c] \in Call /\ calls[c] \in ActiveCall
  BY DEF StoreInv, StoreTypeOK
<1>2. image \in [Docs -> Contents]
  <2>1. \A d \in Docs : calls[c].seen[d] # {} /\ calls[c].seen[d] \subseteq Contents
    BY <1>1 DEF ActiveCall, Call, PersistWrite
  <2>. QED  BY <2>1
<1>3. file' \in [Docs -> Contents] \cup {Empty, Garbage}
  BY <1>2 DEF PersistWrite
<1>4. calls' = [calls EXCEPT ![c].at = "number", ![c].seen = Idle.seen]
  BY DEF PersistWrite
<1>5. Idle.seen \in [Docs -> SUBSET Contents]
  BY DEF Idle
<1>6. k \in Call /\ k.at = "number"
  BY <1>1, <1>4, <1>5 DEF Call, StoreInv
<1>7. k \in ActiveCall
  BY <1>6 DEF ActiveCall
<1>8. calls' = [calls EXCEPT ![c] = k]
  BY <1>1, <1>4 DEF StoreInv
<1>. QED  BY <1>3, <1>7, <1>8, OneCallType DEF PersistWrite, StoreInv, StoreTypeOK

LEMMA NumberType ==
  ASSUME StoreInv, NEW c \in Calls, Number(c)
  PROVE  StoreInv' /\ calls'[c] \in Call /\ calls'[c].at = "notify" /\ calls'[c].seq = seq + 1
<1> DEFINE k == calls'[c]
<1>1. calls[c] \in Call /\ seq \in Nat
  BY DEF StoreInv, StoreTypeOK
<1>2. seq' = seq + 1 /\ seq' \in Nat
  BY <1>1 DEF Number
<1>3. calls' = [calls EXCEPT ![c].at = "notify", ![c].seq = seq']
  BY DEF Number
<1>4. k \in Call /\ k.at = "notify" /\ k.seq = seq'
  BY <1>1, <1>2, <1>3 DEF Call, StoreInv
<1>5. k \in ActiveCall
  BY <1>4 DEF ActiveCall
<1>6. calls' = [calls EXCEPT ![c] = k]
  BY <1>1, <1>3 DEF StoreInv
<1>. QED  BY <1>2, <1>4, <1>5, <1>6, OneCallType DEF Number, StoreInv, StoreTypeOK

-----------------------------------------------------------------------------
(* The log                                                                 *)

\* The ring buffer keeps its size, and its events are the newest ones.
LEMMA LoggedType ==
  ASSUME StoreTypeOK, NEW e \in ChangeEvent
  PROVE  /\ Logged(e) \in Seq(ChangeEvent)
         /\ Len(Logged(e)) <= LogSize
BY StoreAssumption DEF StoreTypeOK, Logged

LEMMA EventType ==
  ASSUME StoreInv, NEW c \in Calls
  PROVE  Event(c) \in ChangeEvent
BY DEF StoreInv, StoreTypeOK, Call, Event, ChangeEvent

LEMMA LogChangeType ==
  ASSUME StoreInv, NEW c \in Calls, LogChange(c)
  PROVE  StoreInv'
<1>1. Doing(calls[c].todo) \in ActiveCall
  BY DoingType DEF StoreInv, StoreTypeOK, Call
<1>2. changeLog' \in Seq(ChangeEvent) /\ Len(changeLog') <= LogSize
  BY EventType, LoggedType DEF LogChange, StoreInv
<1>. QED  BY <1>1, <1>2, OneCallType DEF LogChange, StoreInv, StoreTypeOK

\* A new process.
LEMMA RestartType ==
  ASSUME StoreInv, RestartStore
  PROVE  StoreInv'
<1>1. docs' \in [Docs -> Contents]
  BY NoDocsType, LoadedType DEF RestartStore, StoreInv, StoreTypeOK
<1>2. calls' \in [Calls -> Call] /\ calls' \in [Calls -> ActiveCall]
  BY IdleType DEF RestartStore
<1>3. crashes' \in 0..MaxCrashes
  BY StoreAssumption DEF RestartStore, StoreInv, StoreTypeOK
<1>4. changeLog' \in Seq(ChangeEvent) /\ Len(changeLog') <= LogSize
  BY StoreAssumption DEF RestartStore
<1>. QED  BY <1>1, <1>2, <1>3, <1>4 DEF RestartStore, StoreInv, StoreTypeOK

-----------------------------------------------------------------------------
(* Types of the listeners                                                  *)

Inv == StoreInv /\ TypeOK

\* A store step that touches no listener.
LEMMA StoreStepType ==
  ASSUME Inv, StoreInv', UNCHANGED listenVars
  PROVE  Inv'
BY DEF Inv, StoreInv, TypeOK, listenVars, Stream

\* A set of numbers that has an upper bound has a greatest one.
LEMMA GreatestExists ==
  ASSUME NEW n \in Nat, NEW S \in SUBSET (1..n), S # {}
  PROVE  \E i \in S : \A j \in S : j <= i
<1> DEFINE Less == {p \in Nat \X Nat : p[1] < p[2]}
           T    == {n - i : i \in S}
<1>1. IsWellFoundedOn(Less, Nat)
  BY NatLessThanWellFounded DEF OpToRel
<1>2. T \subseteq Nat /\ T # {}
  <2>1. ASSUME NEW i \in S
        PROVE  n - i \in Nat
    OBVIOUS
  <2>. QED  BY <2>1
<1>3. PICK x \in T : \A y \in T : ~ (<<y, x>> \in Less)
  <2> HIDE DEF T, Less
  <2>. QED  BY <1>1, <1>2, WFMin
<1>4. PICK i \in S : x = n - i
  BY <1>3
<1>5. ASSUME NEW j \in S
      PROVE  j <= i
  <2>1. n - j \in T /\ n - j \in Nat /\ x \in Nat
    BY <1>2, <1>3
  <2>2. ~ (n - j < x)
    BY <1>3, <2>1
  <2>. QED  BY <1>4, <2>2
<1>. QED  BY <1>4, <1>5

\* Sending drops events and never overfills a queue.
LEMMA SendType ==
  ASSUME Inv, NEW e \in ChangeEvent, Send(e)
  PROVE  /\ queues' \in [Streams -> Seq(ChangeEvent)]
         /\ \A c \in Streams : Len(queues'[c]) <= QueueCap
         /\ lagging' \subseteq Streams
<1> DEFINE hit == {c \in Streams : Matches(c, e)}
<1>1. PICK dropped \in SUBSET {c \in hit : Len(queues[c]) >= ChanCap} :
        /\ \A c \in hit \ dropped : Len(queues[c]) < QueueCap
        /\ queues' = [c \in Streams |->
              IF c \in hit \ dropped THEN Append(queues[c], e) ELSE queues[c]]
        /\ lagging' = lagging \cup dropped
  BY DEF Send
<1>2. ASSUME NEW c \in Streams
      PROVE  queues'[c] \in Seq(ChangeEvent) /\ Len(queues'[c]) <= QueueCap
  <2>1. queues[c] \in Seq(ChangeEvent) /\ Len(queues[c]) <= QueueCap /\ QueueCap \in Nat
    BY ListenAssumption DEF Inv, TypeOK
  <2>2. CASE c \in hit \ dropped
    <3>1. queues'[c] = Append(queues[c], e) /\ Len(queues[c]) < QueueCap
      BY <1>1, <2>2
    <3>. QED  BY <2>1, <3>1
  <2>3. CASE c \notin hit \ dropped
    BY <1>1, <2>1, <2>3
  <2>. QED  BY <2>2, <2>3
<1>3. queues' \in [Streams -> Seq(ChangeEvent)]
  BY <1>1, <1>2
<1>4. lagging' \subseteq Streams
  BY <1>1 DEF Inv, TypeOK
<1>. QED  BY <1>2, <1>3, <1>4

LEMMA NotifyType ==
  ASSUME Inv, NEW k \in Calls, notifyWatchers(k)
  PROVE  Inv'
<1>1. StoreInv'
  BY LogChangeType DEF notifyWatchers, Inv
<1>2. Send(Event(k)) /\ Event(k) \in ChangeEvent
  BY EventType DEF notifyWatchers, Inv
<1>. QED  BY <1>1, <1>2, SendType DEF notifyWatchers, Inv, TypeOK, StoreInv

\* What a listener knows after a replay.
LEMMA ReplayType ==
  ASSUME Inv, NEW c \in Streams, Replay(c)
  PROVE  Inv'
<1>1. views[c] \in [Docs -> Contents] /\ docs \in [Docs -> Contents] /\ streams[c] \in Stream
  BY DEF Inv, TypeOK, StoreTypeOK
<1>2. ASSUME NEW d \in Docs
      PROVE  Replayed(c)[d] \in Contents
  <2> DEFINE since == {i \in DOMAIN changeLog :
                         /\ changeLog[i].seq > tokens[c] /\ changeLog[i].doc = d
                         /\ d \in streams[c].query}
  <2>1. CASE since = {}
    BY <1>1, <2>1 DEF Replayed
  <2>2. CASE since # {}
    <3>1. Len(changeLog) \in Nat /\ changeLog \in Seq(ChangeEvent)
      BY DEF Inv, TypeOK, StoreTypeOK
    <3>2. since \in SUBSET (1..Len(changeLog))
      BY <3>1
    <3>3. \E i \in since : \A j \in since : j <= i
      BY <2>2, <3>1, <3>2, GreatestExists
    <3> DEFINE i == CHOOSE k \in since : \A j \in since : j <= k
    <3>4. i \in since
      BY <3>3
    <3>5. Replayed(c)[d] = changeLog[i].val
      BY <2>2 DEF Replayed
    <3>6. i \in DOMAIN changeLog
      BY <3>4
    <3> HIDE DEF i, since
    <3>7. changeLog[i] \in ChangeEvent
      BY <3>1, <3>6
    <3>. QED  BY <3>5, <3>7 DEF ChangeEvent
  <2>. QED  BY <2>1, <2>2
<1>3. Snapshot(c) \in [Docs -> Contents]
  BY <1>1 DEF Snapshot
<1>4. Replayed(c) \in [Docs -> Contents]
  BY <1>2 DEF Replayed
<1>5. StoreInv'
  BY DEF Replay, Inv, StoreInv, StoreTypeOK, storeVars
<1>6. streams' \in [Streams -> Stream]
  BY DEF Replay, Inv, TypeOK, Stream
<1>. QED  BY <1>3, <1>4, <1>5, <1>6 DEF Replay, Inv, TypeOK, StoreInv

\* The other steps of a listener.
LEMMA ListenType ==
  ASSUME Inv, NEW c \in Streams,
         \/ \E t \in TargetIds, q \in Queries, resume \in BOOLEAN : AddTarget(c, t, q, resume)
         \/ SendCurrent(c) \/ sendDocumentChange(c) \/ Close(c)
  PROVE  Inv'
<1>1. UNCHANGED storeVars
  BY DEF AddTarget, SendCurrent, sendDocumentChange, Close
<1>2. StoreInv'
  BY <1>1 DEF Inv, StoreInv, StoreTypeOK, storeVars
<1>3. <<>> \in Seq(ChangeEvent) /\ Len(<<>>) = 0 /\ QueueCap \in Nat /\ 0 \in Nat
  BY ListenAssumption
<1>4. ASSUME NEW t \in TargetIds, NEW q \in Queries, NEW resume \in BOOLEAN,
             AddTarget(c, t, q, resume)
      PROVE  Inv'
  <2>1. streams' \in [Streams -> Stream]
    BY <1>4 DEF AddTarget, Inv, TypeOK, Stream
  <2>2. views' \in [Streams -> [Docs -> Contents]] /\ tokens' \in [Streams -> Nat \cup {NoToken}]
    <3>1. views \in [Streams -> [Docs -> Contents]] /\ tokens \in [Streams -> Nat \cup {NoToken}]
      BY DEF Inv, TypeOK
    <3>2. CASE resume
      BY <1>4, <3>1, <3>2 DEF AddTarget
    <3>3. CASE ~resume
      <4>1. views' = [views EXCEPT ![c] = NoDocs] /\ tokens' = [tokens EXCEPT ![c] = NoToken]
        BY <1>4, <3>3 DEF AddTarget
      <4>2. NoDocs \in [Docs -> Contents]
        BY NoDocsType
      <4>. QED  BY <1>3, <3>1, <4>1, <4>2
    <3>. QED  BY <3>2, <3>3
  <2>3. queues' \in [Streams -> Seq(ChangeEvent)] /\ \A s \in Streams : Len(queues'[s]) <= QueueCap
    BY <1>3, <1>4 DEF AddTarget, Inv, TypeOK
  <2>. QED  BY <1>2, <1>4, <2>1, <2>2, <2>3 DEF AddTarget, Inv, TypeOK, StoreInv
<1>5. CASE SendCurrent(c)
  <2>1. streams' \in [Streams -> Stream]
    BY <1>5 DEF SendCurrent, Inv, TypeOK, Stream
  <2>. QED  BY <1>2, <1>5, <2>1 DEF SendCurrent, Inv, TypeOK, StoreInv, StoreTypeOK
<1>6. CASE sendDocumentChange(c)
  <2>1. queues[c] \in Seq(ChangeEvent) /\ queues[c] # <<>> /\ Len(queues[c]) <= QueueCap
    BY <1>6 DEF sendDocumentChange, Inv, TypeOK
  <2>2. /\ Head(queues[c]) \in ChangeEvent
        /\ Tail(queues[c]) \in Seq(ChangeEvent)
        /\ Len(Tail(queues[c])) <= QueueCap
    BY <1>3, <2>1
  <2>3. views' \in [Streams -> [Docs -> Contents]]
    BY <1>6, <2>2 DEF sendDocumentChange, Inv, TypeOK, ChangeEvent
  <2>4. queues' \in [Streams -> Seq(ChangeEvent)] /\ \A s \in Streams : Len(queues'[s]) <= QueueCap
    BY <1>6, <2>2 DEF sendDocumentChange, Inv, TypeOK
  <2>. QED  BY <1>2, <1>6, <2>3, <2>4 DEF sendDocumentChange, Inv, TypeOK, StoreInv
<1>7. CASE Close(c)
  <2>1. streams' \in [Streams -> Stream]
    <3>1. streams \in [Streams -> Stream] /\ streams' = [streams EXCEPT ![c].at = "closed"]
      BY <1>7 DEF Close, Inv, TypeOK
    <3>2. streams[c] \in Stream
      BY <3>1
    <3>3. [streams[c] EXCEPT !.at = "closed"] \in Stream
      BY <3>2 DEF Stream
    <3>. QED  BY <3>1, <3>3
  <2>2. watchers' \in [TargetIds -> Streams \cup {NoStream}]
    BY <1>7 DEF Close, RemoveWatcher, Inv, TypeOK
  <2>3. queues' \in [Streams -> Seq(ChangeEvent)] /\ \A s \in Streams : Len(queues'[s]) <= QueueCap
    BY <1>3, <1>7 DEF Close, Inv, TypeOK
  <2>. QED  BY <1>2, <1>7, <2>1, <2>2, <2>3 DEF Close, Inv, TypeOK, StoreInv
<1>. QED  BY <1>4, <1>5, <1>6, <1>7

LEMMA RestartAllType ==
  ASSUME Inv, Restart
  PROVE  Inv'
<1>1. StoreInv'
  BY RestartType DEF Restart, Inv
<1>2. streams' \in [Streams -> Stream]
  BY DEF Restart, Inv, TypeOK, Stream
<1>3. queues' \in [Streams -> Seq(ChangeEvent)] /\ \A s \in Streams : Len(queues'[s]) <= QueueCap
  BY ListenAssumption DEF Restart
<1>. QED  BY <1>1, <1>2, <1>3 DEF Restart, Inv, TypeOK, StoreInv

LEMMA InitType == Init => Inv
<1> SUFFICES ASSUME Init PROVE Inv
  OBVIOUS
<1>1. StoreInv
  <2>1. calls \in [Calls -> Call] /\ calls \in [Calls -> ActiveCall]
    BY IdleType DEF Init, InitStore
  <2>2. changeLog \in Seq(ChangeEvent) /\ Len(changeLog) <= LogSize
    BY StoreAssumption DEF Init, InitStore
  <2>3. written \in Contents /\ crashes \in 0..MaxCrashes
    BY StoreAssumption DEF Init, InitStore, Contents
  <2>. QED  BY <2>1, <2>2, <2>3, NoDocsType DEF Init, InitStore, StoreInv, StoreTypeOK
<1>2. streams \in [Streams -> Stream]
  <2>1. (CHOOSE t \in TargetIds : TRUE) \in TargetIds /\ (CHOOSE q \in Queries : TRUE) \in Queries
    BY ListenAssumption
  <2>. QED  BY <2>1 DEF Init, InitListen, Stream
<1>3. queues \in [Streams -> Seq(ChangeEvent)] /\ \A s \in Streams : Len(queues[s]) <= QueueCap
  BY ListenAssumption DEF Init, InitListen
<1>. QED  BY <1>1, <1>2, <1>3, NoDocsType DEF Init, InitListen, Inv, TypeOK, StoreInv

LEMMA NextType == Inv /\ [Next]_vars => Inv'
<1> SUFFICES ASSUME Inv, [Next]_vars PROVE Inv'
  OBVIOUS
<1>1. CASE RequestNext /\ UNCHANGED listenVars
  BY <1>1, RequestType, StoreStepType DEF Inv
<1>2. ASSUME NEW c \in Calls, CallStep(c), UNCHANGED listenVars
      PROVE  Inv'
  BY <1>2, ApplyType, PersistOpenType, PersistWriteType, NumberType, StoreStepType
     DEF CallStep, Inv
<1>3. ASSUME NEW c \in Calls, notifyWatchers(c)
      PROVE  Inv'
  BY <1>3, NotifyType
<1>4. CASE ListenNext
  BY <1>4, ListenType, ReplayType DEF ListenNext
<1>5. CASE Restart
  BY <1>5, RestartAllType
<1>6. CASE UNCHANGED vars
  <2>1. StoreInv'
    BY <1>6 DEF vars, storeVars, Inv, StoreInv, StoreTypeOK
  <2>. QED  BY <1>6, <2>1, StoreStepType DEF vars
<1>. QED  BY <1>1, <1>2, <1>3, <1>4, <1>5, <1>6 DEF Next, WriteNext

\* Every state is well typed: the log never grows past its size, no queue past
\* its channels, and a listener's documents have contents that were written.
THEOREM TypeCorrect == Spec => []TypeOK
<1>1. Spec => []Inv
  BY InitType, NextType, PTL DEF Spec
<1>2. Inv => TypeOK
  BY DEF Inv
<1>. QED  BY <1>1, <1>2, PTL

-----------------------------------------------------------------------------
(* The file                                                                *)

\* As long as the last change was made with no other call at the file, at most
\* one call is, it has seen the documents as they are, and only it has
\* truncated the file.
Alone ==
  /\ \A c, k \in Calls : AtFile(c) /\ AtFile(k) => c = k
  /\ \A c \in Calls : AtFile(c) => calls[c].seen = [d \in Docs |-> {docs[d]}]
  /\ \A c \in Calls : calls[c].at = "file" => file = Empty
  /\ (\A c \in Calls : ~AtFile(c)) => Loaded(file) = docs

FlushInv == DataDir /\ ~mixed => Alone

\* A call that is not at the file goes on without coming to it.
LEMMA ElsewhereFlush ==
  ASSUME StoreInv, FlushInv, NEW c \in Calls, ~AtFile(c), NEW k,
         k.at \notin {"scan", "file"}, calls' = [calls EXCEPT ![c] = k],
         UNCHANGED <<docs, file, mixed>>
  PROVE  FlushInv'
<1>1. \A e \in Calls : e # c => calls'[e] = calls[e]
  BY DEF StoreInv, StoreTypeOK
<1>2. calls'[c] = k
  BY DEF StoreInv, StoreTypeOK
<1>3. \A e \in Calls : AtFile(e)' <=> AtFile(e)
  BY <1>1, <1>2 DEF AtFile
<1>4. \A e \in Calls : AtFile(e) => calls'[e] = calls[e]
  BY <1>1
<1>5. \A e \in Calls : calls'[e].at = "file" => AtFile(e)
  BY <1>3 DEF AtFile
<1>. QED  BY <1>3, <1>4, <1>5 DEF FlushInv, Alone, AtFile, Loaded

LEMMA ChangeFlush ==
  ASSUME StoreInv, FlushInv, NEW c \in Calls, ~AtFile(c), NEW d \in Docs,
         NEW v \in {NoDoc, written + 1}, NEW rest \in Seq(Write), Change(c, d, v, rest)
  PROVE  FlushInv'
<1> SUFFICES ASSUME DataDir, ~mixed' PROVE Alone'
  BY DEF FlushInv, Change
<1>1. \A k \in Calls \ {c} : ~AtFile(k)
  BY DEF Change
<1>2. calls'[c].at = "scan" /\ calls'[c].seen = [e \in Docs |-> {docs'[e]}]
  BY DEF Change, AfterChange
<1>3. \A k \in Calls \ {c} : calls'[k] = calls[k]
  BY <1>1 DEF Change, SeenByOthers, AtFile
<1>4. AtFile(c)' /\ \A k \in Calls \ {c} : ~AtFile(k)'
  BY <1>1, <1>2, <1>3 DEF AtFile
<1>. QED  BY <1>2, <1>4 DEF Alone, AtFile

LEMMA PersistOpenFlush ==
  ASSUME StoreInv, FlushInv, NEW c \in Calls, PersistOpen(c)
  PROVE  FlushInv'
<1> SUFFICES ASSUME DataDir, ~mixed' PROVE Alone'
  BY DEF FlushInv, PersistOpen
<1>1. AtFile(c) /\ Alone /\ UNCHANGED docs /\ file' = Empty
  BY DEF FlushInv, PersistOpen, AtFile
<1>2. PICK image \in [Docs -> Contents] :
        /\ \A d \in Docs : image[d] \in calls[c].seen[d]
        /\ calls' = [calls EXCEPT ![c].at = "file", ![c].seen = [d \in Docs |-> {image[d]}]]
  BY DEF PersistOpen
<1>3. \A d \in Docs : image[d] = docs[d]
  BY <1>1, <1>2 DEF Alone
<1>4. calls'[c].at = "file" /\ calls'[c].seen = [d \in Docs |-> {image[d]}]
  BY <1>2 DEF StoreInv, StoreTypeOK, Call
<1>5. \A k \in Calls \ {c} : calls'[k] = calls[k] /\ ~AtFile(k)
  BY <1>1, <1>2 DEF Alone, StoreInv, StoreTypeOK
<1>6. AtFile(c)' /\ \A k \in Calls \ {c} : ~AtFile(k)'
  BY <1>4, <1>5 DEF AtFile
<1>7. calls'[c].seen = [d \in Docs |-> {docs'[d]}]
  BY <1>1, <1>3, <1>4
<1>. QED  BY <1>1, <1>6, <1>7 DEF Alone, AtFile

LEMMA PersistWriteFlush ==
  ASSUME StoreInv, FlushInv, NEW c \in Calls, PersistWrite(c)
  PROVE  FlushInv'
<1> DEFINE image == [d \in Docs |-> CHOOSE v \in calls[c].seen[d] : TRUE]
<1> SUFFICES ASSUME DataDir, ~mixed' PROVE Alone'
  BY DEF FlushInv, PersistWrite
<1>1. AtFile(c) /\ Alone /\ UNCHANGED docs /\ file = Empty
  BY DEF FlushInv, PersistWrite, AtFile, Alone
<1>2. docs \in [Docs -> Contents]
  BY DEF StoreInv, StoreTypeOK
<1>3. image = docs
  <2>1. \A d \in Docs : calls[c].seen[d] = {docs[d]}
    BY <1>1 DEF Alone
  <2>2. \A d \in Docs : (CHOOSE v \in calls[c].seen[d] : TRUE) = docs[d]
    BY <2>1
  <2>. QED  BY <1>2, <2>2
<1>4. file' = docs
  BY <1>1, <1>3 DEF PersistWrite
<1>5. Loaded(file') = docs'
  BY <1>1, <1>2, <1>4, StoreAssumption DEF Loaded
<1>6. calls'[c].at = "number"
  BY DEF PersistWrite, StoreInv, StoreTypeOK, Call
<1>7. \A k \in Calls \ {c} : calls'[k] = calls[k] /\ ~AtFile(k)
  BY <1>1 DEF Alone, StoreInv, StoreTypeOK, PersistWrite
<1>8. \A k \in Calls : ~AtFile(k)'
  BY <1>6, <1>7 DEF AtFile
<1>. QED  BY <1>5, <1>8 DEF Alone, AtFile, Loaded

LEMMA StoreFlush ==
  ASSUME StoreInv, FlushInv,
         \/ RequestNext
         \/ \E c \in Calls : CallStep(c) \/ LogChange(c)
         \/ RestartStore
  PROVE  FlushInv'
<1>1. CASE RequestNext
  <2>1. ASSUME NEW c \in Calls, NEW d \in Docs,
               CreateDocument(c, d) \/ UpdateDocument(c, d) \/ DeleteDocument(c, d)
        PROVE  FlushInv'
    <3>1. ~AtFile(c) /\ <<>> \in Seq(Write)
      BY <2>1 DEF CreateDocument, UpdateDocument, DeleteDocument, AtFile
    <3>. QED  BY <2>1, <3>1, ChangeFlush DEF CreateDocument, UpdateDocument, DeleteDocument
  <2>2. ASSUME NEW c \in Calls, NEW ws \in Commits, Commit(c, ws)
        PROVE  FlushInv'
    <3>1. Doing(ws).at \in {"idle", "apply"}
      BY DoingType, StoreAssumption
    <3>2. ~AtFile(c)
      BY <2>2 DEF Commit, AtFile
    <3>. QED  BY <2>2, <3>1, <3>2, ElsewhereFlush DEF Commit
  <2>. QED  BY <1>1, <2>1, <2>2 DEF RequestNext
<1>2. ASSUME NEW c \in Calls, applyWrite(c)
      PROVE  FlushInv'
  <2> DEFINE w == Head(calls[c].todo)
             rest == Tail(calls[c].todo)
  <2>1. calls[c].todo \in Seq(Write) /\ calls[c].todo # <<>> /\ ~AtFile(c)
    BY <1>2 DEF StoreInv, ActiveCall, Call, applyWrite, AtFile
  <2>2. w \in Write /\ rest \in Seq(Write)
    BY <2>1
  <2>3. CASE w.del /\ docs[w.doc] = NoDoc
    <3>1. Doing(rest).at \in {"idle", "apply"}
      BY <2>2, DoingType
    <3>. QED  BY <1>2, <2>1, <2>3, <3>1, ElsewhereFlush DEF applyWrite
  <2>4. CASE ~(w.del /\ docs[w.doc] = NoDoc)
    <3>1. Change(c, w.doc, IF w.del THEN NoDoc ELSE written + 1, rest)
      BY <1>2, <2>4 DEF applyWrite
    <3>. QED  BY <2>1, <2>2, <3>1, ChangeFlush DEF Write
  <2>. QED  BY <2>3, <2>4
<1>3. ASSUME NEW c \in Calls, Number(c)
      PROVE  FlushInv'
  <2>1. calls'[c].at = "notify" /\ ~AtFile(c)
    BY <1>3, NumberType DEF Number, AtFile
  <2>2. calls' = [calls EXCEPT ![c] = calls'[c]]
    BY <1>3 DEF Number, StoreInv, StoreTypeOK
  <2>. QED  BY <1>3, <2>1, <2>2, ElsewhereFlush DEF Number
<1>4. ASSUME NEW c \in Calls, LogChange(c)
      PROVE  FlushInv'
  <2>1. Doing(calls[c].todo).at \in {"idle", "apply"}
    BY DoingType DEF StoreInv, StoreTypeOK, Call
  <2>2. ~AtFile(c)
    BY <1>4 DEF LogChange, AtFile
  <2>. QED  BY <1>4, <2>1, <2>2, ElsewhereFlush DEF LogChange
<1>5. CASE RestartStore
  <2>1. \A c \in Calls : calls'[c].at = "idle"
    BY <1>5, IdleType DEF RestartStore
  <2>2. DataDir => Loaded(file') = docs'
    BY <1>5 DEF RestartStore, Loaded
  <2>. QED  BY <2>1, <2>2 DEF FlushInv, Alone, AtFile, Loaded
<1>. QED  BY <1>1, <1>2, <1>3, <1>4, <1>5, PersistOpenFlush, PersistWriteFlush DEF CallStep

\* A step of the whole system is a step of the store or leaves it alone.
LEMMA NextStore ==
  ASSUME [Next]_vars
  PROVE  \/ RequestNext
         \/ \E c \in Calls : CallStep(c) \/ LogChange(c)
         \/ RestartStore
         \/ UNCHANGED storeVars
BY DEF Next, WriteNext, ListenNext, Restart, notifyWatchers, vars,
       AddTarget, Replay, SendCurrent, sendDocumentChange, Close

\* A change that is made while no other call is at the file is in the file when
\* its call leaves it, whatever earlier calls have left there.
THEOREM Flushed == Spec => []FlushedWhenAlone
<1>1. Init => FlushInv
  BY IdleType DEF Init, InitStore, FlushInv, Alone, AtFile, Loaded
<1>2. Inv /\ FlushInv /\ [Next]_vars => FlushInv'
  <2> SUFFICES ASSUME Inv, FlushInv, [Next]_vars PROVE FlushInv'
    OBVIOUS
  <2>1. CASE UNCHANGED storeVars
    BY <2>1 DEF storeVars, FlushInv, Alone, AtFile, Loaded
  <2>. QED  BY <2>1, NextStore, StoreFlush DEF Inv
<1>3. FlushInv => FlushedWhenAlone
  BY DEF FlushInv, Alone, FlushedWhenAlone
<1>4. Spec => []Inv
  BY InitType, NextType, PTL DEF Spec
<1>. QED  BY <1>1, <1>2, <1>3, <1>4, PTL DEF Spec

-----------------------------------------------------------------------------
(* Sequence numbers                                                        *)

\* A step that neither logs nor numbers and lets the same calls announce.
LEMMA SameNumbers ==
  ASSUME SequenceNumbers, UNCHANGED <<seq, changeLog>>,
         \A c \in Calls : calls'[c].at = "notify" <=> calls[c].at = "notify",
         \A c \in Calls : calls[c].at = "notify" => calls'[c].seq = calls[c].seq
  PROVE  SequenceNumbers'
<1>1. Announcing' = Announcing
  BY DEF Announcing
<1>2. \A c \in Announcing : calls'[c].seq = calls[c].seq
  BY DEF Announcing
<1>3. WaitingNumbers' = WaitingNumbers /\ LoggedNumbers' = LoggedNumbers
  BY <1>1, <1>2 DEF WaitingNumbers, LoggedNumbers
<1>. QED  BY <1>1, <1>2, <1>3 DEF SequenceNumbers

\* The same of a step of one call.
LEMMA ElsewhereNumbers ==
  ASSUME StoreInv, SequenceNumbers, NEW c \in Calls, NEW k,
         calls[c].at # "notify", k.at # "notify",
         calls' = [calls EXCEPT ![c] = k], UNCHANGED <<seq, changeLog>>
  PROVE  SequenceNumbers'
<1>1. calls'[c] = k /\ \A e \in Calls \ {c} : calls'[e] = calls[e]
  BY DEF StoreInv, StoreTypeOK
<1>. QED  BY <1>1, SameNumbers

LEMMA ChangeNumbers ==
  ASSUME StoreInv, SequenceNumbers, NEW c \in Calls, calls[c].at # "notify",
         NEW d \in Docs, NEW v, NEW rest, Change(c, d, v, rest)
  PROVE  SequenceNumbers'
<1>1. calls'[c].at # "notify"
  BY DEF Change, AfterChange
<1>2. ASSUME NEW k \in Calls \ {c}
      PROVE  calls'[k].at = calls[k].at /\ calls'[k].seq = calls[k].seq
  <2>1. calls'[k] = SeenByOthers(k, d, v) /\ calls[k] \in Call
    BY DEF Change, StoreInv, StoreTypeOK
  <2>. QED  BY <2>1 DEF SeenByOthers, Call
<1>. QED  BY <1>1, <1>2, SameNumbers DEF Change

\* The counter gives a number that nobody has.
LEMMA NumberNumbers ==
  ASSUME StoreInv, SequenceNumbers, NEW c \in Calls, Number(c)
  PROVE  SequenceNumbers'
<1>1. seq \in Nat /\ seq' = seq + 1 /\ UNCHANGED changeLog
  BY DEF StoreInv, StoreTypeOK, Number
<1>2. calls'[c].at = "notify" /\ calls'[c].seq = seq + 1 /\ calls[c].at # "notify"
  BY NumberType DEF Number
<1>3. \A k \in Calls \ {c} : calls'[k] = calls[k]
  BY DEF Number, StoreInv, StoreTypeOK
<1>4. Announcing' = Announcing \cup {c} /\ c \notin Announcing
  BY <1>2, <1>3 DEF Announcing
<1>5. WaitingNumbers' = WaitingNumbers \cup {seq + 1} /\ LoggedNumbers' = LoggedNumbers
  <2>1. \A k \in Announcing : k # c /\ calls'[k].seq = calls[k].seq
    BY <1>3, <1>4 DEF Announcing
  <2>. QED  BY <1>1, <1>2, <1>4, <2>1 DEF WaitingNumbers, LoggedNumbers
<1>6. 1..seq' = (1..seq) \cup {seq + 1} /\ seq + 1 \notin 1..seq
  BY <1>1
<1>7. \A e, k \in Announcing' : e # k => calls'[e].seq # calls'[k].seq
  <2>1. \A k \in Announcing : k \in Calls \ {c} /\ calls[k].seq \in 1..seq
    BY <1>4 DEF Announcing, WaitingNumbers, SequenceNumbers
  <2>. QED  BY <1>2, <1>3, <1>4, <1>6, <2>1 DEF SequenceNumbers
<1>. QED  BY <1>1, <1>5, <1>6, <1>7 DEF SequenceNumbers

\* What the log has after an event was added: all of its numbers and the new
\* one, but for the first when it was full.
LEMMA LoggedNumbersGrow ==
  ASSUME StoreTypeOK, SequenceNumbers, NEW e \in ChangeEvent,
         e.seq \notin LoggedNumbers, changeLog' = Logged(e)
  PROVE  /\ LoggedNumbers' \subseteq LoggedNumbers \cup {e.seq}
         /\ \A i, j \in DOMAIN changeLog' : i # j => changeLog'[i].seq # changeLog'[j].seq
         /\ Len(changeLog') < LogSize =>
              Len(changeLog) < LogSize /\ LoggedNumbers' = LoggedNumbers \cup {e.seq}
<1>1. changeLog \in Seq(ChangeEvent) /\ Len(changeLog) \in Nat /\ Len(changeLog) <= LogSize
      /\ LogSize \in Nat \ {0}
  BY StoreAssumption DEF StoreTypeOK
<1>2. \A i, j \in DOMAIN changeLog : i # j => changeLog[i].seq # changeLog[j].seq
  BY DEF SequenceNumbers
<1>3. \A i \in DOMAIN changeLog : changeLog[i].seq \in LoggedNumbers /\ changeLog[i].seq # e.seq
  BY DEF LoggedNumbers
<1>4. CASE Len(changeLog) < LogSize
  <2> DEFINE n == Len(changeLog)
  <2>1. changeLog' = Append(changeLog, e)
    BY <1>4 DEF Logged
  <2>2. /\ DOMAIN changeLog' = 1..(n + 1) /\ DOMAIN changeLog = 1..n
        /\ changeLog'[n + 1] = e
        /\ \A i \in 1..n : changeLog'[i] = changeLog[i]
        /\ Len(changeLog') = n + 1
    BY <1>1, <2>1
  <2>3. 1..(n + 1) = (1..n) \cup {n + 1} /\ n + 1 \notin 1..n
    BY <1>1
  <2>4. LoggedNumbers' = LoggedNumbers \cup {e.seq}
    BY <2>2, <2>3 DEF LoggedNumbers
  <2>5. \A i, j \in DOMAIN changeLog' : i # j => changeLog'[i].seq # changeLog'[j].seq
    BY <1>2, <1>3, <2>2, <2>3
  <2>. QED  BY <1>4, <2>4, <2>5
<1>5. CASE ~(Len(changeLog) < LogSize)
  <2> DEFINE n == Len(changeLog)
  <2>1. changeLog' = Append(Tail(changeLog), e) /\ n = LogSize /\ n \in Nat \ {0}
    BY <1>1, <1>5 DEF Logged
  <2>2. changeLog # <<>> /\ Tail(changeLog) \in Seq(ChangeEvent) /\ Len(Tail(changeLog)) = n - 1
    BY <1>1, <2>1
  <2>3. \A i \in 1..(n - 1) : Tail(changeLog)[i] = changeLog[i + 1]
    BY <1>1, <2>1, <2>2
  <2>4. /\ DOMAIN changeLog' = 1..n /\ DOMAIN changeLog = 1..n
        /\ changeLog'[n] = e
        /\ \A i \in 1..(n - 1) : changeLog'[i] = changeLog[i + 1]
        /\ Len(changeLog') = n
    BY <1>1, <2>1, <2>2, <2>3
  <2>5. \A i \in 1..n : i = n \/ (i \in 1..(n - 1) /\ i + 1 \in 1..n)
    BY <2>1
  <2>6. LoggedNumbers' \subseteq LoggedNumbers \cup {e.seq}
    <3>1. ASSUME NEW i \in 1..n
          PROVE  changeLog'[i].seq \in LoggedNumbers \cup {e.seq}
      <4>1. CASE i = n
        BY <2>4, <4>1
      <4>2. CASE i # n
        <5>1. changeLog'[i] = changeLog[i + 1] /\ i + 1 \in DOMAIN changeLog
          BY <2>4, <2>5, <4>2
        <5>. QED  BY <1>3, <5>1
      <4>. QED  BY <4>1, <4>2
    <3>. QED  BY <2>4, <3>1 DEF LoggedNumbers
  <2>7. ASSUME NEW i \in 1..n, NEW j \in 1..n, i # j
        PROVE  changeLog'[i].seq # changeLog'[j].seq
    <3>1. CASE i = n
      <4>1. j + 1 \in DOMAIN changeLog /\ changeLog'[j] = changeLog[j + 1] /\ changeLog'[i] = e
        BY <2>4, <2>5, <2>7, <3>1
      <4>. QED  BY <1>3, <4>1
    <3>2. CASE j = n
      <4>1. i + 1 \in DOMAIN changeLog /\ changeLog'[i] = changeLog[i + 1] /\ changeLog'[j] = e
        BY <2>4, <2>5, <2>7, <3>2
      <4>. QED  BY <1>3, <4>1
    <3>3. CASE i # n /\ j # n
      <4>1. /\ changeLog'[i] = changeLog[i + 1] /\ changeLog'[j] = changeLog[j + 1]
            /\ i + 1 \in 1..n /\ j + 1 \in 1..n
        BY <2>4, <2>5, <3>3
      <4>2. i + 1 # j + 1
        BY <2>7
      <4>. QED  BY <1>2, <2>4, <4>1, <4>2
    <3>. QED  BY <3>1, <3>2, <3>3
  <2>. QED  BY <2>1, <2>4, <2>6, <2>7
<1>. QED  BY <1>4, <1>5

\* The number goes from the call to the log.
LEMMA LogChangeNumbers ==
  ASSUME StoreInv, SequenceNumbers, NEW c \in Calls, LogChange(c)
  PROVE  SequenceNumbers'
<1> DEFINE n == calls[c].seq
<1>1. c \in Announcing /\ n \in WaitingNumbers /\ n \in 1..seq /\ n \notin LoggedNumbers
  BY DEF LogChange, Announcing, WaitingNumbers, SequenceNumbers
<1>2. Event(c) \in ChangeEvent /\ Event(c).seq = n /\ changeLog' = Logged(Event(c)) /\ UNCHANGED seq
  BY EventType DEF Event, LogChange
<1>3. /\ LoggedNumbers' \subseteq LoggedNumbers \cup {n}
      /\ \A i, j \in DOMAIN changeLog' : i # j => changeLog'[i].seq # changeLog'[j].seq
      /\ Len(changeLog') < LogSize =>
           Len(changeLog) < LogSize /\ LoggedNumbers' = LoggedNumbers \cup {n}
  BY <1>1, <1>2, LoggedNumbersGrow DEF StoreInv
<1>4. calls'[c].at # "notify" /\ \A k \in Calls \ {c} : calls'[k] = calls[k]
  BY DoingType DEF LogChange, StoreInv, StoreTypeOK, Call
<1>5. Announcing' = Announcing \ {c}
  BY <1>4 DEF Announcing
<1>6. \A k \in Announcing' : calls'[k].seq = calls[k].seq /\ calls[k].seq # n
  BY <1>1, <1>4, <1>5 DEF Announcing, SequenceNumbers
<1>7. WaitingNumbers' = WaitingNumbers \ {n}
  BY <1>5, <1>6 DEF WaitingNumbers
<1>8. \A e, k \in Announcing' : e # k => calls'[e].seq # calls'[k].seq
  BY <1>5, <1>6 DEF SequenceNumbers
<1> HIDE DEF n
<1>. QED  BY <1>1, <1>2, <1>3, <1>7, <1>8 DEF SequenceNumbers

LEMMA StoreNumbers ==
  ASSUME StoreInv, SequenceNumbers,
         \/ RequestNext
         \/ \E c \in Calls : CallStep(c) \/ LogChange(c)
         \/ RestartStore
  PROVE  SequenceNumbers'
<1>1. CASE RequestNext
  <2>1. ASSUME NEW c \in Calls, NEW d \in Docs,
               CreateDocument(c, d) \/ UpdateDocument(c, d) \/ DeleteDocument(c, d)
        PROVE  SequenceNumbers'
    <3>1. calls[c].at # "notify"
      BY <2>1 DEF CreateDocument, UpdateDocument, DeleteDocument
    <3>. QED  BY <2>1, <3>1, ChangeNumbers DEF CreateDocument, UpdateDocument, DeleteDocument
  <2>2. ASSUME NEW c \in Calls, NEW ws \in Commits, Commit(c, ws)
        PROVE  SequenceNumbers'
    <3>1. Doing(ws).at \in {"idle", "apply"}
      BY DoingType, StoreAssumption
    <3>. QED  BY <2>2, <3>1, ElsewhereNumbers DEF Commit
  <2>. QED  BY <1>1, <2>1, <2>2 DEF RequestNext
<1>2. ASSUME NEW c \in Calls, applyWrite(c)
      PROVE  SequenceNumbers'
  <2> DEFINE w == Head(calls[c].todo)
             rest == Tail(calls[c].todo)
  <2>1. calls[c].todo \in Seq(Write) /\ calls[c].todo # <<>> /\ calls[c].at # "notify"
    BY <1>2 DEF StoreInv, ActiveCall, Call, applyWrite
  <2>2. w \in Write /\ rest \in Seq(Write)
    BY <2>1
  <2>3. CASE w.del /\ docs[w.doc] = NoDoc
    <3>1. Doing(rest).at \in {"idle", "apply"}
      BY <2>2, DoingType
    <3>. QED  BY <1>2, <2>1, <2>3, <3>1, ElsewhereNumbers DEF applyWrite
  <2>4. CASE ~(w.del /\ docs[w.doc] = NoDoc)
    <3>1. Change(c, w.doc, IF w.del THEN NoDoc ELSE written + 1, rest)
      BY <1>2, <2>4 DEF applyWrite
    <3>. QED  BY <2>1, <2>2, <3>1, ChangeNumbers DEF Write
  <2>. QED  BY <2>3, <2>4
<1>3. ASSUME NEW c \in Calls, PersistOpen(c) \/ PersistWrite(c)
      PROVE  SequenceNumbers'
  <2>1. calls'[c].at # "notify" /\ calls[c].at # "notify"
    BY <1>3 DEF PersistOpen, PersistWrite, StoreInv, StoreTypeOK, Call
  <2>2. \A k \in Calls \ {c} : calls'[k] = calls[k]
    BY <1>3 DEF PersistOpen, PersistWrite, StoreInv, StoreTypeOK
  <2>. QED  BY <1>3, <2>1, <2>2, SameNumbers DEF PersistOpen, PersistWrite
<1>4. CASE RestartStore
  <2>1. \A c \in Calls : calls'[c].at = "idle"
    BY <1>4, IdleType DEF RestartStore
  <2>2. Announcing' = {} /\ seq' = 0 /\ changeLog' = <<>>
    BY <1>4, <2>1 DEF Announcing, RestartStore
  <2>3. WaitingNumbers' = {} /\ LoggedNumbers' = {} /\ 1..seq' = {} /\ DOMAIN changeLog' = {}
    BY <2>2 DEF WaitingNumbers, LoggedNumbers
  <2>. QED  BY <2>2, <2>3 DEF SequenceNumbers
<1>. QED  BY <1>1, <1>2, <1>3, <1>4, NumberNumbers, LogChangeNumbers DEF CallStep

LEMMA InitNumbers == Init => SequenceNumbers
<1> SUFFICES ASSUME Init PROVE SequenceNumbers
  OBVIOUS
<1>1. Announcing = {} /\ seq = 0 /\ changeLog = <<>>
  BY IdleType DEF Init, InitStore, Announcing
<1>2. WaitingNumbers = {} /\ LoggedNumbers = {} /\ 1..seq = {} /\ DOMAIN changeLog = {}
  BY <1>1 DEF WaitingNumbers, LoggedNumbers
<1>. QED  BY <1>1, <1>2 DEF SequenceNumbers

LEMMA NextNumbers == Inv /\ SequenceNumbers /\ [Next]_vars => SequenceNumbers'
<1> SUFFICES ASSUME Inv, SequenceNumbers, [Next]_vars PROVE SequenceNumbers'
  OBVIOUS
<1>1. CASE UNCHANGED storeVars
  BY <1>1, SameNumbers DEF storeVars
<1>. QED  BY <1>1, NextStore, StoreNumbers DEF Inv

\* No two changes have one number, and none is missing between the log, the
\* calls that announce a change, and what the ring buffer has evicted.
THEOREM UniqueNumbers == Spec => []SequenceNumbers
<1>1. Spec => []Inv
  BY InitType, NextType, PTL DEF Spec
<1>. QED  BY <1>1, InitNumbers, NextNumbers, PTL DEF Spec

-----------------------------------------------------------------------------
(* Listeners                                                               *)

\* No call has changed the document and not yet sent the change.
Announced(d) == \A k \in Calls : Pending(k) => calls[k].doc # d

\* A document whose last change overlapped no other is announced by one call at
\* most, and with the content it has.
PendingInv ==
  \A d \in Docs \ raced : \A k \in Calls : Pending(k) /\ calls[k].doc = d =>
     /\ calls[k].val = docs[d]
     /\ \A e \in Calls : Pending(e) /\ calls[e].doc = d => e = k

\* The i-th event of the queue is the last one of document d.
LastOf(q, d, i) == q[i].doc = d /\ \A j \in DOMAIN q : j > i => q[j].doc # d

\* The last event of an announced document has the content it has.
QueueInv(c) ==
  \A d \in streams[c].query \ raced : Announced(d) =>
     \A i \in DOMAIN queues[c] : LastOf(queues[c], d, i) => queues[c][i].val = docs[d]

\* A listener that began afresh knows nothing before its snapshot, and after it
\* has every document no change of which is under way.
ViewInv(c) ==
  /\ streams[c].at = "replay" => views[c] = NoDocs
  /\ streams[c].at \in {"current", "listening"} => InSync(c)

ListenInv ==
  \A c \in Streams : streams[c].at # "closed" /\ Healthy(c) =>
     QueueInv(c) /\ (~streams[c].resumed => ViewInv(c))

ConvergeInv == PendingInv /\ ListenInv

\* A call that neither begins nor ends an announcement.
LEMMA SamePending ==
  ASSUME ConvergeInv, UNCHANGED <<docs, raced>>, UNCHANGED listenVars,
         \A k \in Calls : Pending(k)' <=> Pending(k),
         \A k \in Calls : Pending(k) =>
            calls'[k].doc = calls[k].doc /\ calls'[k].val = calls[k].val
  PROVE  ConvergeInv'
<1>1. \A d : Announced(d)' <=> Announced(d)
  BY DEF Announced
<1>2. \A c \in Streams : \A d : Quiet(c, d)' <=> Quiet(c, d)
  BY DEF Quiet, listenVars
<1>3. PendingInv'
  BY DEF ConvergeInv, PendingInv
<1>4. ASSUME NEW c \in Streams, streams[c].at # "closed", Healthy(c)
      PROVE  QueueInv(c)' /\ (~streams[c].resumed => ViewInv(c)')
  <2>1. QueueInv(c) /\ (~streams[c].resumed => ViewInv(c))
    BY <1>4 DEF ConvergeInv, ListenInv
  <2>2. QueueInv(c)'
    BY <1>1, <2>1 DEF QueueInv, LastOf, listenVars
  <2>3. ViewInv(c) => ViewInv(c)'
    BY <1>2 DEF ViewInv, InSync, listenVars
  <2>. QED  BY <2>1, <2>2, <2>3
<1>5. ListenInv'
  BY <1>4 DEF ListenInv, Healthy, listenVars
<1>. QED  BY <1>3, <1>5 DEF ConvergeInv

\* A change begins the announcement of its document and touches no other.
LEMMA ChangeConverge ==
  ASSUME Inv, ConvergeInv, NEW c \in Calls, ~Pending(c), NEW d \in Docs,
         NEW v, NEW rest, Change(c, d, v, rest), UNCHANGED listenVars
  PROVE  ConvergeInv'
<1>1. Pending(c)' /\ calls'[c].doc = d /\ calls'[c].val = v
  BY DEF Change, AfterChange, Pending
<1>2. docs' = [docs EXCEPT ![d] = v] /\ docs'[d] = v /\ \A e \in Docs \ {d} : docs'[e] = docs[e]
  BY DEF Change, Inv, StoreInv, StoreTypeOK
<1>3. ASSUME NEW k \in Calls \ {c}
      PROVE  /\ Pending(k)' <=> Pending(k)
             /\ calls'[k].doc = calls[k].doc /\ calls'[k].val = calls[k].val
  <2>1. calls'[k] = SeenByOthers(k, d, v) /\ calls[k] \in Call
    BY DEF Change, Inv, StoreInv, StoreTypeOK
  <2>. QED  BY <2>1 DEF SeenByOthers, Call, Pending
<1>4. \A e \in Docs \ {d} : e \in raced' <=> e \in raced
  BY DEF Change
<1>5. d \notin raced' => \A k \in Calls \ {c} : ~(Pending(k) /\ calls[k].doc = d)
  BY DEF Change
<1>6. PendingInv'
  <2> SUFFICES ASSUME NEW e \in Docs \ raced', NEW k \in Calls, Pending(k)', calls'[k].doc = e
               PROVE  /\ calls'[k].val = docs'[e]
                      /\ \A j \in Calls : Pending(j)' /\ calls'[j].doc = e => j = k
    BY DEF PendingInv
  <2>1. CASE e = d
    BY <1>1, <1>2, <1>3, <1>5, <2>1
  <2>2. CASE e # d
    <3>1. e \in Docs \ raced /\ k # c /\ Pending(k) /\ calls[k].doc = e
      BY <1>1, <1>3, <1>4, <2>2
    <3>. QED  BY <1>1, <1>2, <1>3, <2>2, <3>1 DEF ConvergeInv, PendingInv
  <2>. QED  BY <2>1, <2>2
<1>7. ~Announced(d)'
  BY <1>1 DEF Announced
<1>8. \A e \in Docs \ {d} : Announced(e)' => Announced(e)
  BY <1>3 DEF Announced
<1>9. ASSUME NEW s \in Streams, streams[s].at # "closed", Healthy(s), streams[s].query \subseteq Docs
      PROVE  QueueInv(s)' /\ (~streams[s].resumed => ViewInv(s)')
  <2>1. QueueInv(s) /\ (~streams[s].resumed => ViewInv(s))
    BY <1>9 DEF ConvergeInv, ListenInv
  <2>2. QueueInv(s)'
    <3> SUFFICES ASSUME NEW e \in streams[s].query \ raced', Announced(e)',
                        NEW i \in DOMAIN queues[s], LastOf(queues[s], e, i)
                 PROVE  queues[s][i].val = docs'[e]
      BY DEF QueueInv, LastOf, listenVars
    <3>1. e # d /\ e \in Docs
      BY <1>7, <1>9
    <3>. QED  BY <1>2, <1>4, <1>8, <2>1, <3>1 DEF QueueInv
  <2>3. ASSUME InSync(s)
        PROVE  InSync(s)'
    <3> SUFFICES ASSUME NEW e \in streams[s].query \ raced', Quiet(s, e)'
                 PROVE  views[s][e] = docs'[e]
      BY DEF InSync, listenVars
    <3>1. e # d /\ e \in Docs
      BY <1>1, <1>9 DEF Quiet
    <3>2. Quiet(s, e)
      BY <1>3, <1>8, <3>1 DEF Quiet, Announced, listenVars
    <3>. QED  BY <1>2, <1>4, <2>3, <3>1, <3>2 DEF InSync
  <2>. QED  BY <2>1, <2>2, <2>3 DEF ViewInv, listenVars
<1>10. ListenInv'
  <2>1. \A s \in Streams : streams[s].query \subseteq Docs
    BY ListenAssumption DEF Inv, TypeOK, Stream
  <2>. QED  BY <1>9, <2>1 DEF ListenInv, Healthy, listenVars
<1>. QED  BY <1>6, <1>10 DEF ConvergeInv

\* The steps of the store that send nothing.
LEMMA StoreConverge ==
  ASSUME Inv, ConvergeInv, UNCHANGED listenVars,
         RequestNext \/ \E c \in Calls : CallStep(c)
  PROVE  ConvergeInv'
<1>1. ASSUME NEW c \in Calls, NEW k, ~Pending(c),
             k.at \in {"idle", "apply"}, calls' = [calls EXCEPT ![c] = k],
             UNCHANGED <<docs, raced>>
      PROVE  ConvergeInv'
  <2>1. calls'[c] = k /\ \A e \in Calls \ {c} : calls'[e] = calls[e]
    BY <1>1 DEF Inv, StoreInv, StoreTypeOK
  <2>2. \A e \in Calls : Pending(e)' <=> Pending(e)
    BY <1>1, <2>1 DEF Pending
  <2>. QED  BY <1>1, <2>1, <2>2, SamePending
<1>2. CASE RequestNext
  <2>1. ASSUME NEW c \in Calls, NEW d \in Docs,
               CreateDocument(c, d) \/ UpdateDocument(c, d) \/ DeleteDocument(c, d)
        PROVE  ConvergeInv'
    <3>1. ~Pending(c)
      BY <2>1 DEF CreateDocument, UpdateDocument, DeleteDocument, Pending
    <3>. QED  BY <2>1, <3>1, ChangeConverge DEF CreateDocument, UpdateDocument, DeleteDocument
  <2>2. ASSUME NEW c \in Calls, NEW ws \in Commits, Commit(c, ws)
        PROVE  ConvergeInv'
    <3>1. Doing(ws).at \in {"idle", "apply"}
      BY DoingType, StoreAssumption
    <3>2. ~Pending(c)
      BY <2>2 DEF Commit, Pending
    <3>. QED  BY <1>1, <2>2, <3>1, <3>2 DEF Commit
  <2>. QED  BY <1>2, <2>1, <2>2 DEF RequestNext
<1>3. ASSUME NEW c \in Calls, applyWrite(c)
      PROVE  ConvergeInv'
  <2> DEFINE w == Head(calls[c].todo)
             rest == Tail(calls[c].todo)
  <2>1. calls[c].todo \in Seq(Write) /\ calls[c].todo # <<>> /\ ~Pending(c)
    BY <1>3 DEF Inv, StoreInv, ActiveCall, Call, applyWrite, Pending
  <2>2. w \in Write /\ rest \in Seq(Write)
    BY <2>1
  <2>3. CASE w.del /\ docs[w.doc] = NoDoc
    <3>1. Doing(rest).at \in {"idle", "apply"}
      BY <2>2, DoingType
    <3>. QED  BY <1>1, <1>3, <2>1, <2>3, <3>1 DEF applyWrite
  <2>4. CASE ~(w.del /\ docs[w.doc] = NoDoc)
    <3>1. Change(c, w.doc, IF w.del THEN NoDoc ELSE written + 1, rest)
      BY <1>3, <2>4 DEF applyWrite
    <3>. QED  BY <2>1, <2>2, <3>1, ChangeConverge DEF Write
  <2>. QED  BY <2>3, <2>4
<1>4. ASSUME NEW c \in Calls, PersistOpen(c) \/ PersistWrite(c) \/ Number(c)
      PROVE  ConvergeInv'
  <2>1. Pending(c) /\ Pending(c)' /\ calls'[c].doc = calls[c].doc /\ calls'[c].val = calls[c].val
    BY <1>4 DEF PersistOpen, PersistWrite, Number, Pending, Inv, StoreInv, StoreTypeOK, Call
  <2>2. \A k \in Calls \ {c} : calls'[k] = calls[k]
    BY <1>4 DEF PersistOpen, PersistWrite, Number, Inv, StoreInv, StoreTypeOK
  <2>3. \A k \in Calls : Pending(k)' <=> Pending(k)
    BY <2>1, <2>2 DEF Pending
  <2>4. UNCHANGED <<docs, raced>>
    BY <1>4 DEF PersistOpen, PersistWrite, Number
  <2>. QED  BY <2>1, <2>2, <2>3, <2>4, SamePending
<1>. QED  BY <1>2, <1>3, <1>4 DEF CallStep

\* The change reaches the queues as the content the document has, unless it was
\* overtaken, and so becomes the last event of its document there.
LEMMA NotifyConverge ==
  ASSUME Inv, ConvergeInv, NEW k \in Calls, notifyWatchers(k)
  PROVE  ConvergeInv'
<1> DEFINE e == Event(k)
<1>1. Pending(k) /\ e.doc = calls[k].doc /\ e.val = calls[k].val /\ e \in ChangeEvent
  BY EventType DEF notifyWatchers, LogChange, Pending, Event, Inv
<1>2. ~Pending(k)' /\ \A j \in Calls \ {k} : calls'[j] = calls[j]
  BY DoingType DEF notifyWatchers, LogChange, Pending, Inv, StoreInv, StoreTypeOK, Call
<1>3. \A j \in Calls : (Pending(j)' <=> j # k /\ Pending(j)) /\ (j # k => calls'[j] = calls[j])
  BY <1>2 DEF Pending
<1>4. UNCHANGED <<docs, raced, watchers, streams, views, tokens>>
  BY DEF notifyWatchers, LogChange
<1>5. PendingInv'
  BY <1>3, <1>4 DEF ConvergeInv, PendingInv
<1>6. PICK dropped \in SUBSET Streams :
        /\ queues' = [s \in Streams |->
              IF Matches(s, e) /\ s \notin dropped THEN Append(queues[s], e) ELSE queues[s]]
        /\ lagging' = lagging \cup dropped
  <2>1. PICK dropped \in SUBSET {s \in {r \in Streams : Matches(r, e)} : Len(queues[s]) >= ChanCap} :
          /\ queues' = [s \in Streams |->
                IF s \in {r \in Streams : Matches(r, e)} \ dropped
                THEN Append(queues[s], e) ELSE queues[s]]
          /\ lagging' = lagging \cup dropped
    BY DEF notifyWatchers, Send
  <2>. QED  BY <2>1
<1>7. ASSUME NEW s \in Streams, streams[s].at # "closed", Healthy(s)'
      PROVE  QueueInv(s)' /\ (~streams[s].resumed => ViewInv(s)')
  <2>1. Healthy(s) /\ s \notin dropped /\ Watching(s)
    BY <1>4, <1>6, <1>7 DEF Healthy, Watching, Inv, TypeOK, Stream
  <2>2. QueueInv(s) /\ (~streams[s].resumed => ViewInv(s))
    BY <1>7, <2>1 DEF ConvergeInv, ListenInv
  <2>3. queues[s] \in Seq(ChangeEvent) /\ streams[s].query \subseteq Docs
    BY ListenAssumption DEF Inv, TypeOK, Stream
  <2>4. CASE e.doc \notin streams[s].query
    <3>1. queues'[s] = queues[s]
      BY <1>6, <2>4 DEF Matches
    <3>2. \A d \in streams[s].query : Announced(d)' => Announced(d)
      BY <1>1, <1>3, <2>4 DEF Announced
    <3>3. \A d \in streams[s].query : Quiet(s, d)' => Quiet(s, d)
      BY <1>1, <1>3, <2>4, <3>1 DEF Quiet
    <3>4. QueueInv(s)'
      BY <1>4, <2>2, <3>1, <3>2 DEF QueueInv, LastOf
    <3>5. ViewInv(s) => ViewInv(s)'
      BY <1>4, <3>3 DEF ViewInv, InSync
    <3>. QED  BY <2>2, <3>4, <3>5
  <2>5. CASE e.doc \in streams[s].query
    <3> DEFINE n == Len(queues[s])
    <3>1. queues'[s] = Append(queues[s], e)
      BY <1>6, <2>1, <2>5 DEF Matches
    <3>2. /\ n \in Nat /\ DOMAIN queues[s] = 1..n /\ DOMAIN queues'[s] = 1..(n + 1)
          /\ queues'[s][n + 1] = e /\ \A i \in 1..n : queues'[s][i] = queues[s][i]
          /\ \A i \in 1..(n + 1) : i = n + 1 \/ (i \in 1..n /\ n + 1 > i)
      BY <1>1, <2>3, <3>1
    <3>3. QueueInv(s)'
      <4> SUFFICES ASSUME NEW d \in streams[s].query \ raced, Announced(d)',
                          NEW i \in DOMAIN queues'[s], LastOf(queues'[s], d, i)
                   PROVE  queues'[s][i].val = docs[d]
        BY <1>4 DEF QueueInv, LastOf
      <4>1. CASE d = e.doc
        <5>1. i = n + 1
          BY <3>2, <4>1 DEF LastOf
        <5>2. e.val = docs[d]
          BY <1>1, <2>3, <4>1 DEF ConvergeInv, PendingInv
        <5>. QED  BY <3>2, <5>1, <5>2
      <4>2. CASE d # e.doc
        <5>1. i \in 1..n
          BY <3>2, <4>2 DEF LastOf
        <5>2. LastOf(queues[s], d, i)
          BY <3>2, <5>1 DEF LastOf
        <5>3. Announced(d)
          BY <1>1, <1>3, <4>2 DEF Announced
        <5>. QED  BY <2>2, <3>2, <5>1, <5>2, <5>3 DEF QueueInv
      <4>. QED  BY <4>1, <4>2
    <3>4. \A d \in streams[s].query : Quiet(s, d)' => Quiet(s, d)
      <4> SUFFICES ASSUME NEW d \in streams[s].query, Quiet(s, d)' PROVE Quiet(s, d)
        OBVIOUS
      <4>1. d # e.doc
        BY <3>2 DEF Quiet
      <4>2. \A j \in Calls : Pending(j) => calls[j].doc # d
        BY <1>1, <1>3, <4>1 DEF Quiet
      <4>3. \A i \in DOMAIN queues[s] : queues[s][i].doc # d
        BY <3>2 DEF Quiet
      <4>. QED  BY <4>2, <4>3 DEF Quiet
    <3>5. ViewInv(s) => ViewInv(s)'
      BY <1>4, <3>4 DEF ViewInv, InSync
    <3>. QED  BY <2>2, <3>3, <3>5
  <2>. QED  BY <2>4, <2>5
<1>8. ListenInv'
  BY <1>4, <1>7 DEF ListenInv
<1>. QED  BY <1>5, <1>8 DEF ConvergeInv

\* A listener that a step leaves alone.
LEMMA SameListener ==
  ASSUME ConvergeInv, UNCHANGED storeVars, NEW s \in Streams,
         streams'[s] = streams[s], queues'[s] = queues[s], views'[s] = views[s],
         Healthy(s)' => Healthy(s), streams[s].at # "closed", Healthy(s)'
  PROVE  QueueInv(s)' /\ (~streams[s].resumed => ViewInv(s)')
<1>1. QueueInv(s) /\ (~streams[s].resumed => ViewInv(s))
  BY DEF ConvergeInv, ListenInv
<1>2. \A d : Announced(d)' <=> Announced(d)
  BY DEF Announced, Pending, storeVars
<1>3. \A d : Quiet(s, d)' <=> Quiet(s, d)
  BY DEF Quiet, Pending, storeVars
<1>4. QueueInv(s)'
  BY <1>1, <1>2 DEF QueueInv, LastOf, storeVars
<1>5. ViewInv(s) => ViewInv(s)'
  BY <1>3 DEF ViewInv, InSync, storeVars
<1>. QED  BY <1>1, <1>4, <1>5

LEMMA AddTargetConverge ==
  ASSUME Inv, ConvergeInv, NEW c \in Streams, NEW t \in TargetIds, NEW q \in Queries,
         NEW resume \in BOOLEAN, AddTarget(c, t, q, resume)
  PROVE  ListenInv'
<1>1. /\ streams'[c] = [at |-> "replay", target |-> t, query |-> q, resumed |-> resume]
      /\ queues'[c] = <<>>
      /\ ~resume => views'[c] = NoDocs
  BY DEF AddTarget, Inv, TypeOK
<1>2. QueueInv(c)' /\ (~streams'[c].resumed => ViewInv(c)')
  <2>1. DOMAIN queues'[c] = {}
    BY <1>1
  <2>. QED  BY <1>1, <2>1 DEF QueueInv, ViewInv, NoDocs
<1>3. ASSUME NEW s \in Streams \ {c}, streams[s].at # "closed", Healthy(s)'
      PROVE  QueueInv(s)' /\ (~streams[s].resumed => ViewInv(s)')
  <2>1. streams'[s] = streams[s] /\ queues'[s] = queues[s]
    BY DEF AddTarget, Inv, TypeOK
  <2>2. views'[s] = views[s]
    BY DEF AddTarget, Inv, TypeOK
  <2>3. Healthy(s)
    <3>1. streams[s].target \in TargetIds
      BY DEF Inv, TypeOK, Stream
    <3>. QED  BY <1>3, <2>1, <3>1 DEF Healthy, AddTarget, Inv, TypeOK
  <2>. QED  BY <1>3, <2>1, <2>2, <2>3, SameListener DEF AddTarget
<1>4. \A s \in Streams \ {c} : streams'[s] = streams[s]
  BY DEF AddTarget, Inv, TypeOK
<1>. QED  BY <1>2, <1>3, <1>4 DEF ListenInv

\* The snapshot is taken with the watcher registered: whatever it misses is
\* under way.
LEMMA ReplayConverge ==
  ASSUME Inv, ConvergeInv, NEW c \in Streams, Replay(c)
  PROVE  ListenInv'
<1>1. /\ UNCHANGED <<storeVars, watchers, queues, lagging>>
      /\ \A s \in Streams \ {c} : streams'[s] = streams[s] /\ views'[s] = views[s]
      /\ streams'[c].at = "current" /\ streams'[c].resumed = streams[c].resumed
      /\ streams'[c].query = streams[c].query /\ streams'[c].target = streams[c].target
      /\ streams[c].at = "replay"
      /\ ~streams[c].resumed => views'[c] = Snapshot(c)
  BY DEF Replay, Inv, TypeOK, Stream, Resumes
<1>2. \A s \in Streams : Healthy(s)' <=> Healthy(s)
  BY <1>1 DEF Healthy
<1>3. ASSUME Healthy(c)
      PROVE  QueueInv(c)' /\ (~streams'[c].resumed => ViewInv(c)')
  <2>1. QueueInv(c) /\ (~streams[c].resumed => views[c] = NoDocs)
    BY <1>1, <1>3 DEF ConvergeInv, ListenInv, ViewInv
  <2>2. \A d : Announced(d)' <=> Announced(d)
    BY <1>1 DEF Announced, Pending, storeVars
  <2>3. QueueInv(c)'
    BY <1>1, <2>1, <2>2 DEF QueueInv, LastOf, storeVars
  <2>4. ASSUME ~streams[c].resumed, NEW d \in streams[c].query
        PROVE  views'[c][d] = docs[d]
    <3>1. d \in Docs
      BY ListenAssumption DEF Inv, TypeOK, Stream
    <3>. QED  BY <1>1, <2>1, <2>4, <3>1 DEF Snapshot, NoDocs
  <2>. QED  BY <1>1, <2>3, <2>4 DEF ViewInv, InSync, storeVars
<1>4. ASSUME NEW s \in Streams \ {c}, streams[s].at # "closed", Healthy(s)
      PROVE  QueueInv(s)' /\ (~streams[s].resumed => ViewInv(s)')
  BY <1>1, <1>2, <1>4, SameListener
<1>. QED  BY <1>1, <1>2, <1>3, <1>4 DEF ListenInv

LEMMA SendCurrentConverge ==
  ASSUME Inv, ConvergeInv, NEW c \in Streams, SendCurrent(c)
  PROVE  ListenInv'
<1>1. /\ UNCHANGED <<storeVars, watchers, queues, views, lagging>>
      /\ \A s \in Streams \ {c} : streams'[s] = streams[s]
      /\ streams'[c].at = "listening" /\ streams'[c].resumed = streams[c].resumed
      /\ streams'[c].query = streams[c].query /\ streams'[c].target = streams[c].target
      /\ streams[c].at = "current"
  BY DEF SendCurrent, Inv, TypeOK, Stream
<1>2. \A s \in Streams : Healthy(s)' <=> Healthy(s)
  BY <1>1 DEF Healthy
<1>3. ASSUME Healthy(c)
      PROVE  QueueInv(c)' /\ (~streams'[c].resumed => ViewInv(c)')
  <2>1. QueueInv(c) /\ (~streams[c].resumed => InSync(c))
    BY <1>1, <1>3 DEF ConvergeInv, ListenInv, ViewInv
  <2>2. \A d : (Announced(d)' <=> Announced(d)) /\ (Quiet(c, d)' <=> Quiet(c, d))
    BY <1>1 DEF Announced, Quiet, Pending, storeVars
  <2>3. QueueInv(c)'
    BY <1>1, <2>1, <2>2 DEF QueueInv, LastOf, storeVars
  <2>4. InSync(c) => InSync(c)'
    BY <1>1, <2>2 DEF InSync, storeVars
  <2>. QED  BY <1>1, <2>1, <2>3, <2>4 DEF ViewInv
<1>4. ASSUME NEW s \in Streams \ {c}, streams[s].at # "closed", Healthy(s)
      PROVE  QueueInv(s)' /\ (~streams[s].resumed => ViewInv(s)')
  BY <1>1, <1>2, <1>4, SameListener
<1>. QED  BY <1>1, <1>2, <1>3, <1>4 DEF ListenInv

\* The last event of a document brings the content it has.
LEMMA SendConverge ==
  ASSUME Inv, ConvergeInv, NEW c \in Streams, sendDocumentChange(c)
  PROVE  ListenInv'
<1> DEFINE q == queues[c]
           e == Head(q)
           n == Len(q)
<1>1. q \in Seq(ChangeEvent) /\ q # <<>>
  BY DEF sendDocumentChange, Inv, TypeOK
<1>2. /\ n \in Nat \ {0} /\ e = q[1] /\ e \in ChangeEvent /\ DOMAIN q = 1..n
      /\ Tail(q) \in Seq(ChangeEvent) /\ DOMAIN Tail(q) = 1..(n - 1)
      /\ \A i \in 1..(n - 1) : Tail(q)[i] = q[i + 1] /\ i + 1 \in 1..n
      /\ \A i \in 1..n : i = 1 \/ (i > 1 /\ i - 1 \in 1..(n - 1) /\ (i - 1) + 1 = i)
  BY <1>1
<1>3. /\ UNCHANGED <<storeVars, watchers, streams, lagging>>
      /\ streams[c].at = "listening"
      /\ queues'[c] = Tail(q) /\ e.doc \in Docs
      /\ views'[c] = [views[c] EXCEPT ![e.doc] = e.val]
      /\ \A s \in Streams \ {c} : queues'[s] = queues[s] /\ views'[s] = views[s]
  BY <1>2 DEF sendDocumentChange, Inv, TypeOK, ChangeEvent
<1>4. \A s \in Streams : Healthy(s)' <=> Healthy(s)
  BY <1>3 DEF Healthy
<1>5. ASSUME Healthy(c)
      PROVE  QueueInv(c)' /\ (~streams'[c].resumed => ViewInv(c)')
  <2>1. QueueInv(c) /\ (~streams[c].resumed => InSync(c))
    BY <1>3, <1>5 DEF ConvergeInv, ListenInv, ViewInv
  <2>2. \A d : Announced(d)' <=> Announced(d)
    BY <1>3 DEF Announced, Pending, storeVars
  <2>3. QueueInv(c)'
    <3> SUFFICES ASSUME NEW d \in streams[c].query \ raced, Announced(d),
                        NEW i \in 1..(n - 1), LastOf(Tail(q), d, i)
                 PROVE  Tail(q)[i].val = docs[d]
      BY <1>2, <1>3, <2>2 DEF QueueInv, storeVars
    <3>1. LastOf(q, d, i + 1)
      <4>1. ASSUME NEW j \in 1..n, j > i + 1
            PROVE  q[j].doc # d
        <5>1. j - 1 \in 1..(n - 1) /\ j - 1 > i /\ Tail(q)[j - 1] = q[j]
          BY <1>2, <4>1
        <5>. QED  BY <1>2, <5>1 DEF LastOf
      <4>. QED  BY <1>2, <4>1 DEF LastOf
    <3>. QED  BY <1>2, <2>1, <3>1 DEF QueueInv
  <2>4. ASSUME InSync(c)
        PROVE  InSync(c)'
    <3> SUFFICES ASSUME NEW d \in streams[c].query \ raced, Quiet(c, d)'
                 PROVE  views'[c][d] = docs[d]
      BY <1>3 DEF InSync, storeVars
    <3>1. d \in Docs /\ views[c] \in [Docs -> Contents]
      BY ListenAssumption DEF Inv, TypeOK, Stream
    <3>2. Announced(d) /\ \A i \in 1..(n - 1) : Tail(q)[i].doc # d
      BY <1>2, <1>3 DEF Quiet, Announced, Pending, storeVars
    <3>3. \A i \in 1..n : i > 1 => q[i].doc # d
      BY <1>2, <3>2
    <3>4. CASE e.doc = d
      <4>1. LastOf(q, d, 1)
        BY <1>2, <3>3, <3>4 DEF LastOf
      <4>2. e.val = docs[d]
        BY <1>2, <2>1, <3>2, <4>1 DEF QueueInv
      <4>. QED  BY <1>3, <3>1, <3>4, <4>2
    <3>5. CASE e.doc # d
      <4>1. \A i \in 1..n : q[i].doc # d
        BY <1>2, <3>3, <3>5
      <4>2. Quiet(c, d)
        BY <1>2, <3>2, <4>1 DEF Quiet, Announced
      <4>. QED  BY <1>3, <2>4, <3>1, <3>5, <4>2 DEF InSync
    <3>. QED  BY <3>4, <3>5
  <2>. QED  BY <1>3, <2>1, <2>3, <2>4 DEF ViewInv
<1>6. ASSUME NEW s \in Streams \ {c}, streams[s].at # "closed", Healthy(s)
      PROVE  QueueInv(s)' /\ (~streams[s].resumed => ViewInv(s)')
  BY <1>3, <1>4, <1>6, SameListener
<1>. QED  BY <1>3, <1>4, <1>5, <1>6 DEF ListenInv

LEMMA CloseConverge ==
  ASSUME Inv, ConvergeInv, NEW c \in Streams, Close(c)
  PROVE  ListenInv'
<1>1. /\ UNCHANGED <<storeVars, views, lagging>>
      /\ streams'[c].at = "closed"
      /\ \A s \in Streams \ {c} : streams'[s] = streams[s] /\ queues'[s] = queues[s]
  BY DEF Close, Inv, TypeOK, Stream
<1>2. ASSUME NEW s \in Streams \ {c}, Healthy(s)'
      PROVE  Healthy(s)
  <2>1. streams[s].target \in TargetIds /\ s # NoStream
    BY ListenAssumption DEF Inv, TypeOK, Stream
  <2>. QED  BY <1>1, <1>2, <2>1 DEF Healthy, Close, RemoveWatcher, Inv, TypeOK
<1>3. ASSUME NEW s \in Streams \ {c}, streams[s].at # "closed", Healthy(s)'
      PROVE  QueueInv(s)' /\ (~streams[s].resumed => ViewInv(s)')
  BY <1>1, <1>2, <1>3, SameListener
<1>. QED  BY <1>1, <1>3 DEF ListenInv

LEMMA NextConverge == Inv /\ ConvergeInv /\ [Next]_vars => ConvergeInv'
<1> SUFFICES ASSUME Inv, ConvergeInv, [Next]_vars PROVE ConvergeInv'
  OBVIOUS
<1>1. UNCHANGED storeVars => PendingInv'
  BY DEF storeVars, ConvergeInv, PendingInv, Pending
<1>2. CASE WriteNext
  BY <1>2, StoreConverge, NotifyConverge DEF WriteNext
<1>3. CASE ListenNext
  <2>1. UNCHANGED storeVars
    BY <1>3 DEF ListenNext, AddTarget, Replay, SendCurrent, sendDocumentChange, Close
  <2>2. ListenInv'
    BY <1>3, AddTargetConverge, ReplayConverge, SendCurrentConverge, SendConverge, CloseConverge
       DEF ListenNext
  <2>. QED  BY <1>1, <2>1, <2>2 DEF ConvergeInv
<1>4. CASE Restart
  <2>1. \A c \in Calls : ~Pending(c)'
    BY <1>4, IdleType DEF Restart, RestartStore, Pending
  <2>2. \A s \in Streams : streams'[s].at = "closed"
    BY <1>4 DEF Restart, Inv, TypeOK, Stream
  <2>. QED  BY <2>1, <2>2 DEF ConvergeInv, PendingInv, ListenInv
<1>5. CASE UNCHANGED vars
  <2>1. \A k \in Calls : Pending(k)' <=> Pending(k)
    BY <1>5 DEF vars, storeVars, Pending
  <2>. QED  BY <1>5, <2>1, SamePending DEF vars, storeVars
<1>. QED  BY <1>2, <1>3, <1>4, <1>5 DEF Next

\* However the registration, the snapshot and the steps of concurrent writes
\* fall, a listener that began afresh and lost nothing has every document no
\* change of which is under way.
THEOREM ListenersAgree == Spec => []ListenersConverge
<1>1. Init => ConvergeInv
  <2> SUFFICES ASSUME Init PROVE ConvergeInv
    OBVIOUS
  <2>1. \A c \in Calls : ~Pending(c)
    BY IdleType DEF Init, InitStore, Pending
  <2>2. \A s \in Streams : streams[s].at = "closed"
    BY DEF Init, InitListen
  <2>. QED  BY <2>1, <2>2 DEF ConvergeInv, PendingInv, ListenInv
<1>2. ConvergeInv => ListenersConverge
  BY DEF ConvergeInv, ListenInv, ViewInv, ListenersConverge
<1>3. Spec => []Inv
  BY InitType, NextType, PTL DEF Spec
<1>. QED  BY <1>1, <1>2, <1>3, NextConverge, PTL DEF Spec
=============================================================================
