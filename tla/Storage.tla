------------------------------ MODULE Storage -------------------------------
(***************************************************************************)
(* The Cloud Storage emulator: internal/gcs/store.go and the HTTP handlers *)
(* of internal/gcs/service.go.                                             *)
(*                                                                         *)
(* A store method runs under one mutex and ends, when it changed           *)
(* something, by writing the whole state to one JSON file: each is one     *)
(* step.  An upload handler makes several: it looks for the bucket, reads  *)
(* the body and only then stores the object.  A resumable upload is a      *)
(* session in memory, which its PUT requests append to without a lock.     *)
(*                                                                         *)
(* A content is the sequence of the request bodies it was put together     *)
(* from.  A body names the object its sender meant and the run of the      *)
(* process in which the sender learned where to send it, neither of which  *)
(* the code has.                                                           *)
(***************************************************************************)
EXTENDS Naturals, Sequences, FiniteSets

CONSTANTS
  Buckets,      \* bucket names
  Names,        \* object names
  Handlers,     \* the HTTP requests served at a time
  NoObject,     \* an object name that is not in the objects map
  NoUpload,     \* an upload ID that is not in the resumables map
  Torn,         \* what two handlers that write one buffer at once may leave
  MaxIds,       \* bound: etags generated in one run
  MaxChunks,    \* bound: bodies appended to one upload session
  MaxRestarts   \* bound: restarts of the process

ASSUME StorageAssumption ==
  /\ {MaxIds, MaxChunks, MaxRestarts} \subseteq Nat
  /\ Buckets # {} /\ Names # {}

Keys == Buckets \X Names

Body == [key : Keys, run : 0..MaxRestarts]

Contents == Seq(Body \cup {Torn})

ASSUME NoneAssumption == NoObject \notin Contents

\* A resumableUpload; open while it is in the resumables map.  Its handlers
\* keep a pointer to it, so that it outlives its entry.
Upload == [key : Keys, data : Contents, open : BOOLEAN]

ASSUME NoUploadAssumption == NoUpload \notin Upload

Ids == 1..MaxIds

\* The URI a client was given for its upload.
Ticket == [id : Ids, key : Keys, run : 0..MaxRestarts]

\* A handler: where it stands, the session it works on and the body it got.
Handler ==
  [at : {"idle", "put", "init", "lookup", "write", "store", "drop"},
   id : 0..MaxIds, body : Body]

VARIABLES
  buckets,      \* Store.buckets
  objects,      \* Store.objects
  disk,         \* state.json
  etagCounter,  \* the process-wide counter
  uploads,      \* the resumableUploads of this run
  handlers,     \* the requests being served
  tickets,      \* the upload URIs clients hold
  run,          \* the number of restarts so far
  event         \* history: what the last step was told from outside

vars == <<buckets, objects, disk, etagCounter, uploads, handlers, tickets, run, event>>

storeVars == <<buckets, objects, disk>>

\* What a step may be told: a client has a bucket or an object deleted, the
\* process ends, perhaps while it writes the file.
Events == {"none", "delete", "restart", "torn"}

-----------------------------------------------------------------------------
(* The store                                                               *)

Empty == [k \in Keys |-> NoObject]

\* Every method that changes the store ends so: the maps and the file agree.
Persist ==
  disk' = [buckets |-> buckets', objects |-> objects']

\* A defective PutObject: it trusts the handler's look at the bucket.
PutObjectUnchecked(k, content) ==
  /\ objects' = [objects EXCEPT ![k] = content]
  /\ UNCHANGED buckets
  /\ Persist

PutObject(k, content) ==
  /\ k[1] \in buckets
  /\ objects' = [objects EXCEPT ![k] = content]
  /\ UNCHANGED buckets
  /\ Persist

NewBucket(b) ==
  /\ b \notin buckets
  /\ etagCounter < MaxIds
  /\ etagCounter' = etagCounter + 1
  /\ buckets' = buckets \cup {b}
  /\ objects' = [k \in Keys |-> IF k[1] = b THEN NoObject ELSE objects[k]]
  /\ Persist

RemoveBucket(b) ==
  /\ b \in buckets
  /\ \A n \in Names : objects[<<b, n>>] = NoObject
  /\ buckets' = buckets \ {b}
  /\ objects' = [k \in Keys |-> IF k[1] = b THEN NoObject ELSE objects[k]]
  /\ Persist

\* A defective DeleteObject: it forgets to write the file.
RemoveObjectInMemory(k) ==
  /\ objects[k] # NoObject
  /\ objects' = [objects EXCEPT ![k] = NoObject]
  /\ UNCHANGED <<buckets, disk>>

RemoveObject(k) ==
  /\ objects[k] # NoObject
  /\ objects' = [objects EXCEPT ![k] = NoObject]
  /\ UNCHANGED buckets
  /\ Persist

Duplicate(from, to) ==
  /\ to[1] \in buckets
  /\ objects[from] # NoObject
  /\ objects' = [objects EXCEPT ![to] = objects[from]]
  /\ UNCHANGED buckets
  /\ Persist

\* What load makes of a file.
Loaded(d) == [buckets |-> d.buckets,
              objects |-> [k \in Keys |-> IF k[1] \in d.buckets
                                          THEN d.objects[k] ELSE NoObject]]

-----------------------------------------------------------------------------
(* Requests that make one call of the store                                *)

handlerVars == <<uploads, handlers, tickets, run>>

HandleCreateBucket(b) == NewBucket(b) /\ event' = "none" /\ UNCHANGED handlerVars

HandleDeleteBucket(b) ==
  RemoveBucket(b) /\ event' = "delete" /\ UNCHANGED <<etagCounter, handlerVars>>

HandleDeleteObject(k) ==
  RemoveObject(k) /\ event' = "delete" /\ UNCHANGED <<etagCounter, handlerVars>>

HandleCopyObject(from, to) ==
  Duplicate(from, to) /\ event' = "none" /\ UNCHANGED <<etagCounter, handlerVars>>

-----------------------------------------------------------------------------
(* Uploads                                                                 *)

Idle == [at |-> "idle", id |-> 0, body |-> [key |-> CHOOSE k \in Keys : TRUE, run |-> 0]]

Goes(h, to) == handlers' = [handlers EXCEPT ![h] = to]

Moves(h, at) == Goes(h, [handlers[h] EXCEPT !.at = at])

Chunks(i) == {h \in Handlers : handlers[h].id = i /\ handlers[h].at \in {"lookup", "write"}}

\* handleUpload finds the bucket and passes on to the handler of the upload's
\* type: a whole object, a new session, or a PUT to the session of a ticket.
HandleUpload(h, at, i, body) ==
  /\ handlers[h].at = "idle"
  /\ body.key[1] \in buckets
  /\ Goes(h, [at |-> at, id |-> i, body |-> body])
  /\ UNCHANGED <<storeVars, etagCounter, uploads, tickets, run>>

HandleUploadRequest(h) ==
  \/ \E k \in Keys, at \in {"put", "init"} : HandleUpload(h, at, 0, [key |-> k, run |-> run])
  \/ \E t \in tickets :
       /\ uploads[t.id] # NoUpload =>
            Len(uploads[t.id].data) + Cardinality(Chunks(t.id)) < MaxChunks
       /\ HandleUpload(h, "lookup", t.id, [key |-> t.key, run |-> t.run])

\* A request without a name, or with a body that cannot be read, ends here; a
\* session stays as it was.
RefuseUpload(h) ==
  /\ handlers[h].at \in {"put", "init", "write"}
  /\ Goes(h, Idle)
  /\ UNCHANGED <<storeVars, etagCounter, uploads, tickets, run>>

\* A simple or multipart upload, its body read: the bucket may be gone by now.
HandleWholeUpload(h) ==
  LET me == handlers[h] IN
  /\ me.at = "put"
  /\ \/ PutObject(me.body.key, <<me.body>>)
     \/ me.body.key[1] \notin buckets /\ UNCHANGED storeVars
  /\ Goes(h, Idle)
  /\ UNCHANGED <<etagCounter, uploads, tickets, run>>

\* A defective number: the sessions that are open are counted.
NewIdByCount == Cardinality({i \in Ids : uploads[i] # NoUpload /\ uploads[i].open}) + 1

\* The number of a new upload session.
NewId == etagCounter + 1

HandleResumableInit(h) ==
  LET k == handlers[h].body.key IN
  /\ handlers[h].at = "init"
  /\ etagCounter < MaxIds
  /\ etagCounter' = etagCounter + 1
  /\ uploads' = [uploads EXCEPT ![NewId] = [key |-> k, data |-> <<>>, open |-> TRUE]]
  /\ tickets' = tickets \cup {[id |-> NewId, key |-> k, run |-> run]}
  /\ Goes(h, Idle)
  /\ UNCHANGED <<storeVars, run>>

\* A defective look-up: it does not ask whether the session was in the map.
FindUploadUnchecked(h) ==
  /\ handlers[h].at = "lookup"
  /\ Moves(h, "write")
  /\ UNCHANGED <<storeVars, etagCounter, uploads, tickets, run>>

\* The first step of handleResumableChunk: the session is taken from the map.
FindUpload(h) ==
  LET u == uploads[handlers[h].id] IN
  /\ handlers[h].at = "lookup"
  /\ IF u # NoUpload /\ u.open THEN Moves(h, "write") ELSE Goes(h, Idle)
  /\ UNCHANGED <<storeVars, etagCounter, uploads, tickets, run>>

\* Whether another handler may be at the buffer of h's session right now.
Beside(h, at) == \E g \in Handlers \ {h} : handlers[g].id = handlers[h].id /\ handlers[g].at = at

\* The buffer after a write that nothing orders with another handler's: both
\* may have taken the same place in it.
Written(h) ==
  LET data == uploads[handlers[h].id].data IN
  {Append(data, handlers[h].body)} \cup
    (IF Beside(h, "store") /\ data # <<>>
       THEN {[data EXCEPT ![Len(data)] = x] : x \in {handlers[h].body, Torn}}
       ELSE {})

\* The body is appended to the session's buffer, with no lock held.
WriteChunk(h) ==
  /\ handlers[h].at = "write"
  /\ \E data \in Written(h) : uploads' = [uploads EXCEPT ![handlers[h].id].data = data]
  /\ Moves(h, "store")
  /\ UNCHANGED <<storeVars, etagCounter, tickets, run>>

\* The bytes of the buffer as the handler sees them: another handler may have
\* made room for its own and not filled it.
Seen(h) ==
  LET data == uploads[handlers[h].id].data IN
  {data} \cup (IF Beside(h, "write") THEN {Append(data, Torn)} ELSE {})

\* All of the buffer becomes the object the session was opened for.  When that
\* fails the session stays, with what it has.
StoreChunk(h) ==
  LET k == uploads[handlers[h].id].key IN
  /\ handlers[h].at = "store"
  /\ \/ \E data \in Seen(h) : PutObject(k, data) /\ Moves(h, "drop")
     \/ k[1] \notin buckets /\ Goes(h, Idle) /\ UNCHANGED storeVars
  /\ UNCHANGED <<etagCounter, uploads, tickets, run>>

DropUpload(h) ==
  /\ handlers[h].at = "drop"
  /\ uploads' = [uploads EXCEPT ![handlers[h].id].open = FALSE]
  /\ Goes(h, Idle)
  /\ UNCHANGED <<storeVars, etagCounter, tickets, run>>

-----------------------------------------------------------------------------
(* The process                                                             *)

NoImage == [buckets |-> {}, objects |-> Empty]

\* The process ends, wherever its handlers are, and a new one loads the file.
\* Sessions and the counter are gone; the clients' URIs are not.
Restarts(image) ==
  /\ run < MaxRestarts
  /\ run' = run + 1
  /\ buckets' = Loaded(image).buckets
  /\ objects' = Loaded(image).objects
  /\ etagCounter' = 0
  /\ uploads' = [i \in Ids |-> NoUpload]
  /\ handlers' = [h \in Handlers |-> Idle]
  /\ UNCHANGED tickets

Restart == Restarts(disk) /\ UNCHANGED disk /\ event' = "restart"

\* The process ends inside WriteFile, which had emptied the file: it does not
\* parse and the new process starts with nothing.
TornWrite == Restarts(NoImage) /\ disk' = NoImage /\ event' = "torn"

Init ==
  /\ buckets = {} /\ objects = Empty
  /\ disk = NoImage
  /\ etagCounter = 0
  /\ uploads = [i \in Ids |-> NoUpload]
  /\ handlers = [h \in Handlers |-> Idle]
  /\ tickets = {}
  /\ run = 0 /\ event = "none"

UploadNext(h) ==
  /\ event' = "none"
  /\ \/ HandleUploadRequest(h) \/ RefuseUpload(h)
     \/ HandleWholeUpload(h) \/ HandleResumableInit(h)
     \/ FindUpload(h) \/ WriteChunk(h) \/ StoreChunk(h) \/ DropUpload(h)

Next ==
  \/ \E b \in Buckets : HandleCreateBucket(b) \/ HandleDeleteBucket(b)
  \/ \E k \in Keys : HandleDeleteObject(k)
  \/ \E from, to \in Keys : HandleCopyObject(from, to)
  \/ \E h \in Handlers : UploadNext(h)
  \/ Restart \/ TornWrite

Spec == Init /\ [][Next]_vars

-----------------------------------------------------------------------------
(* Properties                                                              *)

Image == [buckets : SUBSET Buckets, objects : [Keys -> Contents \cup {NoObject}]]

\* The type invariant: whatever a handler does after its look-up, it has a
\* session of this run to do it to.
TypeOK ==
  /\ buckets \in SUBSET Buckets
  /\ objects \in [Keys -> Contents \cup {NoObject}]
  /\ disk \in Image
  /\ etagCounter \in 0..MaxIds
  /\ uploads \in [Ids -> Upload \cup {NoUpload}]
  /\ handlers \in [Handlers -> Handler]
  /\ tickets \subseteq Ticket
  /\ run \in 0..MaxRestarts
  /\ event \in Events
  /\ \A h \in Handlers :
       /\ handlers[h].at = "lookup" => handlers[h].id \in Ids
       /\ handlers[h].at \in {"write", "store", "drop"} =>
            handlers[h].id \in Ids /\ uploads[handlers[h].id] \in Upload

\* An object is in a bucket there is, though an upload looks for its bucket
\* long before it stores the object, and a session outlives its bucket.
ObjectsHaveBuckets ==
  \A k \in Keys : objects[k] # NoObject => k[1] \in buckets

\* Between any two store calls the file holds all there is in memory: a crash
\* there loses no bucket and no object.
CrashLosesNothing == disk = [buckets |-> buckets, objects |-> objects]

\* Two uploads never mix: the bytes in a session's buffer were sent for its
\* object, or by a client that got its URI before a restart, when the same
\* upload ID stood for another session.
UploadsKeepApart ==
  \A i \in Ids : uploads[i] # NoUpload =>
    \A x \in {uploads[i].data[j] : j \in DOMAIN uploads[i].data} \ {Torn} :
      x.key = uploads[i].key \/ x.run < run

\* What clients can read is an object store: the steps of uploads that overlap
\* and of restarts change nothing of it but as it promises.  No object goes but
\* by a deletion, none comes into a bucket that is not there, and a restart
\* brings back every bucket and object.
Promise == INSTANCE ObjectStore WITH contents <- objects

ImplementsObjectStore == Promise!Spec
=============================================================================
