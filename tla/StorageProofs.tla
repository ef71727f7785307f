--------------------------- MODULE StorageProofs ----------------------------
(***************************************************************************)
(* Proofs about Storage, for every value of its constants.                 *)
(***************************************************************************)
EXTENDS Storage, TLAPS

-----------------------------------------------------------------------------
(* Types                                                                   *)

LEMMA IdleType == Idle \in Handler /\ Idle.at = "idle"
<1>1. PICK b \in Buckets, n \in Names : TRUE
  BY StorageAssumption
<1>2. <<b, n>> \in Keys
  BY DEF Keys
<1>3. (CHOOSE k \in Keys : TRUE) \in Keys
  BY <1>2
<1>. QED  BY <1>3, StorageAssumption DEF Idle, Handler, Body

LEMMA EmptyType == Empty \in [Keys -> Contents \cup {NoObject}] /\ NoImage \in Image
BY DEF Empty, NoImage, Image

LEMMA PieceTypes ==
  ASSUME NEW b \in Body, NEW data \in Contents
  PROVE  /\ <<b>> \in Contents
         /\ Append(data, b) \in Contents
         /\ Append(data, Torn) \in Contents
         /\ data # <<>> => \A x \in {b, Torn} : [data EXCEPT ![Len(data)] = x] \in Contents
<1>1. <<b>> \in Contents /\ Append(data, b) \in Contents /\ Append(data, Torn) \in Contents
  BY DEF Contents
<1>2. ASSUME data # <<>>, NEW x \in {b, Torn}
      PROVE  [data EXCEPT ![Len(data)] = x] \in Contents
  <2>1. data \in Seq(Body \cup {Torn}) /\ x \in Body \cup {Torn} /\ Len(data) \in 1..Len(data)
    BY <1>2 DEF Contents
  <2>. QED  BY <2>1 DEF Contents
<1>. QED  BY <1>1, <1>2

\* The part of the types that is about the store.
StoreOK ==
  /\ buckets \in SUBSET Buckets
  /\ objects \in [Keys -> Contents \cup {NoObject}]
  /\ disk \in Image

\* The part that is about the uploads.
HandlersOK ==
  /\ etagCounter \in 0..MaxIds
  /\ uploads \in [Ids -> Upload \cup {NoUpload}]
  /\ handlers \in [Handlers -> Handler]
  /\ tickets \subseteq Ticket
  /\ run \in 0..MaxRestarts
  /\ \A h \in Handlers :
       /\ handlers[h].at = "lookup" => handlers[h].id \in Ids
       /\ handlers[h].at \in {"write", "store", "drop"} =>
            handlers[h].id \in Ids /\ uploads[handlers[h].id] \in Upload

LEMMA TypeParts == TypeOK <=> StoreOK /\ HandlersOK /\ event \in Events
BY DEF TypeOK, StoreOK, HandlersOK

StoreInv == StoreOK /\ ObjectsHaveBuckets /\ CrashLosesNothing

\* What PutObject, with a content of the right kind, makes of the store.
LEMMA PutObjectInv ==
  ASSUME StoreInv, NEW k \in Keys, NEW c \in Contents, PutObject(k, c)
  PROVE  StoreInv'
<1>1. StoreOK'
  BY DEF StoreInv, StoreOK, PutObject, Persist, Image
<1>2. ObjectsHaveBuckets'
  BY DEF StoreInv, StoreOK, PutObject, ObjectsHaveBuckets
<1>3. CrashLosesNothing'
  BY DEF PutObject, Persist, CrashLosesNothing
<1>. QED  BY <1>1, <1>2, <1>3 DEF StoreInv

\* A load of the file gives back what was in memory.
LEMMA LoadedInv ==
  ASSUME StoreInv
  PROVE  Loaded(disk).buckets = buckets /\ Loaded(disk).objects = objects
<1>1. disk.buckets = buckets /\ disk.objects = objects
  BY DEF StoreInv, CrashLosesNothing
<1>2. \A k \in Keys : (IF k[1] \in disk.buckets THEN disk.objects[k] ELSE NoObject) = objects[k]
  BY <1>1 DEF StoreInv, ObjectsHaveBuckets
<1>. QED  BY <1>1, <1>2 DEF Loaded, StoreInv, StoreOK

LEMMA LoadedNone ==
  Loaded(NoImage).buckets = {} /\ Loaded(NoImage).objects = Empty
BY DEF Loaded, NoImage, Empty

-----------------------------------------------------------------------------
(* The store: every step keeps the file and the memory alike               *)

LEMMA StoreStep ==
  ASSUME StoreInv, HandlersOK, [Next]_vars
  PROVE  StoreInv'
<1>1. CASE UNCHANGED vars
  BY <1>1 DEF vars, StoreInv, StoreOK, ObjectsHaveBuckets, CrashLosesNothing
<1>2. CASE UNCHANGED storeVars
  BY <1>2 DEF storeVars, StoreInv, StoreOK, ObjectsHaveBuckets, CrashLosesNothing
<1>3. ASSUME NEW b \in Buckets, HandleCreateBucket(b)
      PROVE  StoreInv'
  <2>1. StoreOK'
    BY <1>3 DEF StoreInv, StoreOK, HandleCreateBucket, NewBucket, Persist, Image, Keys
  <2>2. ObjectsHaveBuckets'
    BY <1>3 DEF StoreInv, ObjectsHaveBuckets, HandleCreateBucket, NewBucket
  <2>. QED  BY <1>3, <2>1, <2>2 DEF StoreInv, CrashLosesNothing, HandleCreateBucket, NewBucket, Persist
<1>4. ASSUME NEW b \in Buckets, HandleDeleteBucket(b)
      PROVE  StoreInv'
  <2>1. StoreOK'
    BY <1>4 DEF StoreInv, StoreOK, HandleDeleteBucket, RemoveBucket, Persist, Image, Keys
  <2>2. ObjectsHaveBuckets'
    BY <1>4 DEF StoreInv, ObjectsHaveBuckets, HandleDeleteBucket, RemoveBucket
  <2>. QED  BY <1>4, <2>1, <2>2 DEF StoreInv, CrashLosesNothing, HandleDeleteBucket, RemoveBucket, Persist
<1>5. ASSUME NEW k \in Keys, HandleDeleteObject(k)
      PROVE  StoreInv'
  <2>1. StoreOK'
    BY <1>5 DEF StoreInv, StoreOK, HandleDeleteObject, RemoveObject, Persist, Image
  <2>2. ObjectsHaveBuckets'
    BY <1>5 DEF StoreInv, StoreOK, ObjectsHaveBuckets, HandleDeleteObject, RemoveObject
  <2>. QED  BY <1>5, <2>1, <2>2 DEF StoreInv, CrashLosesNothing, HandleDeleteObject, RemoveObject, Persist
<1>6. ASSUME NEW from \in Keys, NEW to \in Keys, HandleCopyObject(from, to)
      PROVE  StoreInv'
  <2>1. StoreOK'
    BY <1>6 DEF StoreInv, StoreOK, HandleCopyObject, Duplicate, Persist, Image
  <2>2. ObjectsHaveBuckets'
    BY <1>6 DEF StoreInv, StoreOK, ObjectsHaveBuckets, HandleCopyObject, Duplicate
  <2>. QED  BY <1>6, <2>1, <2>2 DEF StoreInv, CrashLosesNothing, HandleCopyObject, Duplicate, Persist
<1>7. ASSUME NEW h \in Handlers, HandleWholeUpload(h)
      PROVE  StoreInv'
  <2>1. handlers[h].body \in Body /\ handlers[h].body.key \in Keys
    BY DEF HandlersOK, Handler, Body
  <2>2. <<handlers[h].body>> \in Contents
    BY <2>1 DEF Contents
  <2>3. PutObject(handlers[h].body.key, <<handlers[h].body>>) \/ UNCHANGED storeVars
    BY <1>7 DEF HandleWholeUpload
  <2>. QED  BY <1>2, <2>1, <2>2, <2>3, PutObjectInv
<1>8. ASSUME NEW h \in Handlers, StoreChunk(h)
      PROVE  StoreInv'
  <2>1. uploads[handlers[h].id] \in Upload /\ handlers[h].body \in Body
    BY <1>8 DEF StoreChunk, HandlersOK, Handler
  <2>2. uploads[handlers[h].id].key \in Keys /\ uploads[handlers[h].id].data \in Contents
    BY <2>1 DEF Upload
  <2>3. Seen(h) \subseteq Contents
    BY <2>1, <2>2, PieceTypes DEF Seen
  <2>. QED  BY <1>2, <1>8, <2>2, <2>3, PutObjectInv DEF StoreChunk
<1>9. CASE Restart
  BY <1>9, LoadedInv DEF Restart, Restarts, StoreInv, StoreOK, ObjectsHaveBuckets, CrashLosesNothing
<1>10. CASE TornWrite
  <2>1. buckets' = {} /\ objects' = Empty /\ disk' = NoImage
    BY <1>10, LoadedNone DEF TornWrite, Restarts
  <2>2. StoreOK'
    BY <2>1, EmptyType DEF StoreOK
  <2>3. ObjectsHaveBuckets'
    BY <2>1 DEF ObjectsHaveBuckets, Empty
  <2>. QED  BY <2>1, <2>2, <2>3 DEF StoreInv, CrashLosesNothing, NoImage
<1>11. ASSUME NEW h \in Handlers, UploadNext(h)
       PROVE  StoreInv'
  BY <1>2, <1>7, <1>8, <1>11
     DEF UploadNext, HandleUploadRequest, HandleUpload, RefuseUpload, HandleResumableInit,
         FindUpload, WriteChunk, DropUpload
<1>. QED  BY <1>1, <1>3, <1>4, <1>5, <1>6, <1>9, <1>10, <1>11 DEF Next

-----------------------------------------------------------------------------
(* The handlers and the sessions                                           *)

\* A handler that goes on keeps its kind.
LEMMA MovesType ==
  ASSUME HandlersOK, NEW h \in Handlers,
         NEW at \in {"idle", "put", "init", "lookup", "write", "store", "drop"}
  PROVE  [handlers[h] EXCEPT !.at = at] \in Handler
BY DEF HandlersOK, Handler

\* One handler changes its state, and the sessions it and the others work on
\* stay sessions.
LEMMA OneHandler ==
  ASSUME HandlersOK, NEW h \in Handlers, NEW s \in Handler, Goes(h, s),
         uploads' \in [Ids -> Upload \cup {NoUpload}],
         \A i \in Ids : uploads[i] \in Upload => uploads'[i] \in Upload,
         s.at = "lookup" => s.id \in Ids,
         s.at \in {"write", "store", "drop"} => s.id \in Ids /\ uploads'[s.id] \in Upload,
         etagCounter' \in 0..MaxIds, tickets' \subseteq Ticket, run' = run
  PROVE  HandlersOK'
<1>1. handlers' \in [Handlers -> Handler]
  BY DEF HandlersOK, Goes
<1>2. ASSUME NEW g \in Handlers, handlers'[g].at \in {"write", "store", "drop"}
      PROVE  handlers'[g].id \in Ids /\ uploads'[handlers'[g].id] \in Upload
  <2>1. CASE g = h
    BY <1>2, <2>1 DEF HandlersOK, Goes
  <2>2. CASE g # h
    BY <1>2, <2>2 DEF HandlersOK, Goes
  <2>. QED  BY <2>1, <2>2
<1>3. ASSUME NEW g \in Handlers, handlers'[g].at = "lookup"
      PROVE  handlers'[g].id \in Ids
  BY <1>3 DEF HandlersOK, Goes
<1>. QED  BY <1>1, <1>2, <1>3 DEF HandlersOK

LEMMA HandlersStep ==
  ASSUME HandlersOK, [Next]_vars
  PROVE  HandlersOK'
<1>a. MaxIds \in Nat /\ MaxRestarts \in Nat
  BY StorageAssumption
<1>1. CASE UNCHANGED <<etagCounter, handlerVars>>
  BY <1>1 DEF handlerVars, HandlersOK
<1>2. CASE UNCHANGED vars
  BY <1>1, <1>2 DEF vars, handlerVars
<1>3. ASSUME NEW b \in Buckets, HandleCreateBucket(b)
      PROVE  HandlersOK'
  BY <1>a, <1>3 DEF HandleCreateBucket, NewBucket, handlerVars, HandlersOK
<1>4. ASSUME NEW h \in Handlers, HandleUploadRequest(h)
      PROVE  HandlersOK'
  <2>1. ASSUME NEW at \in {"put", "init", "lookup"}, NEW i \in 0..MaxIds, NEW body \in Body,
               at = "lookup" => i \in Ids, HandleUpload(h, at, i, body)
        PROVE  HandlersOK'
    <3>1. [at |-> at, id |-> i, body |-> body] \in Handler
      BY DEF Handler
    <3>2. Goes(h, [at |-> at, id |-> i, body |-> body]) /\ UNCHANGED <<etagCounter, uploads, tickets, run>>
      BY <2>1 DEF HandleUpload
    <3>. QED  BY <2>1, <3>1, <3>2, OneHandler DEF HandlersOK
  <2>2. \A k \in Keys : [key |-> k, run |-> run] \in Body
    BY DEF Body, HandlersOK
  <2>3. \A t \in tickets : t.id \in 0..MaxIds /\ t.id \in Ids /\ [key |-> t.key, run |-> t.run] \in Body
    BY <1>a DEF Body, HandlersOK, Ticket, Ids
  <2>4. CASE \E k \in Keys, at \in {"put", "init"} : HandleUpload(h, at, 0, [key |-> k, run |-> run])
    <3>1. PICK k \in Keys, at \in {"put", "init"} : HandleUpload(h, at, 0, [key |-> k, run |-> run])
      BY <2>4
    <3>2. at # "lookup" /\ 0 \in 0..MaxIds
      BY <1>a
    <3>. QED  BY <2>1, <2>2, <3>1, <3>2
  <2>. QED  BY <1>4, <2>1, <2>3, <2>4 DEF HandleUploadRequest
<1>5. ASSUME NEW h \in Handlers, HandleWholeUpload(h)
      PROVE  HandlersOK'
  <2>1. Goes(h, Idle) /\ UNCHANGED <<etagCounter, uploads, tickets, run>>
    BY <1>5 DEF HandleWholeUpload
  <2>. QED  BY <2>1, IdleType, OneHandler DEF HandlersOK
<1>6. ASSUME NEW h \in Handlers, HandleResumableInit(h)
      PROVE  HandlersOK'
  <2>1. Goes(h, Idle) /\ UNCHANGED run /\ NewId \in Ids /\ etagCounter' \in 0..MaxIds
    BY <1>6, <1>a DEF HandleResumableInit, HandlersOK, NewId, Ids
  <2>2. handlers[h].body.key \in Keys
    BY DEF HandlersOK, Handler, Body
  <2>3. [key |-> handlers[h].body.key, data |-> <<>>, open |-> TRUE] \in Upload
    BY <2>2 DEF Upload, Contents
  <2>4. uploads' \in [Ids -> Upload \cup {NoUpload}]
    BY <1>6, <2>3 DEF HandleResumableInit, HandlersOK
  <2>5. \A i \in Ids : uploads[i] \in Upload => uploads'[i] \in Upload
    BY <1>6, <2>3 DEF HandleResumableInit, HandlersOK
  <2>6. tickets' \subseteq Ticket
    BY <1>6, <2>1, <2>2 DEF HandleResumableInit, HandlersOK, Ticket
  <2>. QED  BY <2>1, <2>4, <2>5, <2>6, IdleType, OneHandler
<1>7. ASSUME NEW h \in Handlers, FindUpload(h)
      PROVE  HandlersOK'
  <2>1. UNCHANGED <<etagCounter, uploads, tickets, run>>
    BY <1>7 DEF FindUpload
  <2>2. CASE Goes(h, Idle)
    BY <2>1, <2>2, IdleType, OneHandler DEF HandlersOK
  <2>3. CASE Moves(h, "write") /\ uploads[handlers[h].id] # NoUpload /\ uploads[handlers[h].id].open
             /\ handlers[h].id \in Ids
    <3>1. [handlers[h] EXCEPT !.at = "write"].id = handlers[h].id
      BY DEF HandlersOK, Handler
    <3>2. uploads[handlers[h].id] \in Upload
      BY <2>3 DEF HandlersOK
    <3>. QED  BY <2>1, <2>3, <3>1, <3>2, MovesType, OneHandler DEF HandlersOK, Moves
  <2>4. handlers[h].id \in Ids
    BY <1>7 DEF FindUpload, HandlersOK
  <2>. QED  BY <1>7, <2>2, <2>3, <2>4 DEF FindUpload
<1>8. ASSUME NEW h \in Handlers, WriteChunk(h)
      PROVE  HandlersOK'
  <2>1. handlers[h].id \in Ids /\ uploads[handlers[h].id] \in Upload /\ handlers[h].body \in Body
    BY <1>8 DEF WriteChunk, HandlersOK, Handler
  <2>2. Written(h) \subseteq Contents
    <3>1. uploads[handlers[h].id].data \in Contents
      BY <2>1 DEF Upload
    <3>2. Append(uploads[handlers[h].id].data, handlers[h].body) \in Contents
      BY <2>1, <3>1, PieceTypes
    <3>3. uploads[handlers[h].id].data # <<>> =>
            \A x \in {handlers[h].body, Torn} :
              [uploads[handlers[h].id].data EXCEPT ![Len(uploads[handlers[h].id].data)] = x] \in Contents
      BY <2>1, <3>1, PieceTypes
    <3>. QED  BY <3>2, <3>3 DEF Written
  <2>3. PICK data \in Contents : uploads' = [uploads EXCEPT ![handlers[h].id].data = data]
    BY <1>8, <2>2 DEF WriteChunk
  <2>4. uploads' \in [Ids -> Upload \cup {NoUpload}] /\ \A i \in Ids : uploads[i] \in Upload => uploads'[i] \in Upload
    BY <2>1, <2>3 DEF HandlersOK, Upload
  <2>5. [handlers[h] EXCEPT !.at = "store"].id = handlers[h].id
    BY DEF HandlersOK, Handler
  <2>. QED  BY <1>8, <2>1, <2>4, <2>5, MovesType, OneHandler DEF HandlersOK, WriteChunk, Moves
<1>9. ASSUME NEW h \in Handlers, StoreChunk(h)
      PROVE  HandlersOK'
  <2>1. UNCHANGED <<etagCounter, uploads, tickets, run>>
    BY <1>9 DEF StoreChunk
  <2>2. CASE Goes(h, Idle)
    BY <2>1, <2>2, IdleType, OneHandler DEF HandlersOK
  <2>3. CASE Moves(h, "drop")
    <3>1. [handlers[h] EXCEPT !.at = "drop"].id = handlers[h].id
      BY DEF HandlersOK, Handler
    <3>2. handlers[h].id \in Ids /\ uploads[handlers[h].id] \in Upload
      BY <1>9 DEF StoreChunk, HandlersOK
    <3>. QED  BY <2>1, <2>3, <3>1, <3>2, MovesType, OneHandler DEF HandlersOK, Moves
  <2>. QED  BY <1>9, <2>2, <2>3 DEF StoreChunk
<1>10. ASSUME NEW h \in Handlers, DropUpload(h)
       PROVE  HandlersOK'
  <2>1. Goes(h, Idle) /\ UNCHANGED <<etagCounter, tickets, run>>
    BY <1>10 DEF DropUpload
  <2>2. uploads' \in [Ids -> Upload \cup {NoUpload}] /\ \A i \in Ids : uploads[i] \in Upload => uploads'[i] \in Upload
    BY <1>10 DEF DropUpload, HandlersOK, Upload
  <2>. QED  BY <2>1, <2>2, IdleType, OneHandler DEF HandlersOK
<1>11. ASSUME NEW image, Restarts(image)
       PROVE  HandlersOK'
  BY <1>11, <1>a, IdleType DEF Restarts, HandlersOK
<1>12. ASSUME NEW h \in Handlers, RefuseUpload(h)
       PROVE  HandlersOK'
  <2>1. Goes(h, Idle) /\ UNCHANGED <<etagCounter, uploads, tickets, run>>
    BY <1>12 DEF RefuseUpload
  <2>. QED  BY <2>1, IdleType, OneHandler DEF HandlersOK
<1>13. ASSUME NEW h \in Handlers, UploadNext(h)
       PROVE  HandlersOK'
  BY <1>12, <1>4, <1>5, <1>6, <1>7, <1>8, <1>9, <1>10, <1>13 DEF UploadNext
<1>14. CASE \/ \E b \in Buckets : HandleDeleteBucket(b)
            \/ \E k \in Keys : HandleDeleteObject(k)
            \/ \E from, to \in Keys : HandleCopyObject(from, to)
  BY <1>1, <1>14 DEF HandleDeleteBucket, HandleDeleteObject, HandleCopyObject
<1>. QED  BY <1>2, <1>3, <1>11, <1>13, <1>14 DEF Next, Restart, TornWrite

-----------------------------------------------------------------------------
(* What is sent to a session                                               *)

\* A ticket of this run names a session of this run and its object; a handler
\* that goes to a session has a ticket for it.
TicketsNameUploads ==
  /\ \A t \in tickets :
       /\ t.run <= run
       /\ t.run = run => /\ t.id <= etagCounter
                         /\ uploads[t.id] # NoUpload
                         /\ uploads[t.id].key = t.key
  /\ \A h \in Handlers : handlers[h].at \in {"lookup", "write", "store", "drop"} =>
       [id |-> handlers[h].id, key |-> handlers[h].body.key, run |-> handlers[h].body.run] \in tickets

ApartInv == HandlersOK /\ TicketsNameUploads /\ UploadsKeepApart

\* The elements of a buffer after a write.
LEMMA PieceElements ==
  ASSUME NEW data \in Contents, NEW b \in Body
  PROVE  /\ \A j \in DOMAIN Append(data, b) : Append(data, b)[j] \in {data[i] : i \in DOMAIN data} \cup {b}
         /\ \A x : \A j \in DOMAIN [data EXCEPT ![Len(data)] = x] :
              [data EXCEPT ![Len(data)] = x][j] \in {data[i] : i \in DOMAIN data} \cup {x}
<1>1. \A j \in DOMAIN Append(data, b) : Append(data, b)[j] \in {data[i] : i \in DOMAIN data} \cup {b}
  <2>1. data \in Seq(Body \cup {Torn}) /\ DOMAIN data = 1..Len(data) /\ Len(data) \in Nat
    BY DEF Contents
  <2>2. DOMAIN Append(data, b) = 1..(Len(data) + 1)
    BY <2>1
  <2>3. TAKE j \in DOMAIN Append(data, b)
  <2>4. CASE j \in 1..Len(data)
    BY <2>1, <2>4
  <2>5. CASE j = Len(data) + 1
    BY <2>1, <2>5
  <2>. QED  BY <2>1, <2>2, <2>4, <2>5
<1>. QED  BY <1>1

\* A session and its object do not change but for what a write appends.
LEMMA SameUploads ==
  ASSUME ApartInv, HandlersOK', UNCHANGED <<tickets, run>>, etagCounter' >= etagCounter,
         \A i \in Ids : (uploads'[i] # NoUpload) <=> (uploads[i] # NoUpload),
         \A i \in Ids : uploads[i] # NoUpload =>
           uploads'[i].key = uploads[i].key /\ uploads'[i].data = uploads[i].data,
         \A h \in Handlers : handlers'[h].at \in {"lookup", "write", "store", "drop"} =>
           [id |-> handlers'[h].id, key |-> handlers'[h].body.key, run |-> handlers'[h].body.run] \in tickets
  PROVE  ApartInv'
<1>1. TicketsNameUploads'
  BY DEF ApartInv, TicketsNameUploads, HandlersOK, Ticket, Ids
<1>2. UploadsKeepApart'
  BY DEF ApartInv, UploadsKeepApart
<1>. QED  BY <1>1, <1>2 DEF ApartInv

\* A handler that moves on, or ends, leaves the others with their tickets.
LEMMA SameTickets ==
  ASSUME ApartInv, NEW h \in Handlers, NEW s \in Handler, Goes(h, s),
         s.at \in {"lookup", "write", "store", "drop"} =>
           [id |-> s.id, key |-> s.body.key, run |-> s.body.run] \in tickets
  PROVE  \A g \in Handlers : handlers'[g].at \in {"lookup", "write", "store", "drop"} =>
           [id |-> handlers'[g].id, key |-> handlers'[g].body.key, run |-> handlers'[g].body.run] \in tickets
<1>1. TAKE g \in Handlers
<1>2. CASE g = h
  BY <1>2 DEF Goes, ApartInv, HandlersOK
<1>3. CASE g # h
  BY <1>3 DEF Goes, ApartInv, HandlersOK, TicketsNameUploads
<1>. QED  BY <1>2, <1>3

LEMMA ApartStep ==
  ASSUME ApartInv, [Next]_vars
  PROVE  ApartInv'
<1>a. HandlersOK /\ HandlersOK' /\ MaxIds \in Nat /\ MaxRestarts \in Nat /\ etagCounter \in Nat /\ run \in Nat
  BY HandlersStep, StorageAssumption DEF ApartInv, HandlersOK
<1>1. CASE UNCHANGED <<uploads, handlers, tickets, run>> /\ etagCounter' >= etagCounter
  BY <1>1, <1>a, SameUploads DEF ApartInv, TicketsNameUploads
<1>2. CASE UNCHANGED vars
  BY <1>1, <1>2, <1>a DEF vars
<1>3. CASE \/ \E b \in Buckets : HandleCreateBucket(b) \/ HandleDeleteBucket(b)
           \/ \E k \in Keys : HandleDeleteObject(k)
           \/ \E from, to \in Keys : HandleCopyObject(from, to)
  BY <1>1, <1>3, <1>a DEF HandleCreateBucket, NewBucket, HandleDeleteBucket, HandleDeleteObject,
                    HandleCopyObject, handlerVars
<1>4. ASSUME NEW h \in Handlers, NEW s \in Handler, Goes(h, s),
             UNCHANGED <<etagCounter, uploads, tickets, run>>,
             s.at \in {"lookup", "write", "store", "drop"} =>
               [id |-> s.id, key |-> s.body.key, run |-> s.body.run] \in tickets
      PROVE  ApartInv'
  BY <1>4, <1>a, SameTickets, SameUploads
<1>5. ASSUME NEW h \in Handlers,
             NEW at \in {"write", "store", "drop"}, Moves(h, at), handlers[h].at \in {"lookup", "write", "store"}
      PROVE  /\ [handlers[h] EXCEPT !.at = at] \in Handler
             /\ Goes(h, [handlers[h] EXCEPT !.at = at])
             /\ [id |-> [handlers[h] EXCEPT !.at = at].id, key |-> [handlers[h] EXCEPT !.at = at].body.key,
                 run |-> [handlers[h] EXCEPT !.at = at].body.run] \in tickets
  <2>1. [handlers[h] EXCEPT !.at = at].id = handlers[h].id /\ [handlers[h] EXCEPT !.at = at].body = handlers[h].body
    BY <1>a DEF HandlersOK, Handler
  <2>. QED  BY <1>a, <1>5, <2>1, MovesType DEF Moves, ApartInv, TicketsNameUploads
<1>6. ASSUME NEW h \in Handlers, HandleUploadRequest(h)
      PROVE  ApartInv'
  <2>1. CASE \E k \in Keys, at \in {"put", "init"} : HandleUpload(h, at, 0, [key |-> k, run |-> run])
    <3>1. PICK k \in Keys, at \in {"put", "init"} : HandleUpload(h, at, 0, [key |-> k, run |-> run])
      BY <2>1
    <3>2. [at |-> at, id |-> 0, body |-> [key |-> k, run |-> run]] \in Handler
      BY <1>a DEF Handler, Body, HandlersOK
    <3>. QED  BY <1>4, <3>1, <3>2 DEF HandleUpload
  <2>2. ASSUME NEW t \in tickets, HandleUpload(h, "lookup", t.id, [key |-> t.key, run |-> t.run])
        PROVE  ApartInv'
    <3>1. t \in Ticket /\ t = [id |-> t.id, key |-> t.key, run |-> t.run]
      BY <1>a DEF HandlersOK, Ticket
    <3>2. [at |-> "lookup", id |-> t.id, body |-> [key |-> t.key, run |-> t.run]] \in Handler
      BY <3>1, <1>a DEF Handler, Body, Ticket, Ids
    <3>. QED  BY <1>4, <2>2, <3>1, <3>2 DEF HandleUpload
  <2>. QED  BY <1>6, <2>1, <2>2 DEF HandleUploadRequest
<1>7. ASSUME NEW h \in Handlers, HandleWholeUpload(h)
      PROVE  ApartInv'
  BY <1>4, <1>7, IdleType DEF HandleWholeUpload
<1>8. ASSUME NEW h \in Handlers, HandleResumableInit(h)
      PROVE  ApartInv'
  <2>. DEFINE k == handlers[h].body.key
  <2>1. k \in Keys /\ NewId \in Ids /\ etagCounter' = etagCounter + 1 /\ NewId = etagCounter + 1
    BY <1>8, <1>a DEF HandleResumableInit, HandlersOK, Handler, Body, Ids, NewId
  <2>2. /\ uploads'[NewId] = [key |-> k, data |-> <<>>, open |-> TRUE]
        /\ \A i \in Ids \ {NewId} : uploads'[i] = uploads[i]
    BY <1>8, <1>a, <2>1 DEF HandleResumableInit, HandlersOK
  <2>3. uploads'[NewId] \in Upload /\ uploads'[NewId] # NoUpload
    <3>1. [key |-> k, data |-> <<>>, open |-> TRUE] \in Upload
      BY <2>1 DEF Upload, Contents
    <3>. QED  BY <2>2, <3>1, NoUploadAssumption
  <2>4. \A t \in tickets : t.run = run => t.id # NewId /\ t.id \in Ids
    BY <1>a, <2>1 DEF ApartInv, TicketsNameUploads, HandlersOK, Ticket, Ids
  <2>5. \A t \in tickets' :
          /\ t.run <= run'
          /\ t.run = run' => t.id <= etagCounter' /\ uploads'[t.id] # NoUpload /\ uploads'[t.id].key = t.key
    <3>1. TAKE t \in tickets'
    <3>2. CASE t \in tickets
      <4>1. run' = run /\ t \in Ticket
        BY <1>8, <1>a, <3>2 DEF HandleResumableInit, HandlersOK
      <4>2. t.run <= run
        BY <3>2 DEF ApartInv, TicketsNameUploads
      <4>3. CASE t.run = run
        <5>1. uploads'[t.id] = uploads[t.id]
          BY <2>2, <2>4, <3>2, <4>3
        <5>2. t.id <= etagCounter /\ uploads[t.id] # NoUpload /\ uploads[t.id].key = t.key
          BY <3>2, <4>3 DEF ApartInv, TicketsNameUploads
        <5>3. t.id \in Nat
          BY <4>1 DEF Ticket, Ids
        <5>. QED  BY <1>a, <2>1, <4>1, <4>2, <5>1, <5>2, <5>3
      <4>. QED  BY <4>1, <4>2, <4>3
    <3>3. CASE t = [id |-> NewId, key |-> k, run |-> run]
      BY <1>8, <1>a, <2>1, <2>2, <2>3, <3>3 DEF HandleResumableInit
    <3>. QED  BY <1>8, <3>2, <3>3 DEF HandleResumableInit
  <2>6. \A g \in Handlers : handlers'[g].at \in {"lookup", "write", "store", "drop"} =>
          [id |-> handlers'[g].id, key |-> handlers'[g].body.key, run |-> handlers'[g].body.run] \in tickets
    BY <1>8, IdleType, SameTickets DEF HandleResumableInit
  <2>7. TicketsNameUploads'
    BY <1>8, <2>5, <2>6 DEF TicketsNameUploads, HandleResumableInit
  <2>8. UploadsKeepApart'
    BY <1>8, <2>2 DEF ApartInv, UploadsKeepApart, HandleResumableInit
  <2>. QED  BY <1>a, <2>7, <2>8 DEF ApartInv
<1>9. ASSUME NEW h \in Handlers, FindUpload(h)
      PROVE  ApartInv'
  <2>1. UNCHANGED <<etagCounter, uploads, tickets, run>> /\ handlers[h].at = "lookup"
    BY <1>9 DEF FindUpload
  <2>. QED  BY <1>4, <1>5, <1>9, <2>1, IdleType DEF FindUpload
<1>10. ASSUME NEW h \in Handlers, WriteChunk(h)
       PROVE  ApartInv'
  <2>. DEFINE u == handlers[h].id
              b == handlers[h].body
  <2>1. u \in Ids /\ uploads[u] \in Upload /\ b \in Body /\ uploads[u] # NoUpload
    BY <1>10, <1>a, NoUploadAssumption DEF WriteChunk, HandlersOK, Handler
  <2>2. uploads[u].data \in Contents
    BY <2>1 DEF Upload
  <2>3. PICK data \in Written(h) : uploads' = [uploads EXCEPT ![u].data = data]
    BY <1>10 DEF WriteChunk
  <2>4. \A j \in DOMAIN data : data[j] \in {uploads[u].data[i] : i \in DOMAIN uploads[u].data} \cup {b, Torn}
    <3>. DEFINE old == uploads[u].data
    <3>1. \/ data = Append(old, b)
          \/ data = [old EXCEPT ![Len(old)] = b]
          \/ data = [old EXCEPT ![Len(old)] = Torn]
      BY <2>3 DEF Written
    <3>. HIDE DEF old
    <3>2. old \in Contents
      BY <2>2 DEF old
    <3>3. \A j \in DOMAIN data : data[j] \in {old[i] : i \in DOMAIN old} \cup {b, Torn}
      BY <2>1, <3>1, <3>2, PieceElements
    <3>. QED  BY <3>3 DEF old
  <2>5. b.key = uploads[u].key \/ b.run < run
    <3>1. [id |-> u, key |-> b.key, run |-> b.run] \in tickets
      BY <1>10 DEF WriteChunk, ApartInv, TicketsNameUploads
    <3>2. b.run <= run /\ (b.run = run => uploads[u].key = b.key)
      BY <3>1 DEF ApartInv, TicketsNameUploads
    <3>3. b.run \in Nat
      BY <2>1 DEF Body
    <3>. QED  BY <1>a, <3>2, <3>3
  <2>6. /\ uploads'[u].data = data /\ uploads'[u].key = uploads[u].key /\ uploads'[u] # NoUpload
        /\ \A i \in Ids \ {u} : uploads'[i] = uploads[i]
    <3>1. uploads'[u] = [uploads[u] EXCEPT !.data = data] /\ \A i \in Ids \ {u} : uploads'[i] = uploads[i]
      BY <1>a, <2>1, <2>3 DEF HandlersOK
    <3>2. data \in Contents
      BY <2>1, <2>2, PieceTypes DEF Written
    <3>3. [uploads[u] EXCEPT !.data = data] \in Upload
      BY <2>1, <3>2 DEF Upload
    <3>. QED  BY <2>1, <3>1, <3>3, NoUploadAssumption DEF Upload
  <2>7. UploadsKeepApart'
    <3>1. SUFFICES ASSUME NEW i \in Ids, uploads'[i] # NoUpload, NEW j \in DOMAIN uploads'[i].data,
                          uploads'[i].data[j] # Torn
                   PROVE  uploads'[i].data[j].key = uploads'[i].key \/ uploads'[i].data[j].run < run'
      BY DEF UploadsKeepApart
    <3>2. run' = run
      BY <1>10 DEF WriteChunk
    <3>3. CASE i # u
      BY <2>6, <3>1, <3>2, <3>3 DEF ApartInv, UploadsKeepApart
    <3>4. CASE i = u
      <4>1. uploads'[u].data[j] = b \/ uploads'[u].data[j] \in {uploads[u].data[l] : l \in DOMAIN uploads[u].data}
        BY <2>4, <2>6, <3>1, <3>4
      <4>2. CASE uploads'[u].data[j] = b
        BY <2>5, <2>6, <3>2, <3>4, <4>2
      <4>3. CASE uploads'[u].data[j] \in {uploads[u].data[l] : l \in DOMAIN uploads[u].data}
        BY <2>1, <2>6, <3>1, <3>2, <3>4, <4>3 DEF ApartInv, UploadsKeepApart
      <4>. QED  BY <4>1, <4>2, <4>3
    <3>. QED  BY <3>3, <3>4
  <2>8. \A g \in Handlers : handlers'[g].at \in {"lookup", "write", "store", "drop"} =>
          [id |-> handlers'[g].id, key |-> handlers'[g].body.key, run |-> handlers'[g].body.run] \in tickets
    <3>1. Moves(h, "store") /\ handlers[h].at = "write"
      BY <1>10 DEF WriteChunk
    <3>. QED  BY <1>5, <3>1, SameTickets
  <2>9. TicketsNameUploads'
    <3>1. UNCHANGED <<etagCounter, tickets, run>>
      BY <1>10 DEF WriteChunk
    <3>2. \A i \in Ids : uploads'[i].key = uploads[i].key /\ (uploads[i] # NoUpload => uploads'[i] # NoUpload)
      BY <2>6
    <3>3. \A t \in tickets : t.id \in Ids
      BY <1>a DEF HandlersOK, Ticket
    <3>. QED  BY <2>8, <3>1, <3>2, <3>3 DEF ApartInv, TicketsNameUploads
  <2>. QED  BY <1>a, <2>7, <2>9 DEF ApartInv
<1>11. ASSUME NEW h \in Handlers, StoreChunk(h)
       PROVE  ApartInv'
  <2>1. UNCHANGED <<etagCounter, uploads, tickets, run>> /\ handlers[h].at = "store"
    BY <1>11 DEF StoreChunk
  <2>. QED  BY <1>4, <1>5, <1>11, <2>1, IdleType DEF StoreChunk
<1>12. ASSUME NEW h \in Handlers, DropUpload(h)
       PROVE  ApartInv'
  <2>. DEFINE u == handlers[h].id
  <2>1. u \in Ids /\ uploads[u] \in Upload /\ uploads[u] # NoUpload
    BY <1>12, <1>a, NoUploadAssumption DEF DropUpload, HandlersOK
  <2>2. /\ uploads'[u] = [uploads[u] EXCEPT !.open = FALSE]
        /\ \A i \in Ids \ {u} : uploads'[i] = uploads[i]
    BY <1>12, <1>a, <2>1 DEF DropUpload, HandlersOK
  <2>3. uploads'[u] \in Upload /\ uploads'[u].key = uploads[u].key /\ uploads'[u].data = uploads[u].data
    BY <2>1, <2>2 DEF Upload
  <2>4. uploads'[u] # NoUpload
    BY <2>3, NoUploadAssumption
  <2>5. Goes(h, Idle) /\ UNCHANGED <<etagCounter, tickets, run>>
    BY <1>12 DEF DropUpload
  <2>6. \A i \in Ids : uploads'[i].key = uploads[i].key /\ uploads'[i].data = uploads[i].data
    BY <2>1, <2>2, <2>3
  <2>7. \A g \in Handlers : handlers'[g].at \in {"lookup", "write", "store", "drop"} =>
          [id |-> handlers'[g].id, key |-> handlers'[g].body.key, run |-> handlers'[g].body.run] \in tickets
    BY <2>5, IdleType, SameTickets
  <2>8. etagCounter' >= etagCounter
    BY <1>a, <2>5
  <2>9. \A i \in Ids : (uploads'[i] # NoUpload) <=> (uploads[i] # NoUpload)
    BY <2>1, <2>2, <2>4
  <2>10. UNCHANGED <<tickets, run>> /\ HandlersOK' /\ ApartInv
    BY <1>a, <2>5
  <2>. QED  BY <2>6, <2>7, <2>8, <2>9, <2>10, SameUploads
<1>13. ASSUME NEW image, Restarts(image)
       PROVE  ApartInv'
  <2>1. \A t \in tickets : t.run < run'
    BY <1>13, <1>a DEF Restarts, ApartInv, TicketsNameUploads, HandlersOK, Ticket
  <2>2. \A t \in tickets : t.run \in Nat
    BY <1>a DEF HandlersOK, Ticket
  <2>. QED  BY <1>13, <1>a, <2>1, <2>2, IdleType
            DEF Restarts, ApartInv, TicketsNameUploads, UploadsKeepApart
<1>14. ASSUME NEW h \in Handlers, RefuseUpload(h)
       PROVE  ApartInv'
  BY <1>4, <1>14, IdleType DEF RefuseUpload
<1>15. ASSUME NEW h \in Handlers, UploadNext(h)
       PROVE  ApartInv'
  BY <1>14, <1>6, <1>7, <1>8, <1>9, <1>10, <1>11, <1>12, <1>15 DEF UploadNext
<1>. QED  BY <1>2, <1>3, <1>13, <1>15 DEF Next, Restart, TornWrite

-----------------------------------------------------------------------------
(* The theorems                                                            *)

\* The invariant: the four the run checks, the types of both halves, and that
\* what a client or a handler knows of a session is so.
Inv == StoreInv /\ ApartInv /\ event \in Events

LEMMA InitInv ==
  ASSUME Init
  PROVE  Inv
<1>1. StoreInv
  BY EmptyType DEF Init, StoreInv, StoreOK, ObjectsHaveBuckets, CrashLosesNothing, Empty, NoImage
<1>2. HandlersOK
  BY IdleType, StorageAssumption DEF Init, HandlersOK
<1>3. TicketsNameUploads /\ UploadsKeepApart
  BY IdleType DEF Init, TicketsNameUploads, UploadsKeepApart
<1>4. event \in Events
  BY DEF Init, Events
<1>. QED  BY <1>1, <1>2, <1>3, <1>4 DEF Inv, ApartInv

\* What a step is told is an event.
LEMMA EventStep ==
  ASSUME event \in Events, [Next]_vars
  PROVE  event' \in Events
BY DEF Events, vars, Next, HandleCreateBucket, HandleDeleteBucket, HandleDeleteObject,
       HandleCopyObject, UploadNext, Restart, TornWrite

LEMMA StepInv ==
  ASSUME Inv, [Next]_vars
  PROVE  Inv'
BY StoreStep, ApartStep, EventStep DEF Inv, ApartInv

THEOREM StorageInvariant == Spec => []Inv
BY InitInv, StepInv, PTL DEF Spec

\* Every variable keeps its type, and a handler past its look-up has a session
\* of this run: resumables, as handleResumableChunk uses it.
THEOREM StorageTypeCorrect == Spec => []TypeOK
<1>1. Inv => TypeOK
  BY TypeParts DEF Inv, StoreInv, ApartInv
<1>. QED  BY <1>1, StorageInvariant, PTL

\* No object is ever in a bucket that is not there: PutObject looks for the
\* bucket again under the lock it stores under.
THEOREM NoObjectWithoutBucket == Spec => []ObjectsHaveBuckets
<1>1. Inv => ObjectsHaveBuckets
  BY DEF Inv, StoreInv
<1>. QED  BY <1>1, StorageInvariant, PTL

\* Every store method that changes the maps writes them out before it returns.
THEOREM FileIsCurrent == Spec => []CrashLosesNothing
<1>1. Inv => CrashLosesNothing
  BY DEF Inv, StoreInv
<1>. QED  BY <1>1, StorageInvariant, PTL

\* However resumable uploads overlap, no session takes a byte that was meant
\* for another session of the same run.
THEOREM SessionsKeepApart == Spec => []UploadsKeepApart
<1>1. Inv => UploadsKeepApart
  BY DEF Inv, ApartInv
<1>. QED  BY <1>1, StorageInvariant, PTL

-----------------------------------------------------------------------------
(* The refinement: what clients can read is an object store                *)

LEMMA KeysAgree == Promise!Keys = Keys
BY DEF Promise!Keys, Keys

\* PutObject is an Upload.
LEMMA PutIsUpload ==
  ASSUME StoreInv, NEW k \in Keys, NEW c \in Contents, PutObject(k, c), event' = "none"
  PROVE  Promise!Upload(k)
<1>1. objects' = [objects EXCEPT ![k] = c] /\ buckets' = buckets /\ k[1] \in buckets
  BY DEF PutObject
<1>2. objects'[k] = c
  BY <1>1 DEF StoreInv, StoreOK
<1>. QED  BY <1>1, <1>2 DEF Promise!Upload

\* A step of a handler that leaves the store alone is work.
LEMMA QuietIsWork ==
  ASSUME UNCHANGED storeVars, event' = "none"
  PROVE  Promise!Work
BY DEF storeVars, Promise!Work

LEMMA StorageStepRefines ==
  ASSUME Inv, Inv', [Next]_vars
  PROVE  [Promise!Next]_(Promise!vars)
<1>a. StoreInv /\ StoreInv' /\ HandlersOK /\ objects \in [Keys -> Contents \cup {NoObject}]
  BY DEF Inv, ApartInv, StoreInv, StoreOK
<1>1. CASE UNCHANGED vars
  BY <1>1 DEF vars, Promise!vars
<1>2. ASSUME NEW b \in Buckets, HandleCreateBucket(b)
      PROVE  Promise!CreateBucket(b)
  <2>1. \A k \in Keys : k[1] = b => objects[k] = NoObject
    BY <1>a, <1>2 DEF HandleCreateBucket, NewBucket, StoreInv, ObjectsHaveBuckets
  <2>2. objects' = objects
    BY <1>2, <1>a, <2>1 DEF HandleCreateBucket, NewBucket
  <2>. QED  BY <1>2, <2>2 DEF HandleCreateBucket, NewBucket, Promise!CreateBucket
<1>3. ASSUME NEW b \in Buckets, HandleDeleteBucket(b)
      PROVE  Promise!DeleteBucket(b)
  <2>1. \A k \in Keys : k[1] = b => objects[k] = NoObject
    BY <1>3 DEF HandleDeleteBucket, RemoveBucket, Keys
  <2>2. objects' = objects
    BY <1>3, <1>a, <2>1 DEF HandleDeleteBucket, RemoveBucket
  <2>. QED  BY <1>3, <2>2 DEF HandleDeleteBucket, RemoveBucket, Promise!DeleteBucket
<1>4. ASSUME NEW k \in Keys, HandleDeleteObject(k)
      PROVE  Promise!Delete(k)
  BY <1>4 DEF HandleDeleteObject, RemoveObject, Promise!Delete
<1>5. ASSUME NEW from \in Keys, NEW to \in Keys, HandleCopyObject(from, to)
      PROVE  Promise!Copy(from, to)
  BY <1>5 DEF HandleCopyObject, Duplicate, Promise!Copy
<1>6. ASSUME NEW h \in Handlers, HandleWholeUpload(h), event' = "none"
      PROVE  Promise!Work \/ \E k \in Keys : Promise!Upload(k)
  <2>1. handlers[h].body \in Body /\ handlers[h].body.key \in Keys
    BY <1>a DEF HandlersOK, Handler, Body
  <2>2. <<handlers[h].body>> \in Contents
    BY <2>1 DEF Contents
  <2>3. CASE PutObject(handlers[h].body.key, <<handlers[h].body>>)
    BY <1>a, <1>6, <2>1, <2>2, <2>3, PutIsUpload
  <2>4. CASE UNCHANGED storeVars
    BY <1>6, <2>4, QuietIsWork
  <2>. QED  BY <1>6, <2>3, <2>4 DEF HandleWholeUpload
<1>7. ASSUME NEW h \in Handlers, StoreChunk(h), event' = "none"
      PROVE  Promise!Work \/ \E k \in Keys : Promise!Upload(k)
  <2>1. uploads[handlers[h].id] \in Upload /\ handlers[h].body \in Body
    BY <1>a, <1>7 DEF StoreChunk, HandlersOK, Handler
  <2>2. uploads[handlers[h].id].key \in Keys /\ uploads[handlers[h].id].data \in Contents
    BY <2>1 DEF Upload
  <2>3. Seen(h) \subseteq Contents
    BY <2>1, <2>2, PieceTypes DEF Seen
  <2>4. CASE UNCHANGED storeVars
    BY <1>7, <2>4, QuietIsWork
  <2>. QED  BY <1>a, <1>7, <2>2, <2>3, <2>4, PutIsUpload DEF StoreChunk
<1>8. ASSUME NEW h \in Handlers, UploadNext(h)
      PROVE  Promise!Work \/ \E k \in Keys : Promise!Upload(k)
  BY <1>6, <1>7, <1>8, QuietIsWork
     DEF UploadNext, HandleUploadRequest, HandleUpload, RefuseUpload, HandleResumableInit,
         FindUpload, WriteChunk, DropUpload
<1>9. CASE Restart
  <2>1. Promise!Restart
    BY <1>9, <1>a, LoadedInv DEF Restart, Restarts, Promise!Restart
  <2>. QED  BY <2>1 DEF Promise!Next
<1>10. CASE TornWrite
  <2>1. Promise!LoseAll
    BY <1>10, LoadedNone, KeysAgree DEF TornWrite, Restarts, Empty, Promise!LoseAll
  <2>. QED  BY <2>1 DEF Promise!Next
<1>. QED
  BY <1>1, <1>2, <1>3, <1>4, <1>5, <1>8, <1>9, <1>10, KeysAgree DEF Next, Promise!Next

\* What clients can read behaves as the abstract store: every step of the
\* handlers is one whole step of it or shows nothing, an object goes only by a
\* deletion, and a restart brings everything back unless the process ended
\* inside the writing of the file.
THEOREM StorageRefinesObjectStore == Spec => ImplementsObjectStore
<1>1. Init => Promise!Init
  BY KeysAgree DEF Init, Empty, Promise!Init
<1>2. Inv /\ Inv' /\ [Next]_vars => [Promise!Next]_(Promise!vars)
  BY StorageStepRefines
<1>. QED  BY <1>1, <1>2, StorageInvariant, PTL DEF Spec, ImplementsObjectStore, Promise!Spec

=============================================================================
