# A TLA+ model of localgcp

localgcp is one Go process that emulates Google Cloud services for local
development. This directory holds TLA+ modules that model its core, TLC
configurations that check them on small instances, and theorems about them that
TLAPS proves for every value of the constants. `PROJECT.json` lists the runs, the
theorems, the hazards and, for every definition, the source lines it models.

## The system and its components

Every service is a goroutine with a listener of its own, started by the server
(`internal/server`). A service is a gRPC or HTTP front end (`service.go`) over a
store (`store.go`): maps under one mutex which, when a data directory is
configured, are written as a whole to one `state.json` after every change and
read back at the start. Handlers run concurrently, one goroutine per request.
Services do not call each other; Pub/Sub and Cloud Tasks share the HTTP
dispatcher, the Docker services share the container runtime, and everything
shares the process: one shutdown, one crash.

| Component | State | Operations | What is hard | What makes it correct |
|---|---|---|---|---|
| Pub/Sub `internal/pubsub` | topics, subscriptions, the topic index, a queue per subscription, the message counter | create/delete topic and subscription, publish (fan-out), pull, acknowledge, modify deadline, StreamingPull, the push loop with dead-lettering | the push loop works for minutes on copies while clients delete, recreate, acknowledge; leases that are not persisted; names and IDs reused after a restart | the index agrees with the subscriptions; nothing published is lost; an ack ID names one message for ever; dead-lettering moves, never loses; a pushed message settles |
| Cloud Tasks `internal/cloudtasks` | queues, tasks, the counter for generated names | create/delete/purge queue, create/delete task, the dispatch loop and a goroutine per dispatch | goroutines that finish a task by name long after it was deleted and recreated; marks written to disk by somebody else's call | attempts never pass the queue's limit; a marked task has somebody working on it; a task settles |
| HTTP dispatcher `internal/dispatch` | attempt number and backoff of one call | `Dispatch` | timeout and cancellation between attempts | the result counts the requests that were made, at most MaxRetries+1; every call returns |
| Firestore `internal/firestore` | documents, watchers, the sequence counter, the ring of recent changes, open transactions | create/update/delete document, commit, begin/rollback, Listen with resume tokens, queries | the change is made, written and announced under three different locks; listeners register between them; slow listeners lose events | a listener's view becomes the collection; a resume token resumes where it was given; the pages of a query are its result |
| Docker orchestrator `internal/orchestrator` | started flag, container ID and address; containers in the daemon | lazy start on the first connection, proxying, shutdown | shutdown while a start is in progress; a container that died | a container that serves is left alone; clients reach one that is ready; after the shutdown none comes up |
| Server `internal/server` | the services and their end | port check, start, wait, shutdown within 5 s | the first failing service against the interrupt | an interrupt ends the process |
| Cloud Storage `internal/gcs` | buckets, objects, resumable uploads | buckets, objects, copy, list, simple, multipart and resumable uploads, signed URLs | check and write in two store calls; parallel PUTs to one upload session; session IDs reused after a restart | an object exists only in an existing bucket; sessions do not mix; what the file holds is an object store |
| Secret Manager `internal/secretmanager` | secrets, their versions and states | create/delete secret, add/access/enable/disable/destroy version | destruction against a restart; names reused after a deletion | a destroyed payload never comes back; a version's name leads to it and to no other |
| Cloud KMS `internal/kms` | key rings, keys, versions | create, destroy, encrypt/decrypt, sign, mac | the primary version is looked up and used in two steps | every key has its primary version; an output is undone with the key that made it or not at all |
| Cloud Logging `internal/logging` | a bounded list of entries | write, list, delete | the bound; one page per listing | an entry is found until the bound or a page of older ones hides it |
| Cloud Run `internal/cloudrun` | services | create, update, delete | unique IDs from the size of the table | a service keeps its UID and URI through updates |
| Vertex AI `internal/vertexai` | none | translates requests | | |
| Command line, credentials, website, examples | none | | | |

## Modules

| Module | What it is |
|---|---|
| `Mailboxes` | what Pub/Sub promises, delivery at least once: an abstract specification |
| `PubSub`, `MCPubSub`, `PubSubProofs` | the Pub/Sub store, handlers, streaming pulls, push loop, file and restarts; its instances; its theorems, among them that it implements `Mailboxes` |
| `TaskQueues` | what Cloud Tasks promises its clients: an abstract specification |
| `CloudTasks`, `MCCloudTasks`, `CloudTasksProofs` | the Cloud Tasks store, handlers, dispatch loop, file and restarts; that they implement `TaskQueues` |
| `Dispatcher`, `MCDispatcher`, `DispatcherProofs` | `Dispatch`, the call both of the above deliver with |
| `FirestoreStore` | the Firestore documents, write requests step by step, the file, sequence numbers and the ring of recent changes |
| `Firestore`, `MCFirestore`, `FirestoreProofs` | `FirestoreStore` with the watchers, the Listen streams and what their clients know |
| `FirestoreValues` | how field values compare: pure operators |
| `FirestoreQuery`, `MCFirestoreQuery`, `FirestoreQueryProofs` | queries, read page by page, against concurrent writes |
| `ObjectStore` | what Cloud Storage promises: an abstract specification |
| `Storage`, `MCStorage`, `StorageProofs` | the Cloud Storage store, upload handlers, file and restarts; that they implement `ObjectStore` |
| `LazyService` | a Docker-orchestrated service over the container runtime, with Docker as its environment |
| `Server`, `MCServer`, `ServerProofs` | the process: `LazyService` and native services under `Run`, and the next process; theorems about both |
| `SecretManager`, `Kms`, `CloudRun`, `Logging` | the services that keep resources and answer about them |
| `Stores`, `MCStores`, `StoresProofs` | those four in one process |

### How steps correspond to code

In Pub/Sub and Cloud Tasks a store method holds the store's mutex from its first
to its last line, the write of the file included, so each is one step (Firestore
is different, below; so are the upload handlers of Cloud Storage): what another goroutine could see
or do in between is nothing. (A crash can be in between: `TornWrite`, below.) A
handler that calls the store twice is two steps when the state may change
between them and that matters (`PurgeQueue`/`PurgeAnswer`,
`StreamOpen`/`StreamPoll`, `PushTick`/`PushPull`/`PushDeliver`); a handler whose
first call only checks what the second call checks again is one.

*Guards.* A request the code refuses without changing anything is not a step.

*Time.* A lease or a schedule time is an absolute time in the code; the model
keeps the seconds left until it and a `Tick` that lowers all of them, in memory
and in the file. Ticks stop at zero, which is as far as the code looks.

*The file.* `disk` is what `load` would build from `state.json`. A file that
does not parse and a missing file load alike, as nothing. `persist` assigns the
image of the new state when `DataDir` is set. The steps that change memory
without `persist` are the ones whose methods lack the call: `PushPull`
(`PullAllUndelivered`) and `DispatchDue` (`DueTasks`).

*Crashes.* `Restart` ends the process between two store calls and loads the
file: open streams, the push loop's batch and the dispatch goroutines are gone,
clients keep what they remember. `TornWrite` ends it inside `os.WriteFile`,
which truncates the file before it writes. `PurgePanic` is a restart the code
itself causes: the second half of `PurgeQueue` dereferences a queue that was
deleted after the first half, and no interceptor recovers. An interrupt is a
restart whose dispatches fail first, which `PushDeliver(FALSE)` and
`WorkerEnds(w, FALSE)` allow at any time.

*Dispatches.* `Dispatch` posts up to four times with a backoff and reports one
success or failure. The loops see only that, so it is the truth value the
environment chooses in `PushDeliver(ok)` and `WorkerEnds(w, ok)`; that anything
may happen meanwhile is the interleaving. That a call returns, which the
fairness of the loops needs, is `DispatchEnds` of `Dispatcher`.

### Mailboxes and PubSub

`topics`, `subscriptions`, `topicSubs`, `messages` and `msgCounter` are the
fields of `Store`. A queue is a function from message IDs, which are the numbers
the counter has given out, to `[data, delivered, ttl, attempt]`; the position of
a message in the code's slice decides nothing, for both kinds of pull sort
by ID. They sort IDs as *strings*, `"10"` before `"9"`: `IdLess` is that order. The
payload is named by the ID under which it was first published, so that a
forwarded copy can be told from another message.

The push loop is `round` (the subscriptions read at its tick, each with the dead
letter policy it had then), `job` (the one being worked on) and `batch` (its
copies of messages still to be dispatched). `pushMessage` acts by name on
whatever the subscription is by then: `AutoAck`, `ForwardToDeadLetter`, whose
early returns are `Forwardable`.

`Promise == INSTANCE Mailboxes` maps a queue to the payloads in it and the
counter to the last ID given. `Mailboxes` knows no lease, count, index, stream,
push loop or file: a subscription holds a message until it is acknowledged, passed on with its payload
to a dead letter topic that exists, or deleted with the subscription.
An acknowledgement must not be a name for any loss: so both specifications have
`event`, a history variable that says what a step was told from outside. It
is set where the program is told: by `Acknowledge` to the IDs of the client's call,
by `PushDeliver` when the endpoint accepted, to the ID of that message, by `Restart` and
`TornWrite` to the end of the process. `Mailboxes` lets a step that was told
nothing take nothing away, one that was told of IDs take those, and a restart with
a data directory take nothing. Only `Torn`, a crash inside the writing of the
file, and a restart without a file lose what there was.

### TaskQueues and CloudTasks

`queues`, `tasks` and `counter` are the fields of `Store`; `workers` are the
`dispatchTask` goroutines waiting for their answer, each with its copy of the
task; `purges` are the `PurgeQueue` calls between their two store calls (at
most one per queue). A task carries `uid`, a serial number the code does not
have: it tells a task from a later one of the same name, which is what the
stale-goroutine properties are about. Generated names are the counter's values,
disjoint from the names clients choose, and the counter restarts from zero.
`Configured` is what `CreateQueue` stores of a request, with its defaults.
`Wrap` is the wrap-around of a 64-bit `time.Duration` (the limit is a
constant, since a seconds-based model has another unit); `BackoffsFit` says of
the configurations clients ask for that it never wraps.

`Promise == INSTANCE TaskQueues` maps a task to its serial number and count
(`Kept`), the goroutines to the requests that are not answered and `created` to
the last number given. `TaskQueues` knows no time, state mark, backoff, generated
name, purge answer or file: a task goes by a deletion, an accepted request made
under its name, or a refused one when its queue's requests are used up. That the
request was made under the *name* is what the code does (finding 1 below).
A restart keeps every task and may forget that requests were made (`Remembered`);
without a data directory, or when the file was being written (`Torn`), all is `Lost`.
`event`, a history variable of both specifications, records what a step was told:
that a client removes tasks, which of its two answers a request got, that the
process ends. Without it a task dropped too early would pass for an accepted one,
and a restart that loads nothing for a crash nobody promised to survive.

### FirestoreStore and Firestore

Here a write request is *not* one step. `CreateDocument`, `UpdateDocument` and
`DeleteDocument` change the map under `mu`, release it, call `persist` with no
lock, and call `notifyWatchers`, which takes a number from an atomic counter and
then a second mutex. So each request is a call that goes through

    idle -> (apply ->) scan -> file -> number -> notify -> idle or apply

and other calls come between any two of these. `apply` is the next write of a
`Commit`, which is a list of writes made one after the other. Without a data
directory `scan` and `file` are skipped.

- `scan` is the iteration over the map. A Go map that is written during an
  iteration gives no guarantee, so the call keeps for each document the set of
  contents it may have seen (`seen`), to which every change made meanwhile adds,
  and `PersistOpen` picks one of each. The runtime may also end the process when
  it notices; that is a `Restart`. A document that is merged field by field while
  it is being marshalled could be seen half merged; that third outcome is left
  out, and `mixed` is true whenever it can happen.
- `file` is between the truncation in `os.WriteFile` and its write. When another
  call has written since, the write overlays that text: the file is the call's
  image or `Garbage`, a mixture, which `load` discards as a whole.
- `number` and `notify`: another call may take the mutex in between, so the log
  is not sorted by number, and two changes of one document may be announced in
  the reverse order.

Contents are the serial numbers of writes; masks and fields decide nothing.
`changeLog` is the ring buffer, oldest first.

A Listen stream is `streams[c]`, which goes through registering its watcher
(`AddTarget`), sending the replay or snapshot (`Replay`), reading the counter for
the token (`SendCurrent`), and sending what comes (`sendDocumentChange`).
`watchers` maps target IDs to the stream that has the channel, and is one map
for all streams, as in the code. Events pass a channel of 64, a forwarding
goroutine and a channel of 128; the model has one queue, in which nothing is
dropped below `ChanCap`, anything may be from there on, and everything is at
`QueueCap`. A stream has one target; a client that comes back before the server
has noticed that its old stream ended is two streams. `views` and `tokens` are
what the clients know: documents by the last thing they were told, and the last
token, which outlives the process. `NoToken` is a client that has none; the token 0,
of a store nobody has written to, is one the client keeps its documents for and
the server takes for none: it sends a snapshot (`Resumes`).

`raced`, `mixed` and `lagging` are history: documents whose last change was made
while another change of the same document was not yet announced; whether the
last change was made while another call was at the file; streams that lost an
event to a full channel. The properties except exactly these, and the violation
runs show why they must.

### FirestoreValues and FirestoreQuery

`CompareValues`, `MatchesOp` and `ApplyFilter` are the functions of `query.go`. A
value (`IsValue`) is the rank `typeOrder` gives its type (10 when it knows no better),
a key with the order of the type, and the elements of an array; the number that is not a number compares as
`cmpFloat` has it, and integers and doubles are one kind of number (two integers
above 2^53 that the conversion to a double makes equal are not told apart in the
code; the keys here are exact).

A query is `Collect` (`ListDocuments`, under the store's mutex), `Where`, the
sort, and `Send`, all three without it. The documents it works on share their
field maps with the store, so an update with a mask changes them under it
(`PatchDocument`), while every other write leaves the query its old map
(`Replace`). The sort reads the maps again at each comparison, so each comparison is
a step: `MoveAhead` when the document at `place` comes before the one in front of it
and changes places with it, `StayBehind` when it does not and the `next` one's
turn comes, `EndSort` when all have had theirs. That is `sort.SliceStable` of up to 20
documents; of more, it does so in blocks of 20 and merges them, which makes other
comparisons and, of one order, the same result. `Where` is one step: a filter looks
at each document by itself, so a patch during it can only change
whether the patched document stays. Patches inside one comparison, and that Go may end
the process when a map is read and written at once, are left out.
`listed`, `patched` and `disturbed` are history: the documents as they
were listed, the names whose maps were changed in place since, and
whether one of the result was while the sort compared. The client
asks for page after page with OFFSET and LIMIT. What the code does by appending to
a slice is said by places: `Ranked` puts the elements of a set in the order of
a relation, and the result of a filter is the documents `At` those places.

### ObjectStore and Storage

Store methods are single steps that end in `Persist`. Upload handlers are not:
`HandleUpload` finds the bucket, then the body is read (any time may pass), then
`PutObject` looks for the bucket again. A resumable upload is `uploads[i]`, a
session that handlers keep a pointer to, so that it outlives its entry in the map
(`open`). Its PUTs go through `lookup`, `write`, `store` and `drop`, with a lock
at the first and the last only: while another handler is at the same buffer the
outcomes of the data race are `Written` and `Seen`. A client that retries a PUT
beside its first one is two handlers with one ticket. A content is the sequence
of the bodies it was put together from, and a body carries the object it was
meant for and the run in which its URI was given out, which the code does not
have: they are what `UploadsKeepApart` is about. Session IDs come from the same
counter as the ETags of buckets and begin again with the process.

`Promise == INSTANCE ObjectStore WITH contents <- objects` is the refinement
mapping: what is promised is what a client can read. That a restart is a step that changes
nothing of it is therefore a claim about the file and its loading. `event`
records, as in the other two, what a step was told: that a client deletes, or that the
process ends; a step that was told nothing takes no object away.

Names of objects are values. The copy of bytes in memory that a racing PUT may still overwrite after
`PutObject` has stored a slice of the buffer is left out, and so are content
types, hashes and signatures of URLs (the code verifies none).

### LazyService and Server

`started`, `containerID`, `hostAddr` and `mu` are the fields of `LazyService`.
A connection's handler is at one call of the container runtime after the other,
`Starting` names them in the order of `ensureContainer`; the mutex is held from
`find` to `publish` or to the return with an error. Every call may fail having
done its work or not, when Docker fails (`faults`), or when the context ends
while it is made; a call that begins after the context has ended (`late`) is
not made. `shutdown` uses a context of its own. An address names one container: each start gets
a new port. Whether a container is `ready`, and whether it dies, is Docker's.

In `Server`, `run` is where `Run` is, `natives` the other services, of which only
their binding, failing and stopping matters, and `errCh` its channel. `Up` is the
`up` command with its clean-up of containers and the port check. `Exit` and
`Killed` end the process: its goroutines and variables go, the container stays,
and the next `Up` finds it. The process begins with `before`, the containers that
are older than it.

### Dispatcher

A call is at its POST, waits for the answer, or is in the pause. A request that
was sent may reach its target though no answer comes. `posts` counts the
requests handed to the HTTP client, which the code counts only in its result.

### SecretManager, Kms, CloudRun, Logging and Stores

All four have one mutex over all they keep, so a store method is a step. KMS's
`Encrypt` calls the store twice and is two. A secret's versions are the code's slice; `latest`
is its last element, whatever its state. Key material is a number of its own for each
one generated, so that "the same key" has a meaning; `outputs` are ciphertexts,
signatures and MACs that clients hold. A log entry has the number of entries
written before it in place of its payload.
`Stores` puts the four under one process: a restart reads the secrets back and
empties the rest, whose state is only in memory. `Chosen` is the loop that
appends the entries of some places, for listings and for the deletion of a log.

## Runs

| Run | What it asks | Bounds |
|---|---|---|
| `pubsub_pull` | index, file, leases and IDs of pull subscriptions under administration, restarts and torn writes; the refinement of `Mailboxes` | 2 topics, 2 subscriptions (one may come back on the other topic), 1 stream, 2 messages, 1 restart |
| `pubsub_push` | dead-lettering, durability and progress of the push loop; the refinement of `Mailboxes` | a push subscription that is deleted and recreated under another policy or as a pull one, 2 published messages and 2 forwards, attempts up to 2, 1 restart |
| `tasks` | limits, durability, ownership and progress of tasks; the refinement of `TaskQueues` | 1 queue recreated under two configurations, 1 client-chosen and 1 generated name, 3 tasks, 1 restart |
| `tasks_stale` | violated: a success completes a task it did not dispatch | |
| `firestore` | file, numbers in and out of the log, and listeners that come, go and resume, under concurrent writes | 2 concurrent requests, 2 documents (one listened to), 3 changes, a `Commit` of a change and a deletion, 1 stream, a ring of 2 events, channels of 1 and 2, 1 restart |
| `firestore_resume` | violated: a resumed client misses a change | |
| `firestore_query` | the pages of a query, with and without writes | any collection of 3 documents with one field (missing, a number, NaN, an array), 6 filters, 2 orders, pages of 2 or no limit, 1 write anywhere, between two comparisons too |
| `storage` | durability and sessions; the refinement of `ObjectStore`, which has objects in buckets only | 1 bucket, 2 object names, 2 handlers, 2 IDs, 2 bodies per session, 1 restart |
| `server` | where clients are forwarded, the shutdown, and that both end | 2 connections, 1 native service, 1 Docker failure or death, 4 containers, 2 processes |
| `server_shutdown` | violated: a container that is being started outlives the shutdown | no Docker failure |
| `dispatcher` | the result of a call, and that it returns | the two configurations in the code, one call of each at a time |
| `stores` | names, keys and entries over restarts | 7 calls, 1 secret of 2 versions, 1 key, 2 services, 2 entries kept, pages of 1 |

Why the bounds are enough. The two topics and two subscriptions are the smallest
instance in which a topic has two subscribers, a subscription moves between
topics and a dead letter topic has a reader. Two messages give a batch of two, a
partly acknowledged batch and an order; two forwards give each its copy. After
the restart both runs go on to write the file; `CrashLosesNothing`, which a load
relies on, holds of every state, so a second load meets nothing new. Three tasks of two
names give a task, its successor of the same name and a bystander, and so two
goroutines of one name. Attempts up to 3 with `maxDoublings` above and below
reach every branch of the backoff. One queue suffices: queues share nothing but
the counter and the file. The bounds are constants (`MaxMsgs`,
`MaxPublished`, `MaxBatch`, `AttemptCap`, `MaxCrashes`, `MaxAuto`, `MaxCreated`)
that appear in guards only, except `AttemptCap`, at which Pub/Sub's count
saturates: no policy has a larger maximum, so nothing distinguishes the counts
above it. `MaxPublished` is below `MaxMsgs` so that the counter leaves room for
forwards.

Two concurrent requests are the least that overlap at the file, in the log and
over one document; with three changes a ring of two events holds two at a time, in
either order of their numbers, and evicts the oldest, also when the evicted number is the larger
one, and the third change can repair what the first two left. The document nobody
listens to lets changes pass a listener by. That two streams, larger rings and more
requests add nothing is what the theorems show: all four invariants of this
run are proved for any number of them.

Two handlers are the least that race on a session, on a bucket or with a
deletion; two IDs give a session and, after a restart, another one of its ID. Two connections are the least of which one waits for the other
to start the container, one failure reaches every error path of
`ensureContainer` and every clean-up, and the second process finds what the
first has left; the theorems hold for any number of failures. Two
entries kept and pages of one make both limits of a listing pass. Three
documents with pages of two give a full page, a last one and ties across
their boundary, and a sort of three can pass an unpatched document by another one
because of a third that is patched between two comparisons.

Deadlock is checked where there is always something to come: a request, a
listener, a restart (`pubsub_*`, `tasks`, `firestore*`, `dispatcher`). It is
not checked in `storage`, `stores`, `firestore_query` and `server`, where the
bounds on restarts, calls, pages and processes bring the system to an end.
Symmetry is used in `firestore`, `storage` and `stores`. None of them checks
a liveness property.

### Fairness

Pub/Sub's push loop and Cloud Tasks' dispatch loop are goroutines driven by a
`time.Ticker`; the Go scheduler runs them and the store's mutex is held for
bounded times only. A dispatch ends: the HTTP client has a timeout of 30 s and
there are at most four attempts. So there is weak fairness on `PushTick`,
`PushPull`, `PushDeliver` and `DispatchDue`, on the end of each
goroutine, and on `Tick`. Nothing is assumed of clients, of the endpoint's
answers (the fair action leaves success to chance) or of crashes, which are
bounded by `MaxCrashes`.

`PushSettles` is checked of `PushSpec`, which has no subscriber calls: a client
that extends the leases of a *push* subscription for ever can hold its
messages for ever.

`DispatchEnds` assumes that a call runs: its requests are answered or time out,
its timers go off. It holds although nothing says that the context is ever
cancelled, or that the target ever accepts.

In `Server`, goroutines run, the select of `Run` sees an interrupt, its timer
goes off, Docker answers each call (with an error if it likes) and a container
comes up if it runs. The mutex needs strong fairness: handlers come and go
while one waits, and Go's `sync.Mutex` hands itself over to whoever has waited
for a millisecond. Nothing is assumed of clients, and a native service need
never stop.

No liveness is stated of Firestore, Storage, Stores and FirestoreQuery, which are
checked under specifications without fairness.

### Properties

The comment above each property says what it states. The ones a reader of the
code would argue about:

- `IdsNeverReused`: the acknowledgement after a slow dispatch, or of a client that
  slept through a restart and a recreation of its subscription, cannot remove another message.
- `CrashLosesNothing`, `RestartNeverExtendsLease`: `PullAllUndelivered` leases
  and counts without writing; what that may cost is a lease and a count, never
  a message, and a restart never hides a message that is due. `CrashLosesNothing` is
  checked of both kinds of subscriptions, the lease of the pull ones, since a push
  subscription's lease is taken in memory only; the theorem covers both.
- `DeadLettering`, `InFlightNamesItsMessage`: the push loop decides with the
  policy of its tick and acts on the subscription of now.
- `ImplementsMailboxes`: of all that the store, the streams, the push loop and
  restarts do, a message leaves a queue only in the step of an acknowledgement that names
  it, with its payload into the dead letter topic, or with its subscription, and a
  restart from the file brings every one back. A pull that takes what it hands out breaks it
  (a mutant), as does a forward without a topic. `PubSubPull.cfg` checks it of clients and
  streams, `PubSubPush.cfg` of the push loop.
- `DispatchingHasWorker`, `AttemptsBounded`, `TaskSettles`: goroutines of deleted
  tasks complete and retry their successors; the limits and the progress
  survive that. `Orphan` in `TaskSettles` excepts the tasks a restart found
  dispatching, which the code never looks at again.
- `ImplementsTaskQueues`: whatever stale goroutines, purges, recreated queues and
  restarts do between a task's creation and its end, it ends in a way clients were told of,
  and never with a request left after a refusal. A restart from the file keeps every task.
- `ListenersConverge`: registering the watcher before the snapshot is enough, although
  writes are announced after they are made, in steps, and the listener may be sent old
  contents after new ones on the way.
- `FlushedWhenAlone`: a write that meets no other one at the file repairs
  whatever overlapping writes have left there.
- `SequenceNumbers`: every number is in the log once, on its way into it, or evicted,
  although numbers are taken before the log's mutex. What it cannot say is that the evicted ones
  are the oldest (below).
- `ImplementsObjectStore`: handlers that work for any time on a bucket that may
  be deleted meanwhile, sessions that outlive both, races on their buffers: what clients read
  changes by whole uploads, copies and deletions only, and a restart reads all of it back.
- `UploadsKeepApart`: the exception, a URI of an earlier run, is what the code
  does: the bytes go to the object of another client's session.
- `ForwardsToHealthy`, `ShutdownIsFinal`, `ServedContainerStays`: one mutex and one
  flag have to order the first connection, the others and the shutdown.
- `KeysWork`: a creation that fails after entering its key leaves a count behind,
  and a version destroyed between the two halves of `Encrypt` makes no output: each one
  was made with some key's material, and is undone with the same or not at all.
- `EntriesAreFound`: trimming, deletion, the filter and the one page together.
- `PagesAreTheResult`, `PageIsSnapshot`: what OFFSET and LIMIT give a client that
  asks again for each page, alone and beside writers. Without its exception for
  a disturbed sort TLC refutes `PageIsSnapshot`.

### What the code does not keep

The three violation runs each check a sentence of a comment or of the
documentation and TLC finds a behaviour of the code that contradicts it; the
findings in `PROJECT.json` quote both.

1. `CompleteTask` "removes a successfully dispatched task": it removes whatever
   has the name by then (`tasks_stale`).
2. "Clients reconnecting with valid token get incremental changes"
   (`TODOS.md:24`): the token of CURRENT covers changes whose events have not
   been sent (`firestore_resume`).
3. "When localgcp shuts down, it stops and removes the Docker container"
   (`website/docs/spanner.html:316`): an interrupt during a start cancels the
   context the clean-up uses (`server_shutdown`).

Others the models show and the properties name as exceptions, with no run
of their own:

- Dead-lettering of pull subscriptions (`website/docs/pubsub.html:276`): `Pull`
  never counts a delivery (`StorePull`).
- The task lifecycle (`cloudtasks/service.go:79-87`): the dispatching mark is
  written by any later call, and after a restart nobody looks at such a task
  (`Orphan` in `TaskSettles`).
- "Exponential backoff between MinBackoff and MaxBackoff"
  (`website/docs/cloud-tasks.html:288`): a queue that does not set
  `MaxDoublings`, as the example there, never doubles (`Backoff`).
- "Flushed on every write" (`firestore/store.go:87-88`): the file is written with
  no lock, so that an older image may be the last, or two be mixed (`mixed` in
  `FlushedWhenAlone`).
- "Commit applies writes atomically" (`firestore/service.go:251`): it makes them
  one after the other, each with its own file and events (`Doing`, `applyWrite`).
- "Changes to documents are pushed to listeners in real time"
  (`website/docs/firestore.html:239`): target IDs are shared by all streams, and a
  second listener with the same one silences the first (`Healthy` in
  `ListenersConverge`).
- "Clients reconnecting with valid token get incremental changes" (`TODOS.md:24`) once more:
  events are logged in another order than numbered, so the ring may evict a newer
  number than its oldest entry's; a token between the two is accepted and that
  change not replayed (`SinceKnown`; the numbers are those of `SequenceNumbers`).
- Query results come in the order asked for: an update with a mask that changes a document
  between two comparisons of the sort (`query.go:384-410`, `store.go:317-324`) can leave two
  *other* documents, which nobody wrote, in the wrong order (`disturbed` in
  `PageIsSnapshot`). A=3, P=5, B=1: P stays behind A, is patched to 0, and B does not pass it.
- localgcp "waits for the container to become healthy before forwarding"
  (`website/docs/spanner.html:314`): a container of an earlier process that runs
  is used as it is (`before` in `ForwardsToHealthy`).

## Proofs

The modules named `...Proofs` prove for every value of the constants,
under the assumptions their modules name (bounds are naturals, requests have the
fields' types, the special values are no names, orders and composite filters are lists), for any number of names,
messages, attempts, goroutines, documents, filters and restarts. Every assumption is
evaluated by TLC for the constants of the runs. One theorem has a hypothesis,
`BackoffsFit`, which the code does not check of a request: without it a backoff
may wrap around and the property is false. `MCCloudTasks` assumes the hypothesis of
its constants, so that the run and the theorem speak of the same queues.

| Theorem | Property |
|---|---|
| `PubSubProofs!TypeCorrect` | `TypeOK` |
| `PubSubProofs!IndexCorrect` | `IndexConsistent` |
| `PubSubProofs!Durability` | `CrashLosesNothing` |
| `PubSubProofs!LeaseDurability` | `RestartNeverExtendsLease` |
| `PubSubProofs!FreshIds` | `IdsNeverReused` |
| `PubSubProofs!InFlight` | `InFlightNamesItsMessage` |
| `PubSubProofs!DeadLetters` | `DeadLettering` |
| `PubSubProofs!PubSubKeepsItsPromise` | `ImplementsMailboxes` |
| `CloudTasksProofs!TypeCorrect` | `TypeOK` |
| `CloudTasksProofs!NoTaskWithoutQueue` | tasks are under existing queues (`TasksHaveQueues`; the runs check it as a part of the refinement) |
| `CloudTasksProofs!AttemptLimit` | `AttemptsBounded` |
| `CloudTasksProofs!Durability` | `CrashLosesNoTask` |
| `CloudTasksProofs!MarkedTasksHaveWorkers` | `DispatchingHasWorker` |
| `CloudTasksProofs!RetriesWait` | `RetryWaitsInRange`, if `BackoffsFit` |
| `CloudTasksProofs!CloudTasksKeepsItsPromise` | `ImplementsTaskQueues` |
| `FirestoreProofs!TypeCorrect` | `TypeOK` |
| `FirestoreProofs!Flushed` | `FlushedWhenAlone` |
| `FirestoreProofs!UniqueNumbers` | `SequenceNumbers` |
| `FirestoreProofs!ListenersAgree` | `ListenersConverge` |
| `FirestoreQueryProofs!CompareIsAnOrder` | `CompareValues` is a total preorder of values |
| `FirestoreQueryProofs!OrderByIsStrictWeak` | `Before` is a strict weak order of documents |
| `FirestoreQueryProofs!PagesAreSnapshots` | `PageIsSnapshot` |
| `FirestoreQueryProofs!PagingIsExact` | `PagesAreTheResult` |
| `StorageProofs!StorageTypeCorrect` | `TypeOK` |
| `StorageProofs!NoObjectWithoutBucket` | `ObjectsHaveBuckets` (in the runs a part of the refinement) |
| `StorageProofs!FileIsCurrent` | `CrashLosesNothing` |
| `StorageProofs!SessionsKeepApart` | `UploadsKeepApart` |
| `StorageProofs!StorageRefinesObjectStore` | `ImplementsObjectStore` |
| `ServerProofs!ServerTypeCorrect` | `TypeOK` |
| `ServerProofs!ClientsReachReadyContainers` | `ForwardsToHealthy` |
| `ServerProofs!NothingStartsAfterShutdown` | `ShutdownIsFinal` |
| `ServerProofs!ServingContainerIsLeftAlone` | `ServedContainerStays` |
| `DispatcherProofs!DispatchTypeCorrect` | its `TypeOK` |
| `DispatcherProofs!ResultsTellTheTruth` | `AttemptsAreRequests` |
| `StoresProofs!SecretNamesResolve` | `VersionNamesResolve` |
| `StoresProofs!KeysAlwaysWork` | `KeysWork` |
| `StoresProofs!NamesStandForOneThing` | `NamesKeepTheirMeaning` |
| `StoresProofs!EntriesListed` | `EntriesAreFound` |

*Pub/Sub.* The invariants form a chain. `TInv` is the type invariant, which is
inductive by itself. `XInv` adds the index, in memory **and in the file**: after
a restart the index is rebuilt from the file, so the file's subscriptions must
not name a topic that the file does not hold. `DInv` adds
that every queued ID is at most the counter, in memory and in the file, and the
relation of memory and file. `IdsNeverReused` is an action property: each step
other than a torn write keeps the counter from falling, which for `Restart`
is `DInv`'s equation of the two counters, and puts only IDs above it into queues.

What the push loop holds outlives what it was copied from, so `FInv` cannot say that
the queue has the message: it says that its ID has been given out and that *if*
the queue has the ID, then with the same payload and count. Steps
are sorted by what they may do to that: most leave the counts, a publish adds above the
counter only, a recreated subscription begins empty, and a restart, which loses the counts,
ends the batch as well. `DeadLettering` needs in addition that only a forward moves the
counter and takes a message away in one step.

The refinement of `Mailboxes` goes handler by handler. The abstract
specification knows no index, and the code fans out along it, so `XInv`'s equation of
index and subscriptions carries `Publish` and the forward. A lease, a count or an
extension changes no payload: it is `Work`. An acknowledgement takes exactly the IDs its
event names. A restart keeps everything because of `DInv`'s equation of file and
memory, or, without a data directory, loses all, because then the file has stayed empty
(`NothingSaved`).
A forward is one abstract step: copies in every mailbox of the dead letter topic,
the subscription's own among them, and the original gone.

*Cloud Tasks.* `TInv` says of the tables in memory and in the file that they are
sound: every task belongs to a queue and is within that queue's limit. The limit
must be part of the type invariant because the count is bounded by nothing else,
and the file must be sound because a restart loads it. `CrashLosesNoTask` and
`DispatchingHasWorker` are inductive together with it. `RetryWaitsInRange` needs to know
that a stored queue was configured from a request, in memory and in the file
(`ConfInv`), so that `BackoffsFit` speaks of it, and that a step which raises a
task's wait is a retry under the queue of now. For the refinement of `TaskQueues`
two more are needed: a count in the file is never ahead of the one in memory
(`CountsLag`; dispatches are counted without writing), so that a restart is one in which
all tasks are `Remembered`, and without a data directory the file has stayed empty
(`NothingSaved`), so that all are `Lost`. A round of the dispatch loop is one `Sends`, because a task that waits has an attempt
left; putting a task back, ageing it and answering a purge change nothing abstract but
the requests.

*Firestore.* `Inv` adds to the types that a call with a write to make has one,
and that one at the file has seen something of every document, without which the
image would be undefined. `FlushInv`: as long as the last change met nobody at
the file, at most one call is there, its `seen` is the documents as they
are, and only it has truncated the file. `SequenceNumbers` is inductive. For `ListenersConverge` the
invariant must speak of events that are still on their way. `PendingInv`: a
document that is not raced is announced by at most one call, with the content it
has. `QueueInv`: of a document that is announced, the last event in the
queue has the content the document has, whatever older ones are before it;
this holds from the registration of the watcher on, before the snapshot.
`ViewInv`: the view is empty until the snapshot, and afterwards right of every
document that is in neither a call nor the queue. The snapshot establishes it, an
event that is sent passes the content from `QueueInv` to `ViewInv`.

*Storage.* `StoreInv`: types, objects in buckets only, the file equal to
the maps. A store method that refuses changes neither, which is why the second look at the
bucket in `PutObject` and not the handler's first one carries it. `ApartInv`: a ticket
of this run names a session for the ticket's object, and a handler at a session
has a body for it or one of an earlier run. The refinement maps `PutObject` to
`Upload`, a torn write to `LoseAll`, each handler's other steps to `Work`, and `Restart` to the
abstract one, which changes nothing, by `StoreInv`'s equation of the file and the maps.

*Server.* `Flags` and `HandlerFlags`: there is an address from when the service is
started until its shutdown is done, and while a handler starts a container there
is none; a handler in `ensureContainer` after the shutdown is one whose context had
ended before its first call, so it can make none. That is `ShutdownIsFinal` and
`ServedContainerStays`, for the mutex tells who can call Docker at all. For
`ForwardsToHealthy` a container that runs must be accounted for, because the next
handler takes a running container as it finds it: `Accounted` says whose it
is, and `Owned` counts the failures that have led a handler to its clean-up, so
that a container left running unready took a second one, or the end of the context.

*Dispatcher.* `Inv` relates the requests made to the attempt a call is in, before
and after its POST.

*Stores.* `SecretsInv`: the secrets equal their file, and versions have numbers in
increasing order, all below the count. `KmsInv`: a key has its primary version,
and an output's version has the material that made it or none. `NamesKeepTheirMeaning`
is an action property: each operation is one case, the restart is
`SecretsInv`'s equation, and a service that is created anew was not there before.
`LogInv` relates the list to all that was written: entries are in the order of
their numbers, and one that was neither deleted nor overtaken by `MaxEntries` others
is among them. What `Chosen` returns, a function defined by recursion, is
told by taking its least place at which it would be otherwise (`UpTo`): the library's
induction theorems take an operator, which the provers cannot instantiate, but that
the naturals are well-founded is about a set. The recursive functions of
`FirestoreQuery` are reasoned about in the same way (`Recursion`).

*FirestoreQuery.* `CompareIsAnOrder` goes by rank; the number that is not a
number is below all others. That two documents neither of which is before the
other tie in every order uses the least order that tells them apart, by the
well-foundedness of the naturals. That `Ranked` of a set and a strict total order is
that set, each element once and in order, is what both theorems of
pages rest on. `PageIsSnapshot`: of every document that was not patched, the
result holds the fields that were listed, and each name once (`SnapshotInv`), through filter,
sort and window; a change of places is a permutation (`Midway`). The sort's
invariant, as long as it is not disturbed, is that of insertion (`PartSorted`): the documents
before `next` are in order but for the one at `place`, which has passed
only documents it comes before. `PagesAreTheResult`: while nobody writes, every query of the
client computes the same sequence (`Full`): a listing is one, and a stably sorted
permutation is unique (`OneOrder`: the place of a document is the number of those ahead of it, by
`Before` or, of ties, by the listing), so the sort ends in it. What the
client has got is its first `offset` names (`SteadyInv`).

*Only model-checked.* The liveness properties `PushSettles`, `TaskSettles`,
`DispatchEnds`, `ConnectionsEnd` and `InterruptEnds`: they rest on fairness,
which the prover cannot reason about. Every other property of a passing run
is a theorem. The three properties that are violated are false.

## What is abstracted or left out

- Payloads, attributes, headers, URLs, labels, project prefixes and timestamps:
  no property distinguishes them.
- Read-only RPCs; RPCs that answer Unimplemented.
- The length of `Pull`'s answer beyond `PullSizes`, and of a poll beyond
  `StreamBatch`: the bounds name the sizes tried.
- Errors of `os.MkdirAll` and of `os.WriteFile` that leave the process alive: the
  code ignores them, and a full disk would break `CrashLosesNothing`.
- Listings of Cloud Storage with their prefixes and delimiters: a pure function of the
  names, whose hazard is in the characters of names (`gcs/store.go:273`).
- Cryptography, HTTP and gRPC, JSON.
- Queries: more than one FROM collection, composite filters inside composite
  ones, dotted field paths.
- Firestore's table of open transactions, which lets one Commit or Rollback of a
  transaction pass and is not read otherwise (no write looks at what its
  transaction has read), and Listen streams with several targets.
- Secret Manager's and KMS's pointers that are marshalled into an answer after the
  mutex was released.
- Cloud Run's UIDs, taken from the size of the table, are modelled and may repeat
  after a deletion; nothing in the code or its documentation relies on them.

Not modelled:

- Vertex AI translates one request into one of another API, or into a fixed
  answer, and keeps no state.
- The command line apart from `up`, the credentials file, the website, the
  examples and the build have no state and no interaction.

## Plan

Done: `PubSub` with `Mailboxes`, `CloudTasks` with `TaskQueues`, `Dispatcher`, `Firestore`, `FirestoreQuery`,
`Storage` with `ObjectStore`, `LazyService` with `Server`, and the four resource
services with `Stores`, each with its runs and theorems.

The theorems cover every safety property that a run checks. Left: Firestore's transactions and the atomicity of `Commit`, streams with several
targets, and that changes arrive (liveness of the forwarding).
