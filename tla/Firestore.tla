----------------------------- MODULE Firestore ------------------------------
(***************************************************************************)
(* The Firestore emulator with its listeners: FirestoreStore, the watchers *)
(* of internal/firestore/store.go and the Listen handler of                *)
(* internal/firestore/service.go.                                          *)
(*                                                                         *)
(* A Listen stream registers a watcher, then replays the changes since the *)
(* client's resume token or sends all documents, then reads the sequence   *)
(* counter for the token it sends with CURRENT, and from then on sends     *)
(* what its watcher gets.  Writes go on between these steps.               *)
(*                                                                         *)
(* A stream has one target, as the client libraries do; a client that wants*)
(* another one opens another stream.  The watcher's channel, the goroutine *)
(* that empties it and the channel of the stream are one queue: below      *)
(* ChanCap events nothing is dropped, from there on an event may be, and   *)
(* at QueueCap it is.                                                      *)
(***************************************************************************)
EXTENDS FirestoreStore

CONSTANTS
  Streams,   \* Listen streams that may be open at a time, one per client
  TargetIds, \* the target IDs clients choose
  Queries,   \* what targets ask for: sets of documents
  NoStream,  \* a target ID without a watcher
  ChanCap,   \* the capacity of a watcher's channel
  QueueCap   \* that and the rest of the way to the stream

ASSUME ListenAssumption ==
  /\ Queries \subseteq SUBSET Docs /\ Queries # {}
  /\ NoStream \notin Streams /\ TargetIds # {}
  /\ ChanCap \in Nat /\ QueueCap \in Nat /\ ChanCap <= QueueCap

VARIABLES
  watchers, \* Store.watchers: target ID -> the stream that has the channel
  streams,  \* what each Listen handler is doing
  queues,   \* the events on their way to each stream
  views,    \* external: the documents as the client of each stream knows them
  tokens,   \* external: the resume token each client has
  lagging   \* history: the streams that lost an event

listenVars == <<watchers, streams, queues, views, tokens, lagging>>
vars == <<storeVars, listenVars>>

\* A client that has no token.
NoToken == -1

Stream == [at : {"closed", "replay", "current", "listening"},
           target : TargetIds, query : Queries, resumed : BOOLEAN]

InitListen ==
  /\ watchers = [t \in TargetIds |-> NoStream]
  /\ streams \in [Streams -> [at : {"closed"}, target : {CHOOSE t \in TargetIds : TRUE},
                              query : {CHOOSE q \in Queries : TRUE}, resumed : {FALSE}]]
  /\ queues = [c \in Streams |-> <<>>]
  /\ views = [c \in Streams |-> NoDocs]
  /\ tokens = [c \in Streams |-> NoToken]
  /\ lagging = {}

Init == InitStore /\ InitListen

-----------------------------------------------------------------------------
(* Sending a change to the watchers                                        *)

Watching(c) == \E t \in TargetIds : watchers[t] = c

\* Variant: a handler that is still replaying is passed over.
MatchesListening(c, e) == Watching(c) /\ e.doc \in streams[c].query /\ streams[c].at = "listening"

Matches(c, e) == Watching(c) /\ e.doc \in streams[c].query

\* The sends do not block: a full channel drops the event.
Send(e) ==
  LET hit == {c \in Streams : Matches(c, e)}
  IN  \E dropped \in SUBSET {c \in hit : Len(queues[c]) >= ChanCap} :
        /\ \A c \in hit \ dropped : Len(queues[c]) < QueueCap
        /\ queues' = [c \in Streams |->
              IF c \in hit \ dropped THEN Append(queues[c], e) ELSE queues[c]]
        /\ lagging' = lagging \cup dropped

notifyWatchers(k) ==
  /\ LogChange(k)
  /\ Send(Event(k))
  /\ UNCHANGED <<watchers, streams, views, tokens>>

-----------------------------------------------------------------------------
(* Listen                                                                  *)

\* RemoveWatcher closes the channel whoever registered it.
RemoveWatcher(t) == watchers' = [watchers EXCEPT ![t] = NoStream]

\* AddTarget, its first step.  AddWatcher takes the place of a watcher with
\* the same target ID, which may be another stream's.  A client that resumes
\* asks for what it asked for before.
AddTarget(c, t, q, resume) ==
  /\ streams[c].at = "closed"
  /\ resume => tokens[c] # NoToken /\ q = streams[c].query
  /\ watchers' = [watchers EXCEPT ![t] = c]
  /\ streams' = [streams EXCEPT ![c] = [at |-> "replay", target |-> t, query |-> q,
                                        resumed |-> resume]]
  /\ queues' = [queues EXCEPT ![c] = <<>>]
  /\ lagging' = lagging \ {c}
  /\ IF resume THEN UNCHANGED <<views, tokens>>
               ELSE /\ views' = [views EXCEPT ![c] = NoDocs]
                    /\ tokens' = [tokens EXCEPT ![c] = NoToken]
  /\ UNCHANGED storeVars

\* ChangesSince can tell what came after the token.  An empty log can always.
SinceKnown(after) == changeLog = <<>> \/ changeLog[1].seq <= after + 1

\* The client's documents after the logged changes since its token.
Replayed(c) ==
  [d \in Docs |->
     LET since == {i \in DOMAIN changeLog :
                     /\ changeLog[i].seq > tokens[c] /\ changeLog[i].doc = d
                     /\ d \in streams[c].query}
     IN  IF since = {} THEN views[c][d]
         ELSE changeLog[CHOOSE i \in since : \A j \in since : j <= i].val]

\* The client's documents after all documents were sent: nothing is said of
\* those that do not exist.
Snapshot(c) ==
  [d \in Docs |-> IF d \in streams[c].query /\ docs[d] # NoDoc THEN docs[d] ELSE views[c][d]]

\* A token of 0, from before the first change, is good for nothing.
Resumes(c) == streams[c].resumed /\ tokens[c] > 0 /\ SinceKnown(tokens[c])

Replay(c) ==
  /\ streams[c].at = "replay"
  /\ views' = [views EXCEPT ![c] = IF Resumes(c) THEN Replayed(c) ELSE Snapshot(c)]
  /\ streams' = [streams EXCEPT ![c].at = "current"]
  /\ UNCHANGED <<storeVars, watchers, queues, tokens, lagging>>

\* CURRENT: the token is the counter as it is now.
SendCurrent(c) ==
  /\ streams[c].at = "current"
  /\ tokens' = [tokens EXCEPT ![c] = seq]
  /\ streams' = [streams EXCEPT ![c].at = "listening"]
  /\ UNCHANGED <<storeVars, watchers, queues, views, lagging>>

\* The handler sends the next event, the client applies it.
sendDocumentChange(c) ==
  /\ streams[c].at = "listening"
  /\ queues[c] # <<>>
  /\ views' = [views EXCEPT ![c][Head(queues[c]).doc] = Head(queues[c]).val]
  /\ queues' = [queues EXCEPT ![c] = Tail(@)]
  /\ UNCHANGED <<storeVars, watchers, streams, tokens, lagging>>

\* RemoveTarget, the client goes away, or a Send fails.
Close(c) ==
  /\ streams[c].at # "closed"
  /\ RemoveWatcher(streams[c].target)
  /\ streams' = [streams EXCEPT ![c].at = "closed"]
  /\ queues' = [queues EXCEPT ![c] = <<>>]
  /\ UNCHANGED <<storeVars, views, tokens, lagging>>

\* Clients keep what they know.
Restart ==
  /\ RestartStore
  /\ watchers' = [t \in TargetIds |-> NoStream]
  /\ streams' = [c \in Streams |-> [streams[c] EXCEPT !.at = "closed"]]
  /\ queues' = [c \in Streams |-> <<>>]
  /\ lagging' = {}
  /\ UNCHANGED <<views, tokens>>

-----------------------------------------------------------------------------
WriteNext ==
  \/ RequestNext /\ UNCHANGED listenVars
  \/ \E c \in Calls : CallStep(c) /\ UNCHANGED listenVars
  \/ \E c \in Calls : notifyWatchers(c)

ListenNext ==
  \/ \E c \in Streams, t \in TargetIds, q \in Queries, resume \in BOOLEAN :
       AddTarget(c, t, q, resume)
  \/ \E c \in Streams :
       Replay(c) \/ SendCurrent(c) \/ sendDocumentChange(c) \/ Close(c)

Next == WriteNext \/ ListenNext \/ Restart

Spec == Init /\ [][Next]_vars

-----------------------------------------------------------------------------
(* Properties                                                              *)

TypeOK ==
  /\ StoreTypeOK
  /\ watchers \in [TargetIds -> Streams \cup {NoStream}]
  /\ streams \in [Streams -> Stream]
  /\ queues \in [Streams -> Seq(ChangeEvent)]
  /\ \A c \in Streams : Len(queues[c]) <= QueueCap
  /\ views \in [Streams -> [Docs -> Contents]]
  /\ tokens \in [Streams -> Nat \cup {NoToken}]
  /\ lagging \subseteq Streams

\* No change of document d is under way to stream c.
Quiet(c, d) ==
  /\ \A k \in Calls : Pending(k) => calls[k].doc # d
  /\ \A i \in DOMAIN queues[c] : queues[c][i].doc # d

\* The client has what the store has, of a document no change of which is under way.
InSync(c) ==
  \A d \in streams[c].query \ raced : Quiet(c, d) => views[c][d] = docs[d]

\* The stream's watcher is its own and has lost nothing.
Healthy(c) == watchers[streams[c].target] = c /\ c \notin lagging

\* A listener that began without a resume token has, when a document's changes
\* have reached it, that document as it is: however the snapshot fell among
\* the steps of the writes, also of writes that were under way when the
\* watcher was registered, and though older contents may be sent after newer
\* ones on the way.  Documents whose last changes overlapped are excepted, for
\* their events may be in the wrong order, and streams whose watcher was
\* replaced or lost an event.
ListenersConverge ==
  \A c \in Streams :
    streams[c].at = "listening" /\ ~streams[c].resumed /\ Healthy(c) => InSync(c)

-----------------------------------------------------------------------------
(* A statement of the documentation that the code does not keep            *)

\* "Clients reconnecting with valid token get incremental changes;
\* invalid/expired tokens fall back to full snapshot" (TODOS.md:24): a client
\* that resumes has, like one that begins, the documents as they are.
ResumeMissesNothing ==
  \A c \in Streams :
    streams[c].at = "listening" /\ streams[c].resumed /\ Healthy(c) => InSync(c)

=============================================================================
