--------------------------- MODULE FirestoreStore ---------------------------
(***************************************************************************)
(* The document store of the Firestore emulator: the writes of             *)
(* internal/firestore/store.go, the file, and the log of recent changes.   *)
(*                                                                         *)
(* A write is made in steps that other calls may come between: the         *)
(* document is changed under the store's mutex; the file is written with   *)
(* no lock at all, from the map as the iteration finds it; the change gets *)
(* its sequence number from an atomic counter; and under a second mutex it *)
(* is logged and sent to the watchers.  The last of these steps is         *)
(* completed by the module that extends this one.                          *)
(*                                                                         *)
(* The content of a document is named by the number of the write that gave *)
(* it, 0 stands for no document.                                           *)
(***************************************************************************)
EXTENDS Integers, Sequences

CONSTANTS
  Docs,      \* document names
  Calls,     \* the write requests that may be served at a time
  Commits,   \* the lists of writes of the Commit requests
  LogSize,   \* changeLogSize
  Empty,     \* state.json has been truncated, or there is none
  Garbage,   \* state.json holds a mixture of two writes
  DataDir,   \* whether a data directory is configured
  MaxWrites, \* bound: changes made to documents
  MaxCrashes \* bound: restarts of the process

NoDoc == 0

Contents == 0..MaxWrites

Write == [doc : Docs, del : BOOLEAN]

ASSUME StoreAssumption ==
  /\ {MaxWrites, MaxCrashes} \subseteq Nat /\ LogSize \in Nat \ {0}
  /\ DataDir \in BOOLEAN
  /\ Docs # {} /\ Commits \subseteq Seq(Write)
  /\ Empty # Garbage /\ {Empty, Garbage} \cap [Docs -> Contents] = {}

VARIABLES
  docs,      \* Store.docs: document -> content
  file,      \* state.json
  calls,     \* the write requests being served
  seq,       \* Store.seq
  changeLog, \* Store.changeLog, oldest first
  written,   \* changes made so far
  raced,     \* history: documents whose last change was made during another one's
  mixed,     \* history: the last change was made while a call was at the file
  crashes    \* restarts so far

storeVars == <<docs, file, calls, seq, changeLog, written, raced, mixed, crashes>>

-----------------------------------------------------------------------------
NoDocs == [d \in Docs |-> NoDoc]

\* A request that is served: the writes it still has to make, the change it
\* is making, what its iteration may have seen of each document, and the
\* sequence number of its change.
Call == [at : {"idle", "apply", "scan", "file", "number", "notify"},
         todo : Seq(Write), doc : Docs, val : Contents,
         seen : [Docs -> SUBSET Contents], seq : Nat]

Idle == [at |-> "idle", todo |-> <<>>, doc |-> CHOOSE d \in Docs : TRUE,
         val |-> NoDoc, seen |-> [d \in Docs |-> {}], seq |-> 0]

\* The change of call c is made and not yet sent to the watchers.
Pending(c) == calls[c].at \in {"scan", "file", "number", "notify"}

AtFile(c) == calls[c].at \in {"scan", "file"}

\* What load() makes of a file.
Loaded(f) == IF f \in {Empty, Garbage} THEN NoDocs ELSE f

InitStore ==
  /\ docs = NoDocs
  /\ file = Empty
  /\ calls = [c \in Calls |-> Idle]
  /\ seq = 0
  /\ changeLog = <<>>
  /\ written = 0
  /\ raced = {} /\ mixed = FALSE
  /\ crashes = 0

-----------------------------------------------------------------------------
(* Changing a document                                                     *)

\* Variant: a deletion is not written to disk.
AfterChangeUnflushed(v) == IF DataDir /\ v # NoDoc THEN "scan" ELSE "number"

AfterChange(v) == IF DataDir THEN "scan" ELSE "number"

\* An iteration that has begun may or may not have passed the document.
SeenByOthers(c, d, v) ==
  IF calls[c].at = "scan" THEN [calls[c] EXCEPT !.seen[d] = @ \cup {v}] ELSE calls[c]

\* Call c gives document d the content v and has the writes "rest" to do.
Change(c, d, v, rest) ==
  /\ written < MaxWrites
  /\ written' = written + 1
  /\ docs' = [docs EXCEPT ![d] = v]
  /\ calls' = [k \in Calls |->
        IF k = c
        THEN [at |-> AfterChange(v), todo |-> rest, doc |-> d, val |-> v,
              seen |-> [e \in Docs |-> {docs'[e]}], seq |-> 0]
        ELSE SeenByOthers(k, d, v)]
  /\ raced' = IF \E k \in Calls \ {c} : Pending(k) /\ calls[k].doc = d
              THEN raced \cup {d} ELSE raced \ {d}
  /\ mixed' = \E k \in Calls \ {c} : AtFile(k)
  /\ UNCHANGED <<file, seq, changeLog, crashes>>

CreateDocument(c, d) ==
  /\ calls[c].at = "idle"
  /\ docs[d] = NoDoc
  /\ Change(c, d, written + 1, <<>>)

\* Replaces the document, merges fields into it, or creates it.
UpdateDocument(c, d) ==
  /\ calls[c].at = "idle"
  /\ Change(c, d, written + 1, <<>>)

DeleteDocument(c, d) ==
  /\ calls[c].at = "idle"
  /\ docs[d] # NoDoc
  /\ Change(c, d, NoDoc, <<>>)

-----------------------------------------------------------------------------
(* Commit: one write after the other, each with its file and its watchers. *)

\* The state of a call with the writes "ws" to make and nothing else to do.
Doing(ws) == IF ws = <<>> THEN Idle ELSE [Idle EXCEPT !.at = "apply", !.todo = ws]

Commit(c, ws) ==
  /\ calls[c].at = "idle" /\ ws # <<>>
  /\ calls' = [calls EXCEPT ![c] = Doing(ws)]
  /\ UNCHANGED <<docs, file, seq, changeLog, written, raced, mixed, crashes>>

\* Deleting a document that does not exist changes and announces nothing.
applyWrite(c) ==
  LET w    == Head(calls[c].todo)
      rest == Tail(calls[c].todo)
  IN  /\ calls[c].at = "apply"
      /\ IF w.del /\ docs[w.doc] = NoDoc
         THEN /\ calls' = [calls EXCEPT ![c] = Doing(rest)]
              /\ UNCHANGED <<docs, file, seq, changeLog, written, raced, mixed, crashes>>
         ELSE Change(c, w.doc, IF w.del THEN NoDoc ELSE written + 1, rest)

-----------------------------------------------------------------------------
(* The file                                                                *)

\* The iteration is over; os.WriteFile truncates the file.  Of a document that
\* was changed meanwhile the iteration has any of the contents.
PersistOpen(c) ==
  /\ calls[c].at = "scan"
  /\ \E image \in [Docs -> Contents] :
       /\ \A d \in Docs : image[d] \in calls[c].seen[d]
       /\ calls' = [calls EXCEPT ![c].at = "file", ![c].seen = [d \in Docs |-> {image[d]}]]
  /\ file' = Empty
  /\ UNCHANGED <<docs, seq, changeLog, written, raced, mixed, crashes>>

\* os.WriteFile writes from the start of the file.  When another call has
\* written it since it was truncated, the rest of a longer text stays.
PersistWrite(c) ==
  LET image == [d \in Docs |-> CHOOSE v \in calls[c].seen[d] : TRUE]
  IN  /\ calls[c].at = "file"
      /\ \/ file' = image
         \/ file \notin {Empty, image} /\ file' = Garbage
      /\ calls' = [calls EXCEPT ![c].at = "number", ![c].seen = Idle.seen]
      /\ UNCHANGED <<docs, seq, changeLog, written, raced, mixed, crashes>>

-----------------------------------------------------------------------------
(* Announcing the change                                                   *)

\* Variant: the number after the last logged one, not an atomic counter.
NumberByLog(c) ==
  /\ calls[c].at = "number"
  /\ seq' = IF changeLog = <<>> THEN 1 ELSE changeLog[Len(changeLog)].seq + 1
  /\ calls' = [calls EXCEPT ![c].at = "notify", ![c].seq = seq']
  /\ UNCHANGED <<docs, file, changeLog, written, raced, mixed, crashes>>

Number(c) ==
  /\ calls[c].at = "number"
  /\ seq' = seq + 1
  /\ calls' = [calls EXCEPT ![c].at = "notify", ![c].seq = seq']
  /\ UNCHANGED <<docs, file, changeLog, written, raced, mixed, crashes>>

Event(c) == [doc |-> calls[c].doc, val |-> calls[c].val, seq |-> calls[c].seq]

\* Variant: the ring grows.
LoggedUnbounded(e) == Append(changeLog, e)

\* The ring buffer with one more event.
Logged(e) ==
  IF Len(changeLog) < LogSize THEN Append(changeLog, e) ELSE Append(Tail(changeLog), e)

\* The part of notifyWatchers that is about the log; the call goes on.
LogChange(c) ==
  /\ calls[c].at = "notify"
  /\ changeLog' = Logged(Event(c))
  /\ calls' = [calls EXCEPT ![c] = Doing(calls[c].todo)]
  /\ UNCHANGED <<docs, file, seq, written, raced, mixed, crashes>>

-----------------------------------------------------------------------------
\* A new process: the log is empty and sequence numbers start again.  A crash
\* may come anywhere, also between the two halves of os.WriteFile; the runtime
\* itself ends the process when it notices a map that is written during an
\* iteration.
RestartStore ==
  /\ crashes < MaxCrashes
  /\ crashes' = crashes + 1
  /\ docs' = IF DataDir THEN Loaded(file) ELSE NoDocs
  /\ calls' = [c \in Calls |-> Idle]
  /\ seq' = 0
  /\ changeLog' = <<>>
  /\ raced' = {} /\ mixed' = FALSE
  /\ UNCHANGED <<file, written>>

\* The steps of a call between its first and its last.
CallStep(c) == applyWrite(c) \/ PersistOpen(c) \/ PersistWrite(c) \/ Number(c)

RequestNext ==
  \/ \E c \in Calls, d \in Docs :
       CreateDocument(c, d) \/ UpdateDocument(c, d) \/ DeleteDocument(c, d)
  \/ \E c \in Calls, ws \in Commits : Commit(c, ws)

-----------------------------------------------------------------------------
(* Properties                                                              *)

ChangeEvent == [doc : Docs, val : Contents, seq : Nat]

StoreTypeOK ==
  /\ docs \in [Docs -> Contents]
  /\ file \in [Docs -> Contents] \cup {Empty, Garbage}
  /\ calls \in [Calls -> Call]
  /\ seq \in Nat
  /\ changeLog \in Seq(ChangeEvent) /\ Len(changeLog) <= LogSize
  /\ written \in Contents
  /\ raced \subseteq Docs /\ mixed \in BOOLEAN
  /\ crashes \in 0..MaxCrashes

\* When no call is at the file and the last change was made while no other
\* call was, the file holds the documents: a call that runs alone also repairs
\* what earlier ones left.
FlushedWhenAlone ==
  DataDir /\ ~mixed /\ (\A c \in Calls : ~AtFile(c)) => Loaded(file) = docs

\* The calls between Number and LogChange, and the numbers they and the log have.
Announcing == {c \in Calls : calls[c].at = "notify"}

WaitingNumbers == {calls[c].seq : c \in Announcing}

LoggedNumbers == {changeLog[i].seq : i \in DOMAIN changeLog}

\* The sequence numbers of the log and of the calls that announce a change are
\* all different and none is above the counter, and the log has no gap that is
\* not in a call: every number that is in neither was evicted, after LogSize
\* others.
SequenceNumbers ==
  /\ LoggedNumbers \cup WaitingNumbers \subseteq 1..seq
  /\ \A i, j \in DOMAIN changeLog : i # j => changeLog[i].seq # changeLog[j].seq
  /\ \A c, k \in Announcing : c # k => calls[c].seq # calls[k].seq
  /\ LoggedNumbers \cap WaitingNumbers = {}
  /\ Len(changeLog) < LogSize => 1..seq \subseteq LoggedNumbers \cup WaitingNumbers

=============================================================================
