----------------------------- MODULE TaskQueues -----------------------------
(***************************************************************************)
(* What the Cloud Tasks emulator promises its clients: a task is kept in   *)
(* its queue until it is deleted, a request made under its name has been   *)
(* accepted, or one has been refused after all requests that its queue     *)
(* allows.  When requests are made, backoffs, generated names and the file *)
(* change nothing of this; a restart forgets requests that it counted, and *)
(* without a data directory everything.  Removals, answers and ends of the *)
(* process come from outside: no step takes a task without being told.     *)
(***************************************************************************)
EXTENDS Naturals, Functions

CONSTANTS
  Queues,    \* queue names
  TaskNames, \* task names
  NoQueue,   \* a name that is not taken
  DataDir    \* whether a data directory is configured

VARIABLES
  queues,    \* the queues there are, each with its limit maxAttempts
  held,      \* the tasks of a queue, by name: serial number and requests made
  requests,  \* the requests that are not answered
  last,      \* the last serial number given
  event      \* what the last step was told: a removal, an answer, an end

vars == <<queues, held, requests, last, event>>

Nothing == [n \in {} |-> 0]

Open(q) == queues[q] # NoQueue

Left(q, gone) == [held EXCEPT ![q] = Restrict(@, DOMAIN @ \ gone)]

Init ==
  /\ queues = [q \in Queues |-> NoQueue]
  /\ held = [q \in Queues |-> Nothing]
  /\ requests = {}
  /\ last = 0
  /\ event = "none"

\* A queue begins with no task.
OpenQueue(q) ==
  /\ ~Open(q) /\ queues'[q] # NoQueue
  /\ queues' = [queues EXCEPT ![q] = queues'[q]]
  /\ held[q] = Nothing
  /\ event' = "none"
  /\ UNCHANGED <<held, requests, last>>

CloseQueue(q) ==
  /\ Open(q)
  /\ queues' = [queues EXCEPT ![q] = NoQueue]
  /\ held' = [held EXCEPT ![q] = Nothing]
  /\ event' = "removal"
  /\ UNCHANGED <<requests, last>>

Purge(q) ==
  /\ Open(q)
  /\ held' = [held EXCEPT ![q] = Nothing]
  /\ event' = "removal"
  /\ UNCHANGED <<queues, requests, last>>

Add(q, n) ==
  /\ Open(q) /\ n \notin DOMAIN held[q]
  /\ last' = last + 1
  /\ held' = [held EXCEPT ![q] =
       [m \in DOMAIN @ \cup {n} |-> IF m = n THEN [uid |-> last', count |-> 0] ELSE @[m]]]
  /\ event' = "none"
  /\ UNCHANGED <<queues, requests>>

Delete(q, n) ==
  /\ n \in DOMAIN held[q]
  /\ held' = Left(q, {n})
  /\ event' = "removal"
  /\ UNCHANGED <<queues, requests, last>>

\* Requests are made for some tasks, which all have one left.
Sends(due) ==
  /\ \A qn \in due : held[qn[1]][qn[2]].count < queues[qn[1]].maxAttempts
  /\ held' = [q \in Queues |-> [n \in DOMAIN held[q] |->
       IF <<q, n>> \in due THEN [held[q][n] EXCEPT !.count = @ + 1] ELSE held[q][n]]]
  /\ requests' = requests \cup
       {[queue |-> qn[1], name |-> qn[2], uid |-> held'[qn[1]][qn[2]].uid,
         count |-> held'[qn[1]][qn[2]].count] : qn \in due}
  /\ event' = "none"
  /\ UNCHANGED <<queues, last>>

\* The task of the request's name goes.
Accepted(r) ==
  /\ held' = Left(r.queue, {r.name})
  /\ requests' = requests \ {r}
  /\ event' = "accepted"
  /\ UNCHANGED <<queues, last>>

\* It stays if it has a request left.
Refused(r) ==
  /\ held' = Left(r.queue, {n \in DOMAIN held[r.queue] \cap {r.name} :
                              held[r.queue][n].count >= queues[r.queue].maxAttempts})
  /\ requests' = requests \ {r}
  /\ event' = "refused"
  /\ UNCHANGED <<queues, last>>

\* Calls that are refused, and the passing of time.
Work ==
  /\ event' = "none"
  /\ UNCHANGED <<queues, held, requests, last>>

\* Every task stays, perhaps with fewer requests counted.
Remembered ==
  /\ \A q \in Queues : DOMAIN held'[q] = DOMAIN held[q]
  /\ held' = [q \in Queues |-> [n \in DOMAIN held[q] |->
       [held[q][n] EXCEPT !.count = held'[q][n].count]]]
  /\ \A q \in Queues : \A n \in DOMAIN held[q] : held'[q][n].count <= held[q][n].count
  /\ UNCHANGED queues

Lost ==
  /\ queues' = [q \in Queues |-> NoQueue]
  /\ held' = [q \in Queues |-> Nothing]

\* The process ends and another one takes over.
Restart ==
  /\ event' = "restart"
  /\ IF DataDir THEN Remembered ELSE Lost
  /\ requests' = {} /\ UNCHANGED last

\* What is not promised: the process ended inside the writing of the file.
Torn ==
  /\ DataDir
  /\ event' = "torn"
  /\ Lost
  /\ requests' = {} /\ UNCHANGED last

Next ==
  \/ \E q \in Queues : OpenQueue(q) \/ CloseQueue(q) \/ Purge(q)
  \/ \E q \in Queues, n \in TaskNames : Add(q, n) \/ Delete(q, n)
  \/ \E due \in SUBSET {qn \in Queues \X TaskNames : qn[2] \in DOMAIN held[qn[1]]} : Sends(due)
  \/ \E r \in requests : Accepted(r) \/ Refused(r)
  \/ Work \/ Restart \/ Torn

Spec == Init /\ [][Next]_vars
=============================================================================
