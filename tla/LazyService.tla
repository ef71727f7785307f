---------------------------- MODULE LazyService -----------------------------
(***************************************************************************)
(* A Docker-orchestrated service: internal/orchestrator/lazy.go over the   *)
(* ContainerRuntime of internal/orchestrator/runtime.go.  It listens at    *)
(* once and starts its container when the first connection comes; one      *)
(* mutex lets one goroutine at a time do that, or the shutdown.            *)
(*                                                                         *)
(* Docker is outside: it keeps at most one container under the service's   *)
(* name, lets it become ready, lets it die, and may fail a call, with or   *)
(* without having done it.  Every call of the runtime is a step, and the   *)
(* client fails it when its context has ended.  An address is that of one  *)
(* container: each start of a container gets a port of its own.            *)
(***************************************************************************)
EXTENDS Naturals

CONSTANTS
  Conns,           \* client connections at a time
  Nobody,          \* the holder of a mutex that is free
  Loop,            \* the accept loop, which holds the mutex in shutdown
  NoContainer,     \* no container has the service's name
  MaxContainers,   \* bound: containers created
  MaxFaults        \* bound: Docker calls that fail and containers that die

ASSUME LazyAssumption ==
  /\ MaxContainers \in Nat /\ MaxFaults \in Nat
  /\ Nobody \notin Conns \cup {Loop} /\ Loop \notin Conns

Ids == 0..MaxContainers      \* container IDs; 0 is the empty string

Container == [id : Ids \ {0}, state : {"created", "running", "exited"}, ready : BOOLEAN]

ASSUME NoContainerAssumption == NoContainer \notin Container

\* Where a handler is in ensureContainer: inside s.mu, in the order of its calls.
Starting == {"find", "reuse", "discard", "pull", "create", "start", "undo",
             "port", "ready", "stop", "remove", "publish"}

\* A connection's handler: where it stands, the container it works on, and
\* whether the context had ended before it came there.
Handler == [at : Starting \cup {"none", "lock", "dial", "proxy"}, id : Ids, late : BOOLEAN]

VARIABLES
  cancelled,     \* whether the context Run hands to every service is cancelled
  container,     \* Docker's container of the service's name
  lastId,        \* the last container ID Docker gave
  faults,        \* Docker's failures so far
  started,       \* LazyService.started
  containerID,   \* LazyService.containerID
  hostAddr,      \* LazyService.hostAddr
  mu,            \* who holds LazyService.mu
  conns,         \* the connection handlers
  loop           \* Start: its listener, its accept loop and its shutdown

dockerVars == <<container, lastId, faults>>
lazyVars == <<started, containerID, hostAddr>>
lazyServiceVars == <<dockerVars, lazyVars, mu, conns, loop>>

NoConn == [at |-> "none", id |-> 0, late |-> FALSE]

\* A process that has not begun.
Fresh ==
  /\ started = FALSE /\ containerID = 0 /\ hostAddr = 0
  /\ mu = Nobody
  /\ conns = [c \in Conns |-> NoConn]
  /\ loop = "off"

LazyInit ==
  /\ container = NoContainer /\ lastId = 0 /\ faults = 0
  /\ Fresh

-----------------------------------------------------------------------------
(* Docker                                                                  *)

Here(id) == container # NoContainer /\ container.id = id

Running(id) == Here(id) /\ container.state = "running"

BecomesReady ==
  /\ container # NoContainer
  /\ container.state = "running" /\ ~container.ready
  /\ container' = [container EXCEPT !.ready = TRUE]
  /\ UNCHANGED <<lastId, faults, lazyVars, mu, conns, loop, cancelled>>

Dies ==
  /\ faults < MaxFaults
  /\ container # NoContainer /\ container.state = "running"
  /\ container' = [container EXCEPT !.state = "exited", !.ready = FALSE]
  /\ faults' = faults + 1
  /\ UNCHANGED <<lastId, lazyVars, mu, conns, loop, cancelled>>

\* How a call ends for its caller, who may have come to it after the context
\* had ended: then it is not made.  One that is made may be done and fail all
\* the same, because Docker failed or because the context ended meanwhile.
Made(late) == ~late /\ UNCHANGED faults

Fails(late) ==
  \/ (late \/ cancelled) /\ UNCHANGED faults
  \/ faults < MaxFaults /\ faults' = faults + 1

\* What a failing call may leave of what it was to do.
OrNothing(late, Effect) == (~late /\ Effect) \/ UNCHANGED <<container, lastId>>

DoCreate ==
  /\ container = NoContainer
  /\ lastId < MaxContainers
  /\ lastId' = lastId + 1
  /\ container' = [id |-> lastId', state |-> "created", ready |-> FALSE]

DoStart(id) ==
  /\ Here(id)
  /\ container' = [container EXCEPT !.state = "running", !.ready = FALSE]
  /\ UNCHANGED lastId

DoStop(id) ==
  /\ Here(id)
  /\ container' = [container EXCEPT !.state = "exited", !.ready = FALSE]
  /\ UNCHANGED lastId

DoRemove(id) ==
  /\ Here(id)
  /\ container' = NoContainer
  /\ UNCHANGED lastId

-----------------------------------------------------------------------------
(* ensureContainer                                                         *)

Moves(c, at, id) == conns' = [conns EXCEPT ![c] = [at |-> at, id |-> id, late |-> cancelled]]

\* The next call of ensureContainer, under the mutex.
Goes(c, at) == Moves(c, at, conns[c].id) /\ UNCHANGED <<lazyVars, mu>>

\* It returns an error: the deferred unlock, and the connection is closed.
GivesUp(c) ==
  /\ conns' = [conns EXCEPT ![c] = NoConn]
  /\ mu' = Nobody
  /\ UNCHANGED lazyVars

\* It returns the address of the container the service now has.
Publishes(c) ==
  /\ containerID' = conns[c].id /\ hostAddr' = conns[c].id /\ started' = TRUE
  /\ mu' = Nobody
  /\ Moves(c, "dial", conns[c].id)

Accept(c) ==
  /\ loop = "listening"
  /\ conns[c].at = "none"
  /\ Moves(c, "lock", 0)
  /\ UNCHANGED <<dockerVars, lazyVars, mu, loop, cancelled>>

\* A defective ensureContainer: a container is looked for on every connection.
LockAlways(c) ==
  /\ conns[c].at = "lock" /\ mu = Nobody
  /\ Moves(c, "find", 0) /\ mu' = c
  /\ UNCHANGED <<dockerVars, lazyVars, loop, cancelled>>

\* The mutex is taken; when the service has a container that is all.
Lock(c) ==
  /\ conns[c].at = "lock" /\ mu = Nobody
  /\ IF started THEN Moves(c, "dial", hostAddr) /\ UNCHANGED mu
                ELSE Moves(c, "find", 0) /\ mu' = c
  /\ UNCHANGED <<dockerVars, lazyVars, loop, cancelled>>

FindExisting(c) ==
  LET late == conns[c].late IN
  /\ conns[c].at = "find"
  /\ \/ container # NoContainer /\ Made(late)
        /\ Moves(c, IF container.state = "running" THEN "reuse" ELSE "discard", container.id)
     \/ ((container = NoContainer /\ Made(late)) \/ Fails(late)) /\ Moves(c, "pull", 0)
  /\ UNCHANGED <<container, lastId, lazyVars, mu, loop, cancelled>>

\* A container of an earlier session runs: its port is asked for and it is used
\* as it is.
Reuse(c) ==
  LET h == conns[c] IN
  /\ h.at = "reuse"
  /\ \/ Running(h.id) /\ Made(h.late) /\ Publishes(c)
     \/ ((~Running(h.id) /\ Made(h.late)) \/ Fails(h.late)) /\ Goes(c, "discard")
  /\ UNCHANGED <<container, lastId, loop, cancelled>>

\* Whether it worked is not looked at.
Discard(c) ==
  LET h == conns[c] IN
  /\ h.at = "discard"
  /\ \/ Made(h.late) /\ DoRemove(h.id)
     \/ Fails(h.late) /\ OrNothing(h.late, DoRemove(h.id))
  /\ Goes(c, "pull")
  /\ UNCHANGED <<loop, cancelled>>

\* A defective ensureContainer: the error of Pull leaves the mutex locked.
PullKeepsLock(c) ==
  LET h == conns[c] IN
  /\ h.at = "pull"
  /\ \/ Made(h.late) /\ Goes(c, "create")
     \/ Fails(h.late) /\ conns' = [conns EXCEPT ![c] = NoConn] /\ UNCHANGED <<lazyVars, mu>>
  /\ UNCHANGED <<container, lastId, loop, cancelled>>

Pull(c) ==
  LET h == conns[c] IN
  /\ h.at = "pull"
  /\ \/ Made(h.late) /\ Goes(c, "create")
     \/ Fails(h.late) /\ GivesUp(c)
  /\ UNCHANGED <<container, lastId, loop, cancelled>>

\* Docker refuses a name that is taken.  A Create that fails though it was done
\* leaves a container nobody has the ID of.
Create(c) ==
  LET h == conns[c] IN
  /\ h.at = "create"
  /\ \/ /\ Made(h.late) /\ DoCreate
        /\ containerID' = lastId'
        /\ Moves(c, "start", lastId')
        /\ UNCHANGED <<started, hostAddr, mu>>
     \/ /\ container # NoContainer /\ Made(h.late)
        /\ UNCHANGED <<container, lastId>>
        /\ GivesUp(c)
     \/ Fails(h.late) /\ OrNothing(h.late, DoCreate) /\ GivesUp(c)
  /\ UNCHANGED <<loop, cancelled>>

StartContainer(c) ==
  LET h == conns[c] IN
  /\ h.at = "start"
  /\ \/ Made(h.late) /\ DoStart(h.id) /\ Goes(c, "port")
     \/ Fails(h.late) /\ OrNothing(h.late, DoStart(h.id)) /\ Goes(c, "undo")
  /\ UNCHANGED <<loop, cancelled>>

\* The calls that clean up take the same context; their errors are ignored.
CleansUp(c, at, Effect) ==
  /\ conns[c].at = at
  /\ \/ Made(conns[c].late) /\ Effect
     \/ Fails(conns[c].late) /\ OrNothing(conns[c].late, Effect)
  /\ UNCHANGED <<loop, cancelled>>

Undo(c) == CleansUp(c, "undo", DoRemove(conns[c].id)) /\ GivesUp(c)

StopContainer(c) == CleansUp(c, "stop", DoStop(conns[c].id)) /\ Goes(c, "remove")

RemoveContainer(c) == CleansUp(c, "remove", DoRemove(conns[c].id)) /\ GivesUp(c)

\* A defective start: the port is known, so the container is taken to be ready.
HostPortIsReady(c) ==
  LET h == conns[c] IN
  /\ h.at = "port"
  /\ \/ Running(h.id) /\ Made(h.late) /\ Goes(c, "publish")
     \/ ((~Running(h.id) /\ Made(h.late)) \/ Fails(h.late)) /\ Goes(c, "stop")
  /\ UNCHANGED <<container, lastId, loop, cancelled>>

\* A container that is not running has no port.
HostPort(c) ==
  LET h == conns[c] IN
  /\ h.at = "port"
  /\ \/ Running(h.id) /\ Made(h.late) /\ Goes(c, "ready")
     \/ ((~Running(h.id) /\ Made(h.late)) \/ Fails(h.late)) /\ Goes(c, "stop")
  /\ UNCHANGED <<container, lastId, loop, cancelled>>

\* waitForReady looks at the context, then tries the port; it tries for a while.
WaitForReady(c) ==
  LET h == conns[c] IN
  /\ h.at = "ready"
  /\ \/ Running(h.id) /\ container.ready /\ ~cancelled /\ Goes(c, "publish") /\ UNCHANGED faults
     \/ ((~Running(h.id) /\ UNCHANGED faults) \/ Fails(FALSE)) /\ Goes(c, "stop")
  /\ UNCHANGED <<container, lastId, loop, cancelled>>

Publish(c) ==
  /\ conns[c].at = "publish"
  /\ Publishes(c)
  /\ UNCHANGED <<dockerVars, loop, cancelled>>

\* The rest of handleConn: the container's port takes the connection, and both
\* ends are copied until they close.
Dial(c) ==
  /\ conns[c].at = "dial"
  /\ IF Running(conns[c].id) THEN Moves(c, "proxy", conns[c].id)
                             ELSE conns' = [conns EXCEPT ![c] = NoConn]
  /\ UNCHANGED <<dockerVars, lazyVars, mu, loop, cancelled>>

Close(c) ==
  /\ conns[c].at = "proxy"
  /\ conns' = [conns EXCEPT ![c] = NoConn]
  /\ UNCHANGED <<dockerVars, lazyVars, mu, loop, cancelled>>

\* What a handler does of itself; how long a client keeps its connection is its
\* own affair.
HandlerStep(c) ==
  \/ FindExisting(c) \/ Reuse(c) \/ Discard(c) \/ Pull(c) \/ Create(c)
  \/ StartContainer(c) \/ Undo(c) \/ HostPort(c) \/ WaitForReady(c)
  \/ StopContainer(c) \/ RemoveContainer(c) \/ Publish(c) \/ Dial(c)

-----------------------------------------------------------------------------
(* The accept loop                                                         *)

Bind ==
  /\ loop = "off"
  /\ loop' = "listening"
  /\ UNCHANGED <<dockerVars, lazyVars, mu, conns, cancelled>>

\* The context is cancelled, the listener closed, and Accept fails.
StopsAccepting ==
  /\ loop = "listening" /\ cancelled
  /\ loop' = "closed"
  /\ UNCHANGED <<dockerVars, lazyVars, mu, conns, cancelled>>

\* A defective shutdown: it does not wait for a handler that has the mutex.
ShutdownUnlocked ==
  /\ loop = "closed"
  /\ IF started THEN loop' = "stop" /\ mu' = Loop ELSE loop' = "done" /\ UNCHANGED mu
  /\ UNCHANGED <<dockerVars, lazyVars, conns, cancelled>>

Shutdown ==
  /\ loop = "closed" /\ mu = Nobody
  /\ IF started THEN loop' = "stop" /\ mu' = Loop ELSE loop' = "done" /\ UNCHANGED mu
  /\ UNCHANGED <<dockerVars, lazyVars, conns, cancelled>>

\* Its calls have a context of their own and a timeout; errors are ignored.
ShutdownStop ==
  /\ loop = "stop"
  /\ \/ (IF Here(containerID) THEN DoStop(containerID) ELSE UNCHANGED <<container, lastId>>)
        /\ UNCHANGED faults
     \/ faults < MaxFaults /\ faults' = faults + 1 /\ OrNothing(FALSE, DoStop(containerID))
  /\ loop' = "remove"
  /\ UNCHANGED <<lazyVars, mu, conns, cancelled>>

ShutdownRemove ==
  /\ loop = "remove"
  /\ \/ (IF Here(containerID) THEN DoRemove(containerID) ELSE UNCHANGED <<container, lastId>>)
        /\ UNCHANGED faults
     \/ faults < MaxFaults /\ faults' = faults + 1 /\ OrNothing(FALSE, DoRemove(containerID))
  /\ loop' = "done"
  /\ started' = FALSE
  /\ mu' = Nobody
  /\ UNCHANGED <<containerID, hostAddr, conns, cancelled>>

LoopStep == StopsAccepting \/ Shutdown \/ ShutdownStop \/ ShutdownRemove

-----------------------------------------------------------------------------
(* Properties                                                              *)

LazyTypeOK ==
  /\ container \in Container \cup {NoContainer}
  /\ lastId \in Ids
  /\ faults \in 0..MaxFaults
  /\ started \in BOOLEAN /\ containerID \in Ids /\ hostAddr \in Ids
  /\ mu \in Conns \cup {Nobody, Loop}
  /\ conns \in [Conns -> Handler]
  /\ loop \in {"off", "listening", "closed", "stop", "remove", "done", "failed"}
  /\ cancelled \in BOOLEAN
=============================================================================
