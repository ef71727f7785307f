---------------------------- MODULE ServerProofs ----------------------------
(* Safety of the server and its Docker-orchestrated service, for any number of *)
(* connections, services, containers, failures and processes.                  *)
EXTENDS Server, TLAPS

-----------------------------------------------------------------------------
\* The flag, the address and the accept loop: the service has an address from
\* when it is started until the shutdown is done.
Flags ==
  /\ run = "off" => Fresh /\ ~cancelled
  /\ started => hostAddr # 0 /\ containerID = hostAddr
  /\ hostAddr # 0 => started \/ loop = "done"
  /\ loop \in {"closed", "stop", "remove", "done"} => cancelled
  /\ loop \in {"stop", "remove"} => started
  /\ loop = "done" => ~started

\* A handler starts a container while there is none, in the end in vain, and
\* sends its client to the only address there is.
HandlerFlags(c) ==
  /\ conns[c].late => cancelled
  /\ conns[c].at \in Starting => ~started
  /\ conns[c].at \in Starting /\ loop = "done" =>
       conns[c].at \in {"find", "pull"} /\ conns[c].late
  /\ conns[c].at \in {"dial", "proxy"} => conns[c].id = hostAddr /\ hostAddr # 0

\* Where ensureContainer has a container of its own making.
Owner == {"start", "undo", "port", "ready", "stop", "remove", "publish"}

\* What a handler knows of it, and how many failures have led it to clean up.
Owned(c) ==
  LET h == conns[c] IN
  /\ h.at \in Owner => Here(h.id)
  /\ h.at = "publish" => (container.state = "running" => container.ready)
  /\ h.at \in {"port", "ready"} => container.state = "running" \/ faults > 0
  /\ h.at \in {"undo", "stop"} => h.late \/ faults > 0
  /\ h.at = "remove" => container.state # "running" \/ h.late \/ faults > 1

ServedReady ==
  hostAddr # 0 /\ Running(hostAddr) =>
    container.ready \/ hostAddr <= before \/ faults > 1

\* A running container is left from before, or the one that serves, or some
\* handler's; or Docker failed twice; or nobody can find it any more.
Accounted ==
  Alive /\ container # NoContainer =>
    \/ container.state # "running" \/ container.id <= before \/ container.id = hostAddr
    \/ \E c \in Conns : conns[c].at \in Owner
    \/ faults > 1
    \/ cancelled /\ \A c \in Conns : conns[c].at \in Starting => conns[c].late

Dated == container # NoContainer => container.id <= lastId

Inv ==
  /\ TypeOK /\ Flags /\ Dated /\ ServedReady /\ Accounted
  /\ \A c \in Conns : HandlerFlags(c) /\ Owned(c)

-----------------------------------------------------------------------------
(* Handlers that have the mutex                                            *)

\* One handler at a time is in ensureContainer, and there is no address then.
LEMMA Alone ==
  ASSUME Inv, NEW c \in Conns, conns[c].at \in Starting
  PROVE  /\ mu = c /\ ~started
         /\ \A d \in Conns \ {c} : conns[d].at \notin Starting
         /\ loop \notin {"stop", "remove"}
         /\ loop # "done" => hostAddr = 0
         /\ loop # "done" => \A d \in Conns : conns[d].at \notin {"dial", "proxy"}
         /\ Alive
<1>1. mu = c /\ \A d \in Conns \ {c} : conns[d].at \notin Starting
  BY DEF Inv, TypeOK
<1>2. loop \notin {"stop", "remove"}
  BY <1>1, LazyAssumption DEF Inv, TypeOK
<1>3. ~started
  BY DEF Inv, HandlerFlags
<1>4. loop # "done" => hostAddr = 0
  BY <1>3 DEF Inv, Flags
<1>5. Alive
  BY DEF Inv, Flags, Fresh, Alive, NoConn, Starting
<1> QED BY <1>1, <1>2, <1>3, <1>4, <1>5 DEF Inv, HandlerFlags

\* What Docker may do in one call.
DockerTyped ==
  /\ container' \in Container \cup {NoContainer}
  /\ lastId' \in Ids /\ faults' \in 0..MaxFaults
  /\ faults <= faults' /\ Dated'

\* The handler goes on to its next call.
LEMMA Works ==
  ASSUME Inv, NEW c \in Conns, NEW to \in Handler,
         conns[c].at \in Starting, to.at \in Starting,
         conns' = [conns EXCEPT ![c] = to], to.late = cancelled,
         loop = "done" => to.at \in {"find", "pull"},
         UNCHANGED <<serverVars, cancelled, started, hostAddr, mu, loop>>,
         containerID' \in Ids, DockerTyped,
         Owned(c)', to.at \notin Owner => Accounted',
         loop = "done" => UNCHANGED container
  PROVE  Inv'
<1>1. /\ conns' \in [Conns -> Handler] /\ conns'[c] = to
      /\ \A d \in Conns \ {c} : conns'[d] = conns[d]
  BY DEF Inv, TypeOK, LazyTypeOK
<1>2. TypeOK'
  BY <1>1 DEF Inv, TypeOK, LazyTypeOK, DockerTyped, serverVars
<1>3. Flags'
  BY Alone DEF Inv, Flags, Fresh, Alive, serverVars
<1>4. ServedReady'
  <2>1. CASE loop = "done"
    BY <2>1 DEF Inv, ServedReady, DockerTyped, Running, Here, serverVars, TypeOK, LazyTypeOK
  <2>2. CASE loop # "done"
    BY <2>2, Alone DEF ServedReady
  <2> QED BY <2>1, <2>2
<1>5. Accounted'
  BY <1>1 DEF Accounted
<1>6. ASSUME NEW d \in Conns PROVE HandlerFlags(d)' /\ Owned(d)'
  <2>1. CASE d = c
    BY <1>1, <2>1, Alone DEF Inv, HandlerFlags, Starting
  <2>2. CASE d # c
    BY <1>1, <2>2, Alone DEF Inv, HandlerFlags, Owned, Owner, Starting
  <2> QED BY <2>1, <2>2
<1> QED BY <1>2, <1>3, <1>4, <1>5, <1>6 DEF Inv, DockerTyped

\* It returns an error.
LEMMA Leaves ==
  ASSUME Inv, NEW c \in Conns, conns[c].at \in Starting,
         conns' = [conns EXCEPT ![c] = NoConn], mu' = Nobody,
         UNCHANGED <<serverVars, cancelled, lazyVars, loop>>,
         DockerTyped, Accounted',
         loop = "done" => UNCHANGED container
  PROVE  Inv'
<1>1. /\ conns' \in [Conns -> Handler] /\ conns'[c] = NoConn
      /\ \A d \in Conns \ {c} : conns'[d] = conns[d]
      /\ NoConn.at = "none" /\ NoConn.late = FALSE
  BY LazyAssumption DEF Inv, TypeOK, LazyTypeOK, NoConn, Handler, Ids
<1>2. TypeOK'
  BY <1>1, Alone, LazyAssumption DEF Inv, TypeOK, LazyTypeOK, DockerTyped, serverVars, lazyVars, Starting
<1>3. Flags'
  BY Alone DEF Inv, Flags, Fresh, Alive, serverVars, lazyVars
<1>4. ServedReady'
  <2>1. CASE loop = "done"
    BY <2>1 DEF Inv, ServedReady, DockerTyped, Running, Here, serverVars, lazyVars, TypeOK, LazyTypeOK
  <2>2. CASE loop # "done"
    BY <2>2, Alone DEF ServedReady, lazyVars
  <2> QED BY <2>1, <2>2
<1>5. ASSUME NEW d \in Conns PROVE HandlerFlags(d)' /\ Owned(d)'
  <2>1. CASE d = c
    BY <1>1, <2>1 DEF HandlerFlags, Owned, Owner, Starting
  <2>2. CASE d # c
    BY <1>1, <2>2, Alone DEF Inv, HandlerFlags, Owned, Owner, Starting, lazyVars
  <2> QED BY <2>1, <2>2
<1> QED BY <1>2, <1>3, <1>4, <1>5 DEF Inv, DockerTyped

\* It has a container to send its client to.
LEMMA Serves ==
  ASSUME Inv, NEW c \in Conns, conns[c].at \in {"reuse", "publish"}, conns[c].id # 0,
         Publishes(c), faults' = faults,
         Running(conns[c].id) => container.ready \/ conns[c].id <= before \/ faults > 1,
         UNCHANGED <<serverVars, cancelled, container, lastId, loop>>
  PROVE  Inv'
<1>1. /\ conns' \in [Conns -> Handler]
      /\ conns'[c] = [at |-> "dial", id |-> conns[c].id, late |-> cancelled]
      /\ \A d \in Conns \ {c} : conns'[d] = conns[d]
  BY DEF Inv, TypeOK, LazyTypeOK, Handler, Publishes, Moves
<1>2. /\ loop # "done" /\ hostAddr = 0 /\ hostAddr' = conns[c].id
      /\ \A d \in Conns \ {c} : conns[d].at \notin Starting \cup {"dial", "proxy"}
  BY Alone DEF Inv, HandlerFlags, Starting, Publishes
<1>3. TypeOK'
  BY <1>1, <1>2, LazyAssumption, Alone DEF Inv, TypeOK, LazyTypeOK, Publishes, Handler, Starting, serverVars
<1>4. Flags'
  BY <1>2, Alone DEF Inv, Flags, Fresh, Alive, serverVars, Publishes, Starting
<1>5. ServedReady'
  BY <1>2 DEF ServedReady, Running, Here, serverVars
<1>6. ASSUME NEW d \in Conns PROVE HandlerFlags(d)' /\ Owned(d)'
  <2>1. CASE d = c
    BY <1>1, <1>2, <2>1 DEF Inv, HandlerFlags, Owned, Owner, Starting
  <2>2. CASE d # c
    BY <1>1, <1>2, <2>2 DEF Inv, HandlerFlags, Owned, Owner, Starting, Publishes
  <2> QED BY <2>1, <2>2
<1>7. Accounted'
  <2>1. CASE conns[c].at = "publish"
    BY <1>2, <2>1 DEF Inv, Owned, Owner, Here, Accounted
  <2>2. CASE conns[c].at = "reuse"
    <3>1. container # NoContainer => container.id # 0
      BY DEF Inv, TypeOK, LazyTypeOK, Container, Ids
    <3>2. \A d \in Conns : conns[d].at \notin Owner
      BY <1>2, <2>2 DEF Owner, Starting
    <3>3. \A d \in Conns : conns'[d].at \notin Starting
      BY <1>1, <1>2 DEF Starting
    <3> QED BY <1>2, <3>1, <3>2, <3>3 DEF Inv, Accounted, Alive, serverVars
  <2> QED BY <2>1, <2>2
<1> QED BY <1>3, <1>4, <1>5, <1>6, <1>7 DEF Inv, Dated

-----------------------------------------------------------------------------
(* The calls of ensureContainer                                            *)

LEMMA FailuresTyped ==
  ASSUME Inv, NEW late, Made(late) \/ Fails(late)
  PROVE  faults' \in 0..MaxFaults /\ faults <= faults'
BY LazyAssumption DEF Inv, TypeOK, LazyTypeOK, Made, Fails

\* A handler without a container of its own does not lose one, and one that
\* leaves a running container behind has a reason.
LEMMA StillAccounted ==
  ASSUME Inv, NEW c \in Conns, conns[c].at \in Starting, NEW to \in Handler,
         conns' = [conns EXCEPT ![c] = to],
         to.at \in Starting => to.late = cancelled,
         UNCHANGED <<serverVars, cancelled, hostAddr>>,
         faults' \in 0..MaxFaults, faults <= faults',
         \/ container' \in {c1 \in {container} : conns[c].at \notin Owner} \cup {NoContainer}
         \/ container' # NoContainer /\ container'.state # "running"
         \/ cancelled /\ to.at = "none"
         \/ faults' > 1
  PROVE  Accounted'
<1>1. /\ conns'[c] = to /\ \A d \in Conns \ {c} : conns'[d] = conns[d]
      /\ \A d \in Conns \ {c} : conns'[d].at \notin Starting
  BY Alone DEF Inv, TypeOK, LazyTypeOK
<1>2. CASE cancelled /\ to.at = "none"
  BY <1>1, <1>2 DEF Accounted, Starting
<1>3. CASE container' = container /\ conns[c].at \notin Owner
  <2>1. \A d \in Conns : conns[d].at \notin Owner
    BY <1>3, Alone DEF Owner, Starting
  <2>2. faults > 1 => faults' > 1
    BY DEF Inv, TypeOK, LazyTypeOK
  <2> QED BY <1>1, <1>3, <2>1, <2>2 DEF Inv, Accounted, Alive, serverVars
<1> QED BY <1>2, <1>3 DEF Accounted

LEMMA MovesTo ==
  ASSUME Inv, NEW c \in Conns, NEW id \in Ids,
         NEW at \in Starting \cup {"none", "lock", "dial", "proxy"}, Moves(c, at, id)
  PROVE  \E to \in Handler : /\ conns' = [conns EXCEPT ![c] = to]
                             /\ to.late = cancelled /\ to.at = at /\ to.id = id
<1> DEFINE to == [at |-> at, id |-> id, late |-> cancelled]
<1>1. to \in Handler
  BY DEF Inv, TypeOK, LazyTypeOK, Handler
<1> QED BY <1>1 DEF Moves

LEMMA GoesTo ==
  ASSUME Inv, NEW c \in Conns, NEW at \in Starting, Goes(c, at)
  PROVE  \E to \in Handler : /\ conns' = [conns EXCEPT ![c] = to]
                             /\ to.late = cancelled /\ to.at = at /\ to.id = conns[c].id
BY MovesTo DEF Goes, Inv, TypeOK, LazyTypeOK, Handler

LEMMA FindExistingKeeps ==
  ASSUME Inv, NEW c \in Conns, FindExisting(c), UNCHANGED serverVars
  PROVE  Inv'
<1>1. PICK to \in Handler :
        /\ conns' = [conns EXCEPT ![c] = to] /\ to.late = cancelled
        /\ to.at \in {"reuse", "discard", "pull"}
        /\ loop = "done" => to.at = "pull"
  BY LazyAssumption, NoContainerAssumption
     DEF Inv, TypeOK, LazyTypeOK, HandlerFlags, FindExisting, Moves, Made, Handler, Starting, Ids, Container
<1>2. DockerTyped
  BY FailuresTyped DEF Inv, TypeOK, LazyTypeOK, Dated, DockerTyped, FindExisting
<1>3. Owned(c)'
  BY <1>1 DEF Inv, TypeOK, LazyTypeOK, Owned, Owner
<1>4. Accounted'
  BY <1>1, <1>2, StillAccounted DEF FindExisting, Owner, Starting, DockerTyped, lazyVars
<1> QED BY <1>1, <1>2, <1>3, <1>4, Works DEF Inv, TypeOK, LazyTypeOK, FindExisting, lazyVars, Starting

LEMMA ReuseKeeps ==
  ASSUME Inv, NEW c \in Conns, Reuse(c), UNCHANGED serverVars
  PROVE  Inv'
<1>0. conns[c].at = "reuse" /\ conns[c].at \in Starting /\ conns[c].at \notin Owner /\ loop # "done"
  BY DEF Reuse, Starting, Owner, Inv, HandlerFlags
<1>1. CASE Running(conns[c].id) /\ Made(conns[c].late) /\ Publishes(c)
  <2>1. container.id = conns[c].id /\ container # NoContainer /\ container.id # 0
    BY <1>1 DEF Running, Here, Inv, TypeOK, LazyTypeOK, Container
  <2>2. container.ready \/ container.id <= before \/ faults > 1
    BY <1>0, <1>1, <2>1, Alone DEF Inv, Accounted, Running, Made, Owner, Starting
  <2> QED BY <1>0, <1>1, <2>1, <2>2, Serves DEF Reuse, Made
<1>2. CASE ((~Running(conns[c].id) /\ Made(conns[c].late)) \/ Fails(conns[c].late)) /\ Goes(c, "discard")
  <2>1. PICK to \in Handler :
          conns' = [conns EXCEPT ![c] = to] /\ to.late = cancelled /\ to.at = "discard"
    BY <1>2, GoesTo DEF Starting
  <2>2. DockerTyped
    BY <1>2, FailuresTyped DEF Inv, TypeOK, LazyTypeOK, Dated, DockerTyped, Reuse
  <2>3. Owned(c)'
    BY <2>1 DEF Inv, TypeOK, LazyTypeOK, Owned, Owner
  <2>4. Accounted'
    BY <1>0, <1>2, <2>1, <2>2, StillAccounted DEF Reuse, Goes, DockerTyped, lazyVars
  <2> QED BY <1>0, <1>2, <2>1, <2>2, <2>3, <2>4, Works
          DEF Inv, TypeOK, LazyTypeOK, Reuse, Goes, lazyVars, Starting
<1> QED BY <1>1, <1>2 DEF Reuse

LEMMA DiscardKeeps ==
  ASSUME Inv, NEW c \in Conns, Discard(c), UNCHANGED serverVars
  PROVE  Inv'
<1>0. conns[c].at \in Starting /\ conns[c].at \notin Owner /\ loop # "done"
  BY DEF Discard, Starting, Owner, Inv, HandlerFlags
<1>1. PICK to \in Handler :
        conns' = [conns EXCEPT ![c] = to] /\ to.late = cancelled /\ to.at = "pull"
  BY GoesTo DEF Discard, Starting
<1>2. container' \in {container, NoContainer} /\ lastId' = lastId
  BY DEF Discard, OrNothing, DoRemove
<1>3. DockerTyped
  BY <1>2, FailuresTyped DEF Inv, TypeOK, LazyTypeOK, Dated, DockerTyped, Discard
<1>4. Owned(c)'
  BY <1>1 DEF Inv, TypeOK, LazyTypeOK, Owned, Owner
<1>5. Accounted'
  BY <1>0, <1>1, <1>2, <1>3, StillAccounted DEF Discard, Goes, DockerTyped, lazyVars
<1> QED BY <1>0, <1>1, <1>3, <1>4, <1>5, Works
        DEF Inv, TypeOK, LazyTypeOK, Discard, Goes, lazyVars, Starting

LEMMA NoConnIsHandler ==
  /\ NoConn \in Handler /\ NoConn.at = "none" /\ NoConn.at \notin Starting
BY LazyAssumption DEF NoConn, Handler, Starting, Ids

LEMMA PullKeeps ==
  ASSUME Inv, NEW c \in Conns, Pull(c), UNCHANGED serverVars
  PROVE  Inv'
<1>0. conns[c].at \in Starting /\ conns[c].at \notin Owner
  BY DEF Pull, Starting, Owner
<1>1. DockerTyped
  BY FailuresTyped DEF Inv, TypeOK, LazyTypeOK, Dated, DockerTyped, Pull
<1>2. CASE Made(conns[c].late) /\ Goes(c, "create")
  <2>1. PICK to \in Handler :
          conns' = [conns EXCEPT ![c] = to] /\ to.late = cancelled /\ to.at = "create"
    BY <1>2, GoesTo DEF Starting
  <2>2. loop # "done"
    BY <1>0, <1>2 DEF Made, Inv, HandlerFlags
  <2>3. Owned(c)'
    BY <2>1 DEF Inv, TypeOK, LazyTypeOK, Owned, Owner
  <2>4. Accounted'
    BY <1>0, <1>1, <1>2, <2>1, StillAccounted DEF Pull, Goes, DockerTyped, lazyVars
  <2> QED BY <1>0, <1>1, <1>2, <2>1, <2>2, <2>3, <2>4, Works
          DEF Inv, TypeOK, LazyTypeOK, Pull, Goes, lazyVars, Starting
<1>3. CASE Fails(conns[c].late) /\ GivesUp(c)
  <2>1. Accounted'
    BY <1>0, <1>1, <1>3, NoConnIsHandler, StillAccounted DEF Pull, GivesUp, DockerTyped, lazyVars
  <2> QED BY <1>0, <1>1, <1>3, <2>1, Leaves DEF Pull, GivesUp
<1> QED BY <1>2, <1>3 DEF Pull

LEMMA CreateKeeps ==
  ASSUME Inv, NEW c \in Conns, Create(c), UNCHANGED serverVars
  PROVE  Inv'
<1>0. conns[c].at \in Starting /\ conns[c].at \notin Owner /\ loop # "done"
  BY DEF Create, Starting, Owner, Inv, HandlerFlags
<1>1. ASSUME DoCreate
      PROVE  /\ lastId' \in Ids /\ lastId' # 0 /\ container' \in Container /\ Dated'
             /\ container'.id = lastId' /\ container'.state = "created"
             /\ container' # NoContainer
  <2>1. lastId' \in Ids /\ lastId' # 0
    BY <1>1, LazyAssumption DEF DoCreate, Inv, TypeOK, LazyTypeOK, Ids
  <2>2. container' \in Container
    BY <1>1, <2>1 DEF DoCreate, Container
  <2>3. container'.id = lastId' /\ container'.state = "created"
    BY <1>1 DEF DoCreate
  <2>4. Dated'
    BY <2>1, <2>3, LazyAssumption DEF Dated, Ids
  <2> QED BY <2>1, <2>2, <2>3, <2>4, NoContainerAssumption
<1>2. CASE /\ Made(conns[c].late) /\ DoCreate
           /\ containerID' = lastId'
           /\ Moves(c, "start", lastId')
           /\ UNCHANGED <<started, hostAddr, mu>>
  <2>1. PICK to \in Handler :
          /\ conns' = [conns EXCEPT ![c] = to]
          /\ to.late = cancelled /\ to.at = "start" /\ to.id = lastId'
    BY <1>1, <1>2, MovesTo DEF Starting
  <2>2. DockerTyped
    BY <1>1, <1>2, FailuresTyped DEF DockerTyped
  <2>3. Owned(c)'
    BY <1>1, <1>2, <2>1 DEF Inv, TypeOK, LazyTypeOK, Owned, Owner, Here
  <2> QED BY <1>0, <1>1, <1>2, <2>1, <2>2, <2>3, Works DEF Create, Starting, Owner
<1>3. CASE /\ UNCHANGED <<container, lastId>> \/ DoCreate
           /\ Made(conns[c].late) \/ Fails(conns[c].late)
           /\ GivesUp(c)
  <2>1. DockerTyped
    BY <1>1, <1>3, FailuresTyped DEF DockerTyped, Dated, Inv, TypeOK, LazyTypeOK
  <2>2. Accounted'
    BY <1>0, <1>1, <1>3, <2>1, NoConnIsHandler, StillAccounted DEF Create, GivesUp, DockerTyped, lazyVars
  <2> QED BY <1>0, <1>3, <2>1, <2>2, Leaves DEF Create, GivesUp
<1> QED BY <1>2, <1>3 DEF Create, OrNothing

LEMMA StartKeeps ==
  ASSUME Inv, NEW c \in Conns, StartContainer(c), UNCHANGED serverVars
  PROVE  Inv'
<1>0. /\ conns[c].at \in Starting /\ loop # "done" /\ Here(conns[c].id)
      /\ conns[c].late => cancelled
  BY DEF StartContainer, Starting, Owner, Owned, Inv, HandlerFlags
<1>1. ASSUME DoStart(conns[c].id)
      PROVE  /\ container' \in Container /\ container' # NoContainer
             /\ container'.id = conns[c].id /\ container'.state = "running"
             /\ lastId' = lastId
  BY <1>1, NoContainerAssumption DEF DoStart, Here, Inv, TypeOK, LazyTypeOK, Container
<1>2. CASE Made(conns[c].late) /\ DoStart(conns[c].id) /\ Goes(c, "port")
  <2>1. PICK to \in Handler :
          /\ conns' = [conns EXCEPT ![c] = to]
          /\ to.late = cancelled /\ to.at = "port" /\ to.id = conns[c].id
    BY <1>2, GoesTo DEF Starting
  <2>2. DockerTyped
    BY <1>0, <1>1, <1>2, FailuresTyped DEF DockerTyped, Here, Inv, Dated, TypeOK, LazyTypeOK
  <2>3. Owned(c)'
    BY <1>1, <1>2, <2>1 DEF Inv, TypeOK, LazyTypeOK, Owned, Owner, Here
  <2> QED BY <1>0, <1>2, <2>1, <2>2, <2>3, Works
          DEF Inv, TypeOK, LazyTypeOK, StartContainer, Goes, lazyVars, Starting, Owner
<1>3. CASE /\ Fails(conns[c].late) /\ OrNothing(conns[c].late, DoStart(conns[c].id))
           /\ Goes(c, "undo")
  <2>1. PICK to \in Handler :
          /\ conns' = [conns EXCEPT ![c] = to]
          /\ to.late = cancelled /\ to.at = "undo" /\ to.id = conns[c].id
    BY <1>3, GoesTo DEF Starting
  <2>2. DockerTyped
    BY <1>0, <1>1, <1>3, FailuresTyped DEF DockerTyped, Here, Inv, Dated, TypeOK, LazyTypeOK, OrNothing
  <2>3. to.late \/ faults' > 0
    BY <1>0, <1>3, <2>1 DEF Fails, Inv, TypeOK, LazyTypeOK
  <2>4. Owned(c)'
    BY <1>0, <1>1, <1>3, <2>1, <2>3 DEF Inv, TypeOK, LazyTypeOK, Owned, Owner, Here, OrNothing
  <2> QED BY <1>0, <1>3, <2>1, <2>2, <2>4, Works
          DEF Inv, TypeOK, LazyTypeOK, StartContainer, Goes, lazyVars, Starting, Owner
<1> QED BY <1>2, <1>3 DEF StartContainer

LEMMA UndoKeeps ==
  ASSUME Inv, NEW c \in Conns, Undo(c), UNCHANGED serverVars
  PROVE  Inv'
<1>0. /\ conns[c].at \in Starting /\ loop # "done"
      /\ conns[c].late => cancelled
      /\ conns[c].late \/ faults > 0
  BY DEF Undo, CleansUp, Starting, Owner, Owned, Inv, HandlerFlags
<1>1. container' \in {container, NoContainer} /\ lastId' = lastId
  BY DEF Undo, CleansUp, OrNothing, DoRemove
<1>2. DockerTyped
  BY <1>1, FailuresTyped DEF Inv, TypeOK, LazyTypeOK, Dated, DockerTyped, Undo, CleansUp
<1>3. container' = NoContainer \/ cancelled \/ faults' > 1
  BY <1>0 DEF Undo, CleansUp, OrNothing, DoRemove, Fails, Inv, TypeOK, LazyTypeOK
<1>4. Accounted'
  BY <1>0, <1>2, <1>3, NoConnIsHandler, StillAccounted DEF Undo, CleansUp, GivesUp, DockerTyped, lazyVars
<1> QED BY <1>0, <1>2, <1>4, Leaves DEF Undo, CleansUp, GivesUp

LEMMA HostPortKeeps ==
  ASSUME Inv, NEW c \in Conns, HostPort(c), UNCHANGED serverVars
  PROVE  Inv'
<1>0. /\ conns[c].at = "port" /\ conns[c].at \in Starting /\ loop # "done" /\ Here(conns[c].id)
      /\ conns[c].late => cancelled
      /\ container.state = "running" \/ faults > 0
  BY DEF HostPort, Starting, Owner, Owned, Inv, HandlerFlags
<1>1. DockerTyped
  BY FailuresTyped DEF Inv, TypeOK, LazyTypeOK, Dated, DockerTyped, HostPort
<1>2. CASE Running(conns[c].id) /\ Made(conns[c].late) /\ Goes(c, "ready")
  <2>1. PICK to \in Handler :
          /\ conns' = [conns EXCEPT ![c] = to]
          /\ to.late = cancelled /\ to.at = "ready" /\ to.id = conns[c].id
    BY <1>2, GoesTo DEF Starting
  <2>2. Owned(c)'
    BY <1>0, <1>2, <2>1 DEF Inv, TypeOK, LazyTypeOK, Owned, Owner, Here, Running, HostPort
  <2> QED BY <1>0, <1>1, <1>2, <2>1, <2>2, Works
          DEF Inv, TypeOK, LazyTypeOK, HostPort, Goes, lazyVars, Starting, Owner
<1>3. CASE /\ (~Running(conns[c].id) /\ Made(conns[c].late)) \/ Fails(conns[c].late)
           /\ Goes(c, "stop")
  <2>1. PICK to \in Handler :
          /\ conns' = [conns EXCEPT ![c] = to]
          /\ to.late = cancelled /\ to.at = "stop" /\ to.id = conns[c].id
    BY <1>3, GoesTo DEF Starting
  <2>2. to.late \/ faults' > 0
    BY <1>0, <1>3, <2>1 DEF Fails, Made, Running, Inv, TypeOK, LazyTypeOK
  <2>3. Owned(c)'
    BY <1>0, <2>1, <2>2 DEF Inv, TypeOK, LazyTypeOK, Owned, Owner, Here, HostPort
  <2> QED BY <1>0, <1>1, <1>3, <2>1, <2>3, Works
          DEF Inv, TypeOK, LazyTypeOK, HostPort, Goes, lazyVars, Starting, Owner
<1> QED BY <1>2, <1>3 DEF HostPort

LEMMA WaitForReadyKeeps ==
  ASSUME Inv, NEW c \in Conns, WaitForReady(c), UNCHANGED serverVars
  PROVE  Inv'
<1>0. /\ conns[c].at = "ready" /\ conns[c].at \in Starting /\ loop # "done" /\ Here(conns[c].id)
      /\ container.state = "running" \/ faults > 0
  BY DEF WaitForReady, Starting, Owner, Owned, Inv, HandlerFlags
<1>1. DockerTyped
  <2>1. UNCHANGED faults \/ Fails(FALSE)
    BY DEF WaitForReady
  <2> QED BY <2>1, FailuresTyped DEF Inv, TypeOK, LazyTypeOK, Dated, DockerTyped, WaitForReady, Made
<1>2. CASE container.ready /\ Goes(c, "publish")
  <2>1. PICK to \in Handler :
          /\ conns' = [conns EXCEPT ![c] = to]
          /\ to.late = cancelled /\ to.at = "publish" /\ to.id = conns[c].id
    BY <1>2, GoesTo DEF Starting
  <2>2. Owned(c)'
    BY <1>0, <1>2, <2>1 DEF Inv, TypeOK, LazyTypeOK, Owned, Owner, Here, WaitForReady
  <2> QED BY <1>0, <1>1, <1>2, <2>1, <2>2, Works
          DEF Inv, TypeOK, LazyTypeOK, WaitForReady, Goes, lazyVars, Starting, Owner
<1>3. CASE /\ (~Running(conns[c].id) /\ UNCHANGED faults) \/ Fails(FALSE)
           /\ Goes(c, "stop")
  <2>1. PICK to \in Handler :
          /\ conns' = [conns EXCEPT ![c] = to]
          /\ to.late = cancelled /\ to.at = "stop" /\ to.id = conns[c].id
    BY <1>3, GoesTo DEF Starting
  <2>2. to.late \/ faults' > 0
    BY <1>0, <1>3, <2>1 DEF Fails, Running, Inv, TypeOK, LazyTypeOK
  <2>3. Owned(c)'
    BY <1>0, <2>1, <2>2 DEF Inv, TypeOK, LazyTypeOK, Owned, Owner, Here, WaitForReady
  <2> QED BY <1>0, <1>1, <1>3, <2>1, <2>3, Works
          DEF Inv, TypeOK, LazyTypeOK, WaitForReady, Goes, lazyVars, Starting, Owner
<1> QED BY <1>2, <1>3 DEF WaitForReady

LEMMA StopKeeps ==
  ASSUME Inv, NEW c \in Conns, StopContainer(c), UNCHANGED serverVars
  PROVE  Inv'
<1>0. /\ conns[c].at = "stop" /\ conns[c].at \in Starting /\ loop # "done" /\ Here(conns[c].id)
      /\ conns[c].late => cancelled
      /\ conns[c].late \/ faults > 0
  BY DEF StopContainer, CleansUp, Starting, Owner, Owned, Inv, HandlerFlags
<1>1. PICK to \in Handler :
        /\ conns' = [conns EXCEPT ![c] = to]
        /\ to.late = cancelled /\ to.at = "remove" /\ to.id = conns[c].id
  BY GoesTo DEF StopContainer, Starting
<1>2. ASSUME DoStop(conns[c].id)
      PROVE  /\ container' \in Container /\ container' # NoContainer
             /\ container'.id = conns[c].id /\ container'.state = "exited"
             /\ lastId' = lastId
  BY <1>2, NoContainerAssumption DEF DoStop, Here, Inv, TypeOK, LazyTypeOK, Container
<1>3. DoStop(conns[c].id) \/ UNCHANGED <<container, lastId>>
  BY DEF StopContainer, CleansUp, OrNothing
<1>4. DockerTyped
  BY <1>0, <1>2, <1>3, FailuresTyped
     DEF DockerTyped, Here, Inv, Dated, TypeOK, LazyTypeOK, StopContainer, CleansUp
<1>5. DoStop(conns[c].id) \/ cancelled \/ faults' > 1
  BY <1>0 DEF StopContainer, CleansUp, Fails, Inv, TypeOK, LazyTypeOK
<1>6. Owned(c)'
  BY <1>0, <1>1, <1>2, <1>3, <1>5 DEF Inv, TypeOK, LazyTypeOK, Owned, Owner, Here
<1> QED BY <1>0, <1>1, <1>4, <1>6, Works
        DEF Inv, TypeOK, LazyTypeOK, StopContainer, CleansUp, Goes, lazyVars, Starting, Owner

LEMMA RemoveKeeps ==
  ASSUME Inv, NEW c \in Conns, RemoveContainer(c), UNCHANGED serverVars
  PROVE  Inv'
<1>0. /\ conns[c].at \in Starting /\ loop # "done" /\ Here(conns[c].id)
      /\ conns[c].late => cancelled
      /\ container.state # "running" \/ conns[c].late \/ faults > 1
  BY DEF RemoveContainer, CleansUp, Starting, Owner, Owned, Inv, HandlerFlags
<1>1. container' \in {container, NoContainer} /\ lastId' = lastId
  BY DEF RemoveContainer, CleansUp, OrNothing, DoRemove
<1>2. DockerTyped
  BY <1>1, FailuresTyped DEF Inv, TypeOK, LazyTypeOK, Dated, DockerTyped, RemoveContainer, CleansUp
<1>3. \/ container' = NoContainer \/ cancelled \/ faults' > 1
      \/ container' # NoContainer /\ container'.state # "running"
  BY <1>0, <1>1, <1>2 DEF Inv, TypeOK, LazyTypeOK, DockerTyped, Here
<1>4. Accounted'
  BY <1>0, <1>2, <1>3, NoConnIsHandler, StillAccounted
     DEF RemoveContainer, CleansUp, GivesUp, DockerTyped, lazyVars
<1> QED BY <1>0, <1>2, <1>4, Leaves DEF RemoveContainer, CleansUp, GivesUp

LEMMA PublishKeeps ==
  ASSUME Inv, NEW c \in Conns, Publish(c), UNCHANGED serverVars
  PROVE  Inv'
<1>1. /\ conns[c].at = "publish" /\ Here(conns[c].id)
      /\ container.state = "running" => container.ready
  BY DEF Publish, Inv, Owned, Owner
<1>2. conns[c].id # 0
  BY <1>1 DEF Here, Inv, TypeOK, LazyTypeOK, Container
<1> QED BY <1>1, <1>2, Serves DEF Publish, Running, dockerVars

-----------------------------------------------------------------------------
(* Handlers without the mutex                                              *)

\* A handler that is not and does not come to be in ensureContainer.
LEMMA OutsideKeeps ==
  ASSUME Inv, Alive, NEW c \in Conns, NEW to \in Handler,
         conns' = [conns EXCEPT ![c] = to],
         conns[c].at \notin Starting, to.at \notin Starting,
         to.late => cancelled,
         to.at \in {"dial", "proxy"} => to.id = hostAddr /\ hostAddr # 0,
         UNCHANGED <<serverVars, dockerVars, lazyVars, mu, loop, cancelled>>
  PROVE  Inv'
<1>1. /\ conns' \in [Conns -> Handler] /\ conns'[c] = to
      /\ \A d \in Conns \ {c} : conns'[d] = conns[d]
  BY DEF Inv, TypeOK, LazyTypeOK
<1>2. TypeOK'
  BY <1>1 DEF Inv, TypeOK, LazyTypeOK, dockerVars, lazyVars, serverVars
<1>3. Flags' /\ Dated' /\ ServedReady'
  BY DEF Inv, Flags, Alive, Dated, ServedReady, Running, Here, dockerVars, lazyVars, serverVars
<1>4. Accounted'
  <2>1. \A d \in Conns : /\ conns[d].at \in Owner => conns'[d].at \in Owner
                         /\ conns'[d].at \in Starting =>
                              conns[d].at \in Starting /\ conns'[d].late = conns[d].late
    BY <1>1 DEF Owner, Starting
  <2> QED BY <2>1 DEF Inv, Accounted, Alive, dockerVars, lazyVars, serverVars
<1>5. ASSUME NEW d \in Conns PROVE HandlerFlags(d)' /\ Owned(d)'
  <2>1. CASE d = c
    BY <1>1, <2>1 DEF Inv, HandlerFlags, Owned, Owner, Starting, lazyVars
  <2>2. CASE d # c
    BY <1>1, <2>2 DEF Inv, HandlerFlags, Owned, Here, dockerVars, lazyVars
  <2> QED BY <2>1, <2>2
<1> QED BY <1>2, <1>3, <1>4, <1>5 DEF Inv

LEMMA AcceptKeeps ==
  ASSUME Inv, NEW c \in Conns, Accept(c), UNCHANGED serverVars, Alive
  PROVE  Inv'
<1>1. PICK to \in Handler :
        /\ conns' = [conns EXCEPT ![c] = to]
        /\ to.at = "lock" /\ to.late = cancelled
  BY LazyAssumption, MovesTo DEF Accept, Ids
<1> QED BY <1>1, OutsideKeeps DEF Accept, Starting

LEMMA DialKeeps ==
  ASSUME Inv, NEW c \in Conns, Dial(c), UNCHANGED serverVars, Alive
  PROVE  Inv'
<1>1. PICK to \in Handler :
        /\ conns' = [conns EXCEPT ![c] = to]
        /\ to.late => cancelled
        /\ to.at \in {"none", "proxy"}
        /\ to.at = "proxy" => to.id = conns[c].id
  <2>1. CASE Moves(c, "proxy", conns[c].id)
    <3>1. conns[c].id \in Ids
      BY DEF Inv, TypeOK, LazyTypeOK, Handler
    <3> QED BY <2>1, <3>1, MovesTo
  <2>2. CASE conns' = [conns EXCEPT ![c] = NoConn]
    BY <2>2, NoConnIsHandler DEF NoConn
  <2> QED BY <2>1, <2>2 DEF Dial
<1>2. conns[c].id = hostAddr /\ hostAddr # 0
  BY DEF Dial, Inv, HandlerFlags
<1> QED BY <1>1, <1>2, OutsideKeeps DEF Dial, Starting

LEMMA CloseKeeps ==
  ASSUME Inv, NEW c \in Conns, Close(c), UNCHANGED serverVars, Alive
  PROVE  Inv'
BY NoConnIsHandler, OutsideKeeps DEF Close, NoConn, Starting

LEMMA LockKeeps ==
  ASSUME Inv, NEW c \in Conns, Lock(c), UNCHANGED serverVars, Alive
  PROVE  Inv'
<1>1. CASE started
  <2>1. PICK to \in Handler :
          /\ conns' = [conns EXCEPT ![c] = to]
          /\ to.at = "dial" /\ to.late = cancelled /\ to.id = hostAddr
    BY <1>1 DEF Inv, TypeOK, LazyTypeOK, Lock, Moves, Handler
  <2>2. hostAddr # 0
    BY <1>1 DEF Inv, Flags
  <2> QED BY <1>1, <2>1, <2>2, OutsideKeeps DEF Lock, Starting
<1>2. CASE ~started
  <2>1. PICK to \in Handler :
          /\ conns' = [conns EXCEPT ![c] = to]
          /\ to.at = "find" /\ to.late = cancelled
    BY <1>2, LazyAssumption DEF Inv, TypeOK, LazyTypeOK, Lock, Moves, Handler, Starting, Ids
  <2>2. /\ conns' \in [Conns -> Handler] /\ conns'[c] = to
        /\ \A d \in Conns \ {c} : conns'[d] = conns[d]
        /\ \A d \in Conns : conns[d].at \notin Starting
        /\ mu = Nobody /\ mu' = c /\ conns[c].at = "lock"
    BY <1>2, <2>1, LazyAssumption DEF Inv, TypeOK, LazyTypeOK, Lock
  <2>3. TypeOK'
    BY <2>1, <2>2, LazyAssumption
       DEF Inv, TypeOK, LazyTypeOK, Lock, Starting, dockerVars, lazyVars, serverVars
  <2>4. Flags' /\ Dated' /\ ServedReady'
    BY DEF Inv, Flags, Fresh, Alive, Dated, ServedReady, Running, Here, Lock, dockerVars, lazyVars, serverVars
  <2>5. Accounted'
    <3>1. \A d \in Conns : conns'[d].at \in Starting => conns'[d].late = cancelled
      BY <2>1, <2>2
    <3>2. \A d \in Conns : conns[d].at \notin Owner
      BY <2>2 DEF Owner, Starting
    <3> QED BY <3>1, <3>2 DEF Inv, Accounted, Lock, dockerVars, lazyVars, serverVars, Alive
  <2>6. ASSUME NEW d \in Conns PROVE HandlerFlags(d)' /\ Owned(d)'
    <3>1. CASE d = c
      BY <1>2, <2>1, <2>2, <3>1
         DEF Inv, Flags, HandlerFlags, Owned, Owner, Lock, dockerVars, lazyVars
    <3>2. CASE d # c
      BY <2>2, <3>2 DEF Inv, HandlerFlags, Owned, Owner, Here, Lock, dockerVars, lazyVars
    <3> QED BY <3>1, <3>2
  <2> QED BY <2>3, <2>4, <2>5, <2>6 DEF Inv
<1> QED BY <1>1, <1>2 DEF Inv, TypeOK, LazyTypeOK

-----------------------------------------------------------------------------
(* The accept loop and Docker                                              *)

\* A step of the loop that leaves the handlers where they are.
LEMMA LoopTurns ==
  ASSUME Inv, Alive,
         UNCHANGED <<serverVars, dockerVars, lazyVars, mu, conns, cancelled>>,
         loop \notin {"done", "stop", "remove"},
         loop' \in {"listening", "closed", "failed", "done"},
         loop' \in {"closed", "done"} => cancelled,
         loop' = "done" => ~started /\ mu = Nobody
  PROVE  Inv'
<1>1. TypeOK'
  BY DEF Inv, TypeOK, LazyTypeOK, dockerVars, lazyVars, serverVars
<1>2. Flags'
  BY DEF Inv, Flags, Alive, lazyVars, serverVars
<1>3. Dated' /\ ServedReady' /\ Accounted'
  BY DEF Inv, Dated, ServedReady, Accounted, Alive, Running, Here, dockerVars, lazyVars, serverVars
<1>4. ASSUME NEW d \in Conns PROVE HandlerFlags(d)' /\ Owned(d)'
  <2>1. loop' = "done" => conns[d].at \notin Starting
    BY LazyAssumption DEF Inv, TypeOK
  <2> QED BY <2>1 DEF Inv, HandlerFlags, Owned, Here, dockerVars, lazyVars
<1> QED BY <1>1, <1>2, <1>3, <1>4 DEF Inv

LEMMA ShutdownKeeps ==
  ASSUME Inv, Shutdown, UNCHANGED serverVars, Alive
  PROVE  Inv'
<1>0. cancelled
  BY DEF Inv, Flags, Shutdown
<1>1. CASE ~started
  BY <1>0, <1>1, LoopTurns DEF Shutdown
<1>2. CASE started
  <2>1. \A d \in Conns : conns[d].at \notin Starting
    BY LazyAssumption DEF Inv, TypeOK, Shutdown
  <2>2. TypeOK'
    BY <1>2, <2>1, LazyAssumption
       DEF Inv, TypeOK, LazyTypeOK, Shutdown, dockerVars, lazyVars, serverVars
  <2>3. Flags' /\ Dated' /\ ServedReady' /\ Accounted'
    BY <1>0, <1>2 DEF Inv, Flags, Dated, ServedReady, Accounted, Alive, Running, Here,
       Shutdown, dockerVars, lazyVars, serverVars
  <2>4. ASSUME NEW d \in Conns PROVE HandlerFlags(d)' /\ Owned(d)'
    BY <1>2 DEF Inv, HandlerFlags, Owned, Here, Shutdown, dockerVars, lazyVars
  <2> QED BY <2>2, <2>3, <2>4 DEF Inv
<1> QED BY <1>1, <1>2 DEF Inv, TypeOK, LazyTypeOK

\* The loop holds the mutex and stops or removes the container.
LEMMA ShutdownCallKeeps ==
  ASSUME Inv, Alive, loop \in {"stop", "remove"},
         UNCHANGED <<serverVars, containerID, hostAddr, conns, cancelled>>,
         DockerTyped,
         \/ container' \in {container, NoContainer}
         \/ container' # NoContainer /\ container'.state # "running",
         \/ loop' = "remove" /\ UNCHANGED <<mu, started>>
         \/ loop' = "done" /\ mu' = Nobody /\ ~started' /\ started' \in BOOLEAN
  PROVE  Inv'
<1>1. \A d \in Conns : conns[d].at \notin Starting
  BY LazyAssumption DEF Inv, TypeOK
<1>2. cancelled /\ started
  BY DEF Inv, Flags
<1>3. TypeOK'
  <2>1. CASE loop' = "remove" /\ UNCHANGED <<mu, started>>
    BY <2>1 DEF Inv, TypeOK, LazyTypeOK, DockerTyped, serverVars
  <2>2. CASE loop' = "done" /\ mu' = Nobody /\ ~started' /\ started' \in BOOLEAN
    BY <1>1, <2>2, LazyAssumption DEF Inv, TypeOK, LazyTypeOK, DockerTyped, serverVars
  <2> QED BY <2>1, <2>2
<1>4. Flags'
  BY <1>2 DEF Inv, Flags, Alive, serverVars
<1>5. ServedReady'
  BY DEF Inv, ServedReady, DockerTyped, Running, Here, serverVars, TypeOK, LazyTypeOK
<1>6. Accounted'
  BY <1>1, <1>2 DEF Accounted
<1>7. ASSUME NEW d \in Conns PROVE HandlerFlags(d)' /\ Owned(d)'
  BY <1>1 DEF Inv, HandlerFlags, Owned, Owner, Starting
<1> QED BY <1>3, <1>4, <1>5, <1>6, <1>7 DEF Inv, DockerTyped

LEMMA ShutdownStopKeeps ==
  ASSUME Inv, ShutdownStop, UNCHANGED serverVars, Alive
  PROVE  Inv'
<1>1. ASSUME DoStop(containerID), Here(containerID)
      PROVE  /\ container' \in Container /\ container' # NoContainer
             /\ container'.id = container.id /\ container'.state = "exited"
             /\ lastId' = lastId /\ container # NoContainer
  BY <1>1, NoContainerAssumption DEF DoStop, Here, Inv, TypeOK, LazyTypeOK, Container
<1>2. \/ UNCHANGED <<container, lastId>>
      \/ DoStop(containerID) /\ Here(containerID)
  BY DEF ShutdownStop, OrNothing, DoStop
<1>3. faults' \in 0..MaxFaults /\ faults <= faults'
  <2>1. UNCHANGED faults \/ (faults < MaxFaults /\ faults' = faults + 1)
    BY DEF ShutdownStop
  <2> QED BY <2>1, LazyAssumption DEF Inv, TypeOK, LazyTypeOK
<1>4. DockerTyped
  BY <1>1, <1>2, <1>3 DEF DockerTyped, Dated, Inv, TypeOK, LazyTypeOK
<1> QED BY <1>1, <1>2, <1>4, ShutdownCallKeeps DEF ShutdownStop, lazyVars

LEMMA ShutdownRemoveKeeps ==
  ASSUME Inv, ShutdownRemove, UNCHANGED serverVars, Alive
  PROVE  Inv'
<1>1. container' \in {container, NoContainer} /\ lastId' = lastId
  BY DEF ShutdownRemove, OrNothing, DoRemove
<1>2. faults' \in 0..MaxFaults /\ faults <= faults'
  <2>1. UNCHANGED faults \/ (faults < MaxFaults /\ faults' = faults + 1)
    BY DEF ShutdownRemove
  <2> QED BY <2>1, LazyAssumption DEF Inv, TypeOK, LazyTypeOK
<1>3. DockerTyped
  BY <1>1, <1>2 DEF DockerTyped, Dated, Inv, TypeOK, LazyTypeOK
<1> QED BY <1>1, <1>3, ShutdownCallKeeps DEF ShutdownRemove

\* Docker's container becomes ready or dies.
LEMMA ContainerChanges ==
  ASSUME Inv, container # NoContainer, container.state = "running",
         NEW to \in Container, container' = to, to.id = container.id,
         \/ to.state = "running" /\ to.ready /\ faults' = faults
         \/ to.state # "running" /\ faults' = faults + 1 /\ faults < MaxFaults,
         UNCHANGED <<serverVars, lastId, lazyVars, mu, conns, loop, cancelled>>
  PROVE  Inv'
<1>1. container' # NoContainer /\ container' \in Container
  BY NoContainerAssumption
<1>2. faults \in 0..MaxFaults /\ faults' \in 0..MaxFaults
  BY LazyAssumption DEF Inv, TypeOK, LazyTypeOK
<1>3. TypeOK'
  BY <1>1, <1>2 DEF Inv, TypeOK, LazyTypeOK, lazyVars, serverVars
<1>4. Flags'
  BY DEF Inv, Flags, Fresh, lazyVars, serverVars
<1>5. Dated' /\ ServedReady'
  BY <1>1 DEF Inv, Dated, ServedReady, Running, Here, lazyVars
<1>6. Accounted'
  BY <1>1, <1>2 DEF Inv, Accounted, Alive, lazyVars, serverVars
<1>7. ASSUME NEW d \in Conns PROVE HandlerFlags(d)' /\ Owned(d)'
  BY <1>1, <1>2 DEF Inv, HandlerFlags, Owned, Owner, Here, lazyVars
<1> QED BY <1>3, <1>4, <1>5, <1>6, <1>7 DEF Inv

LEMMA DockerKeeps ==
  ASSUME Inv, Docker
  PROVE  Inv'
<1>1. CASE BecomesReady
  <2>1. container' = [container EXCEPT !.ready = TRUE] /\ container \in Container
    BY <1>1 DEF BecomesReady, Inv, TypeOK, LazyTypeOK
  <2> DEFINE to == container'
  <2>2. to \in Container /\ to.id = container.id /\ to.state = "running" /\ to.ready
    BY <1>1, <2>1 DEF Container, BecomesReady
  <2> QED BY <1>1, <2>2, ContainerChanges DEF Docker, BecomesReady
<1>2. CASE Dies
  <2>1. container' = [container EXCEPT !.state = "exited", !.ready = FALSE] /\ container \in Container
    BY <1>2 DEF Dies, Inv, TypeOK, LazyTypeOK
  <2>2. container' \in Container /\ container'.id = container.id /\ container'.state = "exited"
    BY <2>1 DEF Container
  <2> QED BY <1>2, <2>2, ContainerChanges DEF Docker, Dies
<1> QED BY <1>1, <1>2 DEF Docker

-----------------------------------------------------------------------------
(* The process                                                             *)

\* What Run and the native services do does not touch the lazy service, but
\* that they may cancel its context.
LEMMA ServerTurns ==
  ASSUME Inv, Alive, Alive', TypeOK',
         UNCHANGED <<before, lazyServiceVars>>, cancelled => cancelled'
  PROVE  Inv'
<1>1. Flags' /\ Dated' /\ ServedReady' /\ Accounted'
  BY DEF Inv, Flags, Dated, ServedReady, Accounted, Alive, Running, Here,
         lazyServiceVars, dockerVars, lazyVars
<1>2. ASSUME NEW d \in Conns PROVE HandlerFlags(d)' /\ Owned(d)'
  BY DEF Inv, HandlerFlags, Owned, Here, lazyServiceVars, dockerVars, lazyVars
<1> QED BY <1>1, <1>2 DEF Inv

LEMMA RunStepKeeps ==
  ASSUME Inv, RunStep
  PROVE  Inv'
<1>1. Alive /\ Alive' /\ UNCHANGED <<before, lazyServiceVars>> /\ (cancelled => cancelled')
  BY DEF RunStep, Interrupt, SeesInterrupt, SeesError, AllStopped, TimesOut, others, Alive
<1>2. TypeOK'
  <2>1. TypeOK /\ LazyTypeOK
    BY DEF Inv, TypeOK
  <2>. USE DEF lazyServiceVars, dockerVars, lazyVars, others, TypeOK, LazyTypeOK
  <2>2. CASE Interrupt  BY <2>1, <2>2 DEF Interrupt
  <2>3. CASE SeesInterrupt  BY <2>1, <2>3 DEF SeesInterrupt
  <2>4. CASE SeesError  BY <2>1, <2>4 DEF SeesError
  <2>5. CASE AllStopped  BY <2>1, <2>5 DEF AllStopped
  <2>6. CASE TimesOut  BY <2>1, <2>6 DEF TimesOut
  <2>. QED  BY <2>2, <2>3, <2>4, <2>5, <2>6 DEF RunStep
<1> QED BY <1>1, <1>2, ServerTurns

LEMMA ServiceStepKeeps ==
  ASSUME Inv, ServiceStep
  PROVE  Inv'
<1>1. CASE LazyBindFails
  <2>1. errCh' \subseteq Natives \cup {Loop}
    BY <1>1 DEF LazyBindFails, Reports, Inv, TypeOK
  <2>2. TypeOK'
    BY <1>1, <2>1 DEF LazyBindFails, Inv, TypeOK, LazyTypeOK, dockerVars, lazyVars
  <2>3. Flags' /\ Dated' /\ ServedReady' /\ Accounted'
    BY <1>1 DEF ServiceStep, LazyBindFails, Inv, Flags, Dated, ServedReady, Accounted, Alive,
                Running, Here, dockerVars, lazyVars
  <2>4. ASSUME NEW d \in Conns PROVE HandlerFlags(d)' /\ Owned(d)'
    BY <1>1 DEF LazyBindFails, Inv, HandlerFlags, Owned, Here, dockerVars, lazyVars
  <2> QED BY <2>2, <2>3, <2>4 DEF Inv
<1>2. ASSUME NEW s \in Natives, NativeBinds(s) \/ NativeFails(s) \/ NativeStops(s)
      PROVE  Inv'
  <2>1. Alive /\ Alive' /\ UNCHANGED <<before, lazyServiceVars>> /\ cancelled' = cancelled
    BY <1>2 DEF ServiceStep, NativeBinds, NativeFails, NativeStops, others, Alive
  <2>2. natives' \in [Natives -> {"off", "serving", "finished"}]
    BY <1>2 DEF NativeBinds, NativeFails, NativeStops, Inv, TypeOK
  <2>3. errCh' \subseteq Natives \cup {Loop}
    BY <1>2 DEF NativeBinds, NativeFails, NativeStops, Reports, Inv, TypeOK
  <2>4. UNCHANGED <<run, result, runs>>
    BY <1>2 DEF NativeBinds, NativeFails, NativeStops, others
  <2>5. TypeOK'
    BY <2>1, <2>2, <2>3, <2>4 DEF lazyServiceVars, dockerVars, lazyVars, Inv, TypeOK, LazyTypeOK
  <2> QED BY <2>1, <2>5, ServerTurns
<1> QED BY <1>1, <1>2 DEF ServiceStep

\* The process begins or ends: it has no handlers and no address then.
LEMMA FreshKeeps ==
  ASSUME TypeOK', Fresh', Dated', run' = "off" => ~cancelled',
         Alive' /\ container' # NoContainer => container'.id <= before'
  PROVE  Inv'
<1>1. Flags' /\ ServedReady' /\ Accounted'
  BY DEF Fresh, Flags, ServedReady, Accounted
<1>2. ASSUME NEW d \in Conns PROVE HandlerFlags(d)' /\ Owned(d)'
  BY DEF Fresh, NoConn, HandlerFlags, Owned, Owner, Starting
<1> QED BY <1>1, <1>2 DEF Inv

\* Nobody holds the mutex of a process that has not begun.
LEMMA FreshType ==
  ASSUME Fresh'
  PROVE  /\ started' \in BOOLEAN /\ containerID' \in Ids /\ hostAddr' \in Ids
         /\ mu' \in Conns \cup {Nobody, Loop}
         /\ conns' \in [Conns -> Handler]
         /\ loop' = "off"
         /\ \A c \in Conns : conns'[c].at \in Starting <=> mu' = c
         /\ mu' # Loop
<1>1. /\ started' = FALSE /\ containerID' = 0 /\ hostAddr' = 0 /\ mu' = Nobody /\ loop' = "off"
      /\ conns' = [c \in Conns |-> NoConn]
  BY DEF Fresh
<1>2. 0 \in Ids
  BY LazyAssumption DEF Ids
<1>3. conns' \in [Conns -> Handler] /\ \A c \in Conns : conns'[c].at \notin Starting
  BY <1>1, NoConnIsHandler
<1>4. Nobody \notin Conns /\ Nobody # Loop
  BY LazyAssumption
<1> QED BY <1>1, <1>2, <1>3, <1>4

LEMMA EndsKeeps ==
  ASSUME Inv, Ends, result' \in {"none", "error", "stopped", "forced", "killed"}
  PROVE  Inv'
<1>1. Fresh' /\ run' = "off" /\ ~cancelled' /\ cancelled' \in BOOLEAN
  BY DEF Ends, Fresh
<1>2. TypeOK'
  BY <1>1, FreshType DEF Ends, dockerVars, Inv, TypeOK, LazyTypeOK
<1>3. Dated'
  BY DEF Ends, dockerVars, Inv, Dated
<1> QED BY <1>1, <1>2, <1>3, FreshKeeps DEF Alive

LEMMA UpKeeps ==
  ASSUME Inv, Up
  PROVE  Inv'
<1>1. Fresh /\ ~cancelled
  BY DEF Inv, Flags, Up
<1>2. Fresh' /\ ~cancelled' /\ cancelled' \in BOOLEAN
  BY <1>1 DEF Fresh, Up, lazyVars, Inv, TypeOK, LazyTypeOK
<1>3. container' \in {container, NoContainer} /\ lastId' = lastId /\ before' = lastId
  BY DEF Up
<1>4. faults' \in 0..MaxFaults
  BY LazyAssumption DEF Up, Fails, Inv, TypeOK, LazyTypeOK
<1>5. TypeOK'
  BY <1>2, <1>3, <1>4, FreshType, ServerAssumption DEF Up, Inv, TypeOK, LazyTypeOK
<1>6. Dated' /\ (container' # NoContainer => container'.id <= before')
  BY <1>3 DEF Inv, Dated
<1> QED BY <1>2, <1>5, <1>6, FreshKeeps

-----------------------------------------------------------------------------
(* Every step keeps the invariant                                          *)

LEMMA InitEstablishes == Init => Inv
<1> SUFFICES ASSUME Init PROVE Inv
  OBVIOUS
<1>1. TypeOK
  <2>1. conns = [c \in Conns |-> NoConn] /\ mu = Nobody /\ loop = "off"
    BY DEF Init, LazyInit, Fresh
  <2>2. conns \in [Conns -> Handler] /\ \A c \in Conns : conns[c].at \notin Starting
    BY <2>1, NoConnIsHandler
  <2>3. 0 \in Ids /\ 0 \in 0..MaxFaults /\ 0 \in 0..MaxRuns
    BY LazyAssumption, ServerAssumption DEF Ids
  <2>4. Nobody \notin Conns /\ Nobody # Loop
    BY LazyAssumption
  <2>5. LazyTypeOK
    BY <2>1, <2>2, <2>3 DEF Init, LazyInit, Fresh, LazyTypeOK
  <2> QED BY <2>1, <2>2, <2>3, <2>4, <2>5 DEF Init, TypeOK
<1>2. Flags /\ Dated /\ ServedReady /\ Accounted
  BY DEF Init, LazyInit, Fresh, Flags, Dated, ServedReady, Accounted
<1>3. ASSUME NEW d \in Conns PROVE HandlerFlags(d) /\ Owned(d)
  BY DEF Init, LazyInit, Fresh, NoConn, HandlerFlags, Owned, Owner, Starting
<1> QED BY <1>1, <1>2, <1>3 DEF Inv

LEMMA LazyStepKeeps ==
  ASSUME Inv, LazyStep
  PROVE  Inv'
<1>0. Alive /\ UNCHANGED serverVars
  BY DEF LazyStep
<1>1. CASE Bind
  BY <1>0, <1>1, LoopTurns DEF Bind
<1>2. CASE StopsAccepting
  BY <1>0, <1>2, LoopTurns DEF StopsAccepting
<1>3. CASE Shutdown \/ ShutdownStop \/ ShutdownRemove
  BY <1>0, <1>3, ShutdownKeeps, ShutdownStopKeeps, ShutdownRemoveKeeps
<1>4. ASSUME NEW c \in Conns, Accept(c) \/ Lock(c) \/ Close(c)
      PROVE  Inv'
  BY <1>0, <1>4, AcceptKeeps, LockKeeps, CloseKeeps
<1>5. ASSUME NEW c \in Conns, HandlerStep(c)
      PROVE  Inv'
  BY <1>0, <1>5, FindExistingKeeps, ReuseKeeps, DiscardKeeps, PullKeeps, CreateKeeps,
     StartKeeps, UndoKeeps, HostPortKeeps, WaitForReadyKeeps, StopKeeps, RemoveKeeps,
     PublishKeeps, DialKeeps
     DEF HandlerStep
<1> QED BY <1>1, <1>2, <1>3, <1>4, <1>5 DEF LazyStep, LoopStep

LEMMA StutterKeeps ==
  ASSUME Inv, UNCHANGED vars
  PROVE  Inv'
<1>1. TypeOK' /\ Flags' /\ Dated' /\ ServedReady' /\ Accounted'
  BY DEF Inv, TypeOK, LazyTypeOK, Flags, Fresh, Dated, ServedReady, Accounted, Alive, Running, Here,
         vars, serverVars, lazyServiceVars, dockerVars, lazyVars
<1>2. ASSUME NEW d \in Conns PROVE HandlerFlags(d)' /\ Owned(d)'
  BY DEF Inv, HandlerFlags, Owned, Here, vars, lazyServiceVars, dockerVars, lazyVars
<1> QED BY <1>1, <1>2 DEF Inv

LEMMA NextKeeps == Inv /\ [Next]_vars => Inv'
<1> SUFFICES ASSUME Inv, [Next]_vars PROVE Inv'
  OBVIOUS
<1>1. CASE Exit
  BY <1>1, EndsKeeps DEF Exit, Inv, TypeOK
<1>2. CASE Killed
  BY <1>2, EndsKeeps DEF Killed
<1> QED BY <1>1, <1>2, UpKeeps, RunStepKeeps, ServiceStepKeeps, LazyStepKeeps, DockerKeeps,
           StutterKeeps DEF Next

LEMMA Invariance == Spec => []Inv
BY InitEstablishes, NextKeeps, PTL DEF Spec

-----------------------------------------------------------------------------
(* Before and after the shutdown                                           *)

\* The handler's calls that change a container or make one.
Calls(c) ==
  \/ FindExisting(c) \/ Reuse(c) \/ Discard(c) \/ Pull(c) \/ Create(c)
  \/ StartContainer(c) \/ Undo(c) \/ HostPort(c) \/ WaitForReady(c)
  \/ StopContainer(c) \/ RemoveContainer(c) \/ Publish(c)

LEMMA CallsAreStarting ==
  ASSUME NEW c \in Conns, Calls(c)
  PROVE  conns[c].at \in Starting
BY DEF Calls, FindExisting, Reuse, Discard, Pull, Create, StartContainer, Undo, HostPort,
       WaitForReady, StopContainer, RemoveContainer, Publish, CleansUp, Starting

\* What a step may do to the container is done by one of these.
LEMMA WhoTouches ==
  ASSUME [Next]_vars
  PROVE  \/ UNCHANGED <<container, faults, hostAddr>> /\ (loop' = "done" => loop = "done")
         \/ Up \/ Ends
         \/ Docker
         \/ Shutdown \/ ShutdownStop \/ ShutdownRemove
         \/ \E c \in Conns : Calls(c)
<1>1. CASE LazyStep
  BY <1>1 DEF LazyStep, LoopStep, HandlerStep, Calls, Bind, StopsAccepting, Accept, Lock, Dial, Close,
     dockerVars, lazyVars
<1>2. CASE RunStep
  BY <1>2 DEF RunStep, Interrupt, SeesInterrupt, SeesError, AllStopped, TimesOut, others,
     lazyServiceVars, dockerVars, lazyVars
<1>3. CASE ServiceStep
  BY <1>3 DEF ServiceStep, NativeBinds, NativeFails, NativeStops, LazyBindFails, others,
     lazyServiceVars, dockerVars, lazyVars
<1>4. CASE UNCHANGED vars
  BY <1>4 DEF vars, lazyServiceVars, dockerVars, lazyVars
<1> QED BY <1>1, <1>2, <1>3, <1>4 DEF Next, Exit, Killed

\* When the accept loop is done nobody makes a container, and the step that got it
\* there removed the one that served.
LEMMA FinalKept ==
  ASSUME Inv, ShutdownIsFinal, [Next]_vars, loop' = "done", faults' = 0, hostAddr' # 0
  PROVE  ~Here(hostAddr)'
<1>1. CASE UNCHANGED <<container, faults, hostAddr>> /\ loop = "done"
  BY <1>1 DEF ShutdownIsFinal, Here
<1>2. CASE Up \/ Ends
  BY <1>2 DEF Up, Ends, Inv, Flags, Fresh
<1>3. CASE Docker
  <2>1. faults \in Nat
    BY LazyAssumption DEF Inv, TypeOK, LazyTypeOK
  <2>2. BecomesReady
    BY <1>3, <2>1 DEF Docker, Dies
  <2>3. container'.id = container.id
    BY <2>2 DEF BecomesReady, Inv, TypeOK, LazyTypeOK, Container
  <2> QED BY <2>2, <2>3 DEF BecomesReady, lazyVars, ShutdownIsFinal, Here
<1>4. CASE Shutdown \/ ShutdownStop
  BY <1>4 DEF Shutdown, ShutdownStop, lazyVars, Inv, Flags
<1>5. CASE ShutdownRemove
  <2>1. hostAddr' = containerID
    BY <1>5 DEF ShutdownRemove, Inv, Flags
  <2>2. faults' # faults + 1
    BY LazyAssumption DEF Inv, TypeOK, LazyTypeOK
  <2>3. IF Here(containerID) THEN DoRemove(containerID) ELSE UNCHANGED <<container, lastId>>
    BY <1>5, <2>2 DEF ShutdownRemove
  <2>4. container' = NoContainer \/ (container' = container /\ ~Here(containerID))
    BY <2>3 DEF DoRemove
  <2> QED BY <2>1, <2>4 DEF Here
<1>6. ASSUME NEW c \in Conns, Calls(c)
      PROVE  ~Here(hostAddr)'
  <2>1. loop = "done"
    BY <1>6 DEF Calls, FindExisting, Reuse, Discard, Pull, Create, StartContainer, Undo, HostPort,
       WaitForReady, StopContainer, RemoveContainer, Publish, CleansUp
  <2>2. conns[c].at \in {"find", "pull"}
    BY <1>6, <2>1, CallsAreStarting DEF Inv, HandlerFlags
  <2>3. FindExisting(c) \/ Pull(c)
    BY <1>6, <2>2 DEF Calls, Reuse, Discard, Create, StartContainer, Undo, HostPort,
       WaitForReady, StopContainer, RemoveContainer, Publish, CleansUp
  <2>4. UNCHANGED <<container, hostAddr>>
    BY <2>3 DEF FindExisting, Pull, Goes, GivesUp, lazyVars
  <2>5. Made(conns[c].late) \/ Fails(conns[c].late)
    BY <2>3 DEF FindExisting, Pull
  <2>6. faults = 0
    BY <2>5, FailuresTyped, LazyAssumption DEF Inv, TypeOK, LazyTypeOK
  <2> QED BY <2>1, <2>4, <2>6 DEF ShutdownIsFinal, Here
<1> QED BY <1>1, <1>2, <1>3, <1>4, <1>5, <1>6, WhoTouches

\* Before the interrupt only Docker touches the container that serves.
LEMMA ServedKept ==
  ASSUME Inv, [Next]_vars, started, ~cancelled, Here(hostAddr)
  PROVE  /\ container' # NoContainer /\ container'.id = hostAddr
         /\ container'.state = container.state \/ faults' > faults
<1>1. CASE UNCHANGED <<container, faults, hostAddr>>
  BY <1>1 DEF Here
<1>2. CASE Up
  BY <1>2 DEF Up, Inv, Flags, Fresh
<1>3. CASE Ends \/ Shutdown
  BY <1>3 DEF Ends, Shutdown, dockerVars, Here
<1>4. CASE Docker
  <2>1. container \in Container /\ faults \in Nat
    BY LazyAssumption DEF Here, Inv, TypeOK, LazyTypeOK
  <2>2. container' \in Container /\ container'.id = container.id
    BY <1>4, <2>1 DEF Docker, BecomesReady, Dies, Container
  <2>3. container'.state = container.state \/ faults' > faults
    BY <1>4, <2>1 DEF Docker, BecomesReady, Dies, Container
  <2> QED BY <2>2, <2>3, NoContainerAssumption DEF Here
<1>5. CASE ShutdownStop \/ ShutdownRemove
  BY <1>5 DEF ShutdownStop, ShutdownRemove, Inv, Flags
<1>6. ASSUME NEW c \in Conns, Calls(c)
      PROVE  FALSE
  BY <1>6, CallsAreStarting DEF Inv, HandlerFlags
<1> QED BY <1>1, <1>2, <1>3, <1>4, <1>5, <1>6, WhoTouches

-----------------------------------------------------------------------------
(* Theorems                                                                *)

\* The variables have their types, and the mutex of LazyService is held by the
\* one who is in ensureContainer or in shutdown.
THEOREM ServerTypeCorrect == Spec => []TypeOK
<1>1. Inv => TypeOK
  BY DEF Inv
<1> QED BY <1>1, Invariance, PTL

\* handleConn sends a client to a container that has taken a connection,
\* whatever its Start, the other handlers, Docker and a restart do, but for two
\* failures or a container of an earlier process.
THEOREM ClientsReachReadyContainers == Spec => []ForwardsToHealthy
<1>1. ASSUME Inv PROVE ForwardsToHealthy
  <2> SUFFICES ASSUME NEW c \in Conns, conns[c].at \in {"dial", "proxy"}, Running(conns[c].id)
               PROVE  container.ready \/ conns[c].id <= before \/ faults > 1
    BY DEF ForwardsToHealthy
  <2>1. conns[c].id = hostAddr /\ hostAddr # 0
    BY <1>1 DEF Inv, HandlerFlags
  <2> QED BY <1>1, <2>1 DEF Inv, ServedReady
<1> QED BY <1>1, Invariance, PTL

\* A connection that takes the mutex after shutdown does not bring the service
\* up, for its context has ended, and shutdown removes the container unless
\* Docker failed.
THEOREM NothingStartsAfterShutdown == Spec => []ShutdownIsFinal
<1>1. Init => ShutdownIsFinal
  BY DEF Init, LazyInit, Fresh, ShutdownIsFinal
<1>2. ASSUME Inv, ShutdownIsFinal, [Next]_vars PROVE ShutdownIsFinal'
  <2>1. loop' = "done" => ~started'
    BY <1>2, NextKeeps DEF Inv, Flags
  <2> QED BY <1>2, <2>1, FinalKept DEF ShutdownIsFinal
<1> QED BY <1>1, <1>2, Invariance, PTL DEF Spec

\* While the service is started and not cancelled nobody holds its mutex, so no
\* call of ensureContainer or shutdown touches the container it serves from.
THEOREM ServingContainerIsLeftAlone == Spec => ServedContainerStays
<1>1. ASSUME Inv, [Next]_vars, started, ~cancelled, Here(hostAddr)
      PROVE  /\ container' # NoContainer /\ container'.id = hostAddr
             /\ container'.state = container.state \/ faults' > faults
  BY <1>1, ServedKept
<1> QED BY <1>1, Invariance, PTL DEF Spec, ServedContainerStays
=============================================================================
