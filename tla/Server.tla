------------------------------- MODULE Server -------------------------------
(***************************************************************************)
(* The localgcp process: the up command of cmd/localgcp/main.go and        *)
(* Server.Run of internal/server/server.go, with one Docker-orchestrated   *)
(* service and native ones.                                                *)
(*                                                                         *)
(* All of them share the context Run makes.  Run returns when a service    *)
(* has failed or, after an interrupt, when all services have ended or the  *)
(* grace period is over; then the process ends, and so do its goroutines.  *)
(* Only the container is left to the next process.                         *)
(***************************************************************************)
EXTENDS LazyService

CONSTANTS
  Natives,     \* the native services
  MaxRuns      \* bound: processes started

ASSUME ServerAssumption == MaxRuns \in Nat

VARIABLES
  run,        \* where Run is; "off" when there is no process
  result,     \* how the last Run returned
  natives,    \* the Start of each native service
  errCh,      \* the services whose errors are in the channel
  runs,       \* processes started so far
  before      \* the containers created before this process

serverVars == <<run, result, natives, errCh, runs, before>>

vars == <<serverVars, cancelled, lazyServiceVars>>

Alive == run # "off"

Init ==
  /\ run = "off" /\ result = "none"
  /\ natives = [s \in Natives |-> "off"]
  /\ errCh = {}
  /\ runs = 0 /\ before = 0
  /\ cancelled = FALSE
  /\ LazyInit

-----------------------------------------------------------------------------
(* The process                                                             *)

\* The up command: containers that do not run are removed, if Docker does it,
\* and Run finds all ports free or returns at once.
Up ==
  /\ run = "off" /\ runs < MaxRuns
  /\ runs' = runs + 1
  /\ before' = lastId
  /\ \/ /\ container # NoContainer /\ container.state # "running"
        /\ container' = NoContainer /\ UNCHANGED faults
     \/ /\ container # NoContainer /\ container.state # "running"
        /\ Fails(FALSE) /\ UNCHANGED container
     \/ /\ container # NoContainer => container.state = "running"
        /\ UNCHANGED <<container, faults>>
  /\ \/ run' = "up" /\ result' = "none"
     \/ run' = "off" /\ result' = "error"
  /\ UNCHANGED <<natives, errCh, cancelled, lastId, lazyVars, mu, conns, loop>>

\* The goroutines and the variables of the process are gone.
Ends ==
  /\ run' = "off"
  /\ natives' = [s \in Natives |-> "off"]
  /\ errCh' = {}
  /\ cancelled' = FALSE
  /\ started' = FALSE /\ containerID' = 0 /\ hostAddr' = 0
  /\ mu' = Nobody
  /\ conns' = [c \in Conns |-> NoConn]
  /\ loop' = "off"
  /\ UNCHANGED <<runs, before, dockerVars>>

Exit == run = "returned" /\ Ends /\ UNCHANGED result

Killed == Alive /\ Ends /\ result' = "killed"

-----------------------------------------------------------------------------
(* Run                                                                     *)

others == <<runs, before, lazyServiceVars>>

Interrupt ==
  /\ run = "up" /\ ~cancelled
  /\ cancelled' = TRUE
  /\ UNCHANGED <<run, result, natives, errCh, others>>

\* The select of Run: it may see either when both are there.
SeesInterrupt ==
  /\ run = "up" /\ cancelled
  /\ run' = "draining"
  /\ UNCHANGED <<result, natives, errCh, cancelled, others>>

SeesError ==
  /\ run = "up" /\ errCh # {}
  /\ cancelled' = TRUE
  /\ run' = "returned" /\ result' = "error"
  /\ UNCHANGED <<natives, errCh, others>>

AllStopped ==
  /\ run = "draining"
  /\ \A s \in Natives : natives[s] = "finished"
  /\ loop \in {"done", "failed"}
  /\ run' = "returned" /\ result' = "stopped"
  /\ UNCHANGED <<natives, errCh, cancelled, others>>

\* A defective wait for the services: it has no limit.
NeverTimesOut ==
  /\ FALSE
  /\ UNCHANGED vars

TimesOut ==
  /\ run = "draining"
  /\ run' = "returned" /\ result' = "forced"
  /\ UNCHANGED <<natives, errCh, cancelled, others>>

-----------------------------------------------------------------------------
(* The services                                                            *)

\* The goroutine of a service ends; its error counts while nothing is cancelled.
Reports(s, failed) ==
  errCh' = IF failed /\ ~cancelled THEN errCh \cup {s} ELSE errCh

NativeBinds(s) ==
  /\ natives[s] = "off"
  /\ natives' = [natives EXCEPT ![s] = "serving"]
  /\ UNCHANGED <<run, result, errCh, cancelled, others>>

\* The port was taken since checkPorts, or the server broke down.
NativeFails(s) ==
  /\ natives[s] \in {"off", "serving"}
  /\ natives' = [natives EXCEPT ![s] = "finished"]
  /\ Reports(s, TRUE)
  /\ UNCHANGED <<run, result, cancelled, others>>

\* A graceful stop waits for the requests being served, so it may never end.
NativeStops(s) ==
  /\ natives[s] = "serving" /\ cancelled
  /\ natives' = [natives EXCEPT ![s] = "finished"]
  /\ UNCHANGED <<run, result, errCh, cancelled, others>>

LazyBindFails ==
  /\ loop = "off"
  /\ loop' = "failed"
  /\ Reports(Loop, TRUE)
  /\ UNCHANGED <<run, result, natives, runs, before, cancelled, dockerVars, lazyVars, mu, conns>>

\* A goroutine of this process does something of its own.
LazyStep ==
  /\ Alive
  /\ \/ Bind \/ LoopStep
     \/ \E c \in Conns : Accept(c) \/ Lock(c) \/ HandlerStep(c) \/ Close(c)
  /\ UNCHANGED serverVars

Docker == (BecomesReady \/ Dies) /\ UNCHANGED serverVars

RunStep == Interrupt \/ SeesInterrupt \/ SeesError \/ AllStopped \/ TimesOut

ServiceStep ==
  /\ Alive
  /\ \/ \E s \in Natives : NativeBinds(s) \/ NativeFails(s) \/ NativeStops(s)
     \/ LazyBindFails

Next ==
  \/ Up \/ Exit \/ Killed
  \/ RunStep \/ ServiceStep
  \/ LazyStep \/ Docker

-----------------------------------------------------------------------------
(* Fairness: goroutines run, Docker answers and its containers come up, the  *)
(* mutex is handed to whoever has waited for it.  Nothing says that clients  *)
(* come or go, or that a graceful stop ends.                                 *)

Own(A) == Alive /\ A /\ UNCHANGED serverVars

Fairness ==
  /\ WF_vars(SeesInterrupt) /\ WF_vars(TimesOut) /\ WF_vars(Exit)
  /\ WF_vars(BecomesReady /\ UNCHANGED serverVars)
  /\ WF_vars(Own(LoopStep))
  /\ \A c \in Conns : WF_vars(Own(HandlerStep(c))) /\ SF_vars(Own(Lock(c)))

Spec == Init /\ [][Next]_vars /\ Fairness

-----------------------------------------------------------------------------
(* Properties                                                              *)

\* The type invariant; the mutex is held by whoever is past taking it.
TypeOK ==
  /\ LazyTypeOK
  /\ run \in {"off", "up", "draining", "returned"}
  /\ result \in {"none", "error", "stopped", "forced", "killed"}
  /\ natives \in [Natives -> {"off", "serving", "finished"}]
  /\ errCh \subseteq Natives \cup {Loop}
  /\ runs \in 0..MaxRuns /\ before \in Ids
  /\ \A c \in Conns : conns[c].at \in Starting <=> mu = c
  /\ loop \in {"stop", "remove"} <=> mu = Loop

\* Once a container serves, nothing in the process stops or removes it before
\* an interrupt, however many connections come and whatever Docker fails.
ServedContainerStays ==
  [][started /\ ~cancelled /\ Here(hostAddr)
       => /\ container' # NoContainer /\ container'.id = hostAddr
          /\ container'.state = container.state \/ faults' > faults]_vars

\* A client is only sent to a container that has taken a connection before,
\* unless an earlier process left it running, which is not tried, or Docker
\* failed twice, in its start and again when it was to be cleaned up.
ForwardsToHealthy ==
  \A c \in Conns : conns[c].at \in {"dial", "proxy"} /\ Running(conns[c].id) =>
    container.ready \/ conns[c].id <= before \/ faults > 1

\* When the accept loop has shut down, no handler that came late brings the
\* service up again, and the container clients were sent to is gone, unless
\* Docker failed.
ShutdownIsFinal ==
  loop = "done" => ~started /\ (faults = 0 /\ hostAddr # 0 => ~Here(hostAddr))

\* Every connection gets to a container or is closed.
ConnectionsEnd ==
  \A c \in Conns : conns[c].at = "lock" ~> conns[c].at \in {"none", "proxy"}

\* An interrupt ends the process, whatever the services do.
InterruptEnds == cancelled ~> run = "off"

\* What the documentation says of an interrupt: when localgcp has shut down, the
\* container it started is stopped and removed.  Docker fails no call here.
ShutdownStopsContainer ==
  result = "stopped" /\ faults = 0 => ~(lastId > before /\ Running(lastId))
=============================================================================
