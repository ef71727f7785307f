------------------------------- MODULE CloudRun -------------------------------
(***************************************************************************)
(* The Cloud Run emulator's service registry: internal/cloudrun/store.go   *)
(* and the handlers of service.go.  It keeps services in memory and runs   *)
(* nothing; every operation it answers with is done.  A service is kept as *)
(* its template, its UID and its URI; times and conditions are left out.   *)
(***************************************************************************)
EXTENDS Naturals, FiniteSets

CONSTANTS
  Services,      \* service names
  Templates,     \* what a client asks a service to be
  NoService      \* a name that is not in the services map

\* The UID is the number in it, the URI the name in it.
RunService == [template : Templates, uid : Nat \ {0}, uri : Services]

ASSUME NoServiceAssumption == NoService \notin RunService

VARIABLE
  services       \* Store.services

NoServices == [n \in Services |-> NoService]

Deployed == {n \in Services : services[n] # NoService}

CreateService(n, t) ==
  /\ n \notin Deployed
  /\ services' = [services EXCEPT ![n] =
       [template |-> t, uid |-> Cardinality(Deployed) + 1, uri |-> n]]

\* All but the template is kept.
UpdateService(n, t) ==
  /\ n \in Deployed
  /\ services' = [services EXCEPT ![n].template = t]

DeleteService(n) ==
  /\ n \in Deployed
  /\ services' = [services EXCEPT ![n] = NoService]

RunStep ==
  \E n \in Services :
    \/ \E t \in Templates : CreateService(n, t) \/ UpdateService(n, t)
    \/ DeleteService(n)

RunTypeOK == services \in [Services -> RunService \cup {NoService}]
=============================================================================
