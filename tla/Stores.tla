-------------------------------- MODULE Stores --------------------------------
(***************************************************************************)
(* The services that keep resources and answer requests about them: Secret *)
(* Manager, KMS, Cloud Run and Logging in one localgcp process.  They share *)
(* nothing but the process: when it restarts, secrets are read back and    *)
(* the rest is gone.                                                       *)
(***************************************************************************)
EXTENDS SecretManager, Kms, CloudRun, Logging

CONSTANT
  MaxCalls       \* bound: calls that change something, and restarts

ASSUME StoresAssumption == MaxCalls \in Nat

VARIABLE
  calls          \* how many there have been

vars == <<secretVars, kmsVars, services, logVars, calls>>

Init ==
  /\ SecretsInit /\ KmsInit /\ services = NoServices /\ LoggingInit
  /\ calls = 0

Restart ==
  /\ LoadSecrets
  /\ keyRings' = {}
  /\ keys' = [k \in Keys |-> NoKey]
  /\ versions' = [v \in VersionNames |-> NoVersion]
  /\ nextVer' = [k \in Keys |-> 0]
  /\ encrypting' = [c \in Callers |-> Idle]
  /\ outputs' = {}
  /\ UNCHANGED material
  /\ services' = NoServices
  /\ entries' = <<>> /\ written' = 0 /\ kept' = {}

Next ==
  /\ calls < MaxCalls /\ calls' = calls + 1
  /\ \/ SecretsStep /\ UNCHANGED <<kmsVars, services, logVars>>
     \/ KmsStep /\ UNCHANGED <<secretVars, services, logVars>>
     \/ RunStep /\ UNCHANGED <<secretVars, kmsVars, logVars>>
     \/ LoggingStep /\ UNCHANGED <<secretVars, kmsVars, services>>
     \/ Restart

Spec == Init /\ [][Next]_vars

-----------------------------------------------------------------------------
(* Properties                                                              *)

\* A number of a secret that is there before and after a step stands for the
\* same payload, or for none any more, and never for one again once destroyed.
SecretsKeep ==
  \A n \in Secrets : There(n) /\ secrets'[n] # NoSecret =>
    \A i \in DOMAIN secrets[n].versions :
      LET old == secrets[n].versions[i]
          new == secrets'[n].versions[i]
      IN /\ i \in DOMAIN secrets'[n].versions
         /\ new.num = old.num
         /\ new.payload = old.payload \/ new.state = "destroyed"
         /\ old.state = "destroyed" => new.state = "destroyed"

\* A version of a key has the same key material or none any more.
KeysKeep ==
  \A v \in VersionNames : versions[v] # NoVersion /\ versions'[v] # NoVersion =>
    versions'[v].material \in {versions[v].material, 0}

\* A service keeps its UID and its URI through all updates.
ServicesKeep ==
  \A n \in Deployed : services'[n] # NoService =>
    services'[n].uid = services[n].uid /\ services'[n].uri = services[n].uri

\* As long as a resource is there, no step changes what its name stands for; a
\* restart included, which brings no destroyed secret back.
NamesKeepTheirMeaning == [][SecretsKeep /\ KeysKeep /\ ServicesKeep]_vars
=============================================================================
