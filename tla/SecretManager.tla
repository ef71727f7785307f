--------------------------- MODULE SecretManager ----------------------------
(***************************************************************************)
(* The Secret Manager emulator: internal/secretmanager/store.go and the    *)
(* handlers of service.go, each of which makes one call of the store.  A   *)
(* store method runs under one mutex and ends, when it changed something,  *)
(* by writing all secrets to one JSON file.                                *)
(*                                                                         *)
(* Labels and times are left out, and so are requests without a name or    *)
(* payload, which the handlers refuse before the store is called.          *)
(***************************************************************************)
EXTENDS Naturals, Sequences

CONSTANTS
  Secrets,       \* secret names
  Payloads,      \* what a version may hold
  NoPayload,     \* no bytes, as a destroyed version has, or a payload without any
  NoSecret,      \* a name that is not in the secrets map
  MaxVersions    \* bound: versions added to one secret

ASSUME SecretsAssumption == NoPayload \in Payloads /\ MaxVersions \in Nat

Numbers == 1..MaxVersions

Version == [num : Numbers, state : {"enabled", "disabled", "destroyed"}, payload : Payloads]

Secret == [versions : Seq(Version), next : 1..(MaxVersions + 1)]

ASSUME NoSecretAssumption == NoSecret \notin Secret

SecretMap == [Secrets -> Secret \cup {NoSecret}]

VARIABLES
  secrets,       \* Store.secrets
  secretFile     \* secretmanager/state.json

secretVars == <<secrets, secretFile>>

NoSecrets == [n \in Secrets |-> NoSecret]

SecretsInit == secrets = NoSecrets /\ secretFile = NoSecrets

There(n) == secrets[n] # NoSecret

\* Every method that changes a secret ends so.
Persist == secretFile' = secrets'

Becomes(n, secret) ==
  /\ secrets' = [secrets EXCEPT ![n] = secret]
  /\ Persist

-----------------------------------------------------------------------------
(* Versions                                                                *)

\* The version ID "latest"; no version has this number.
Latest == 0

Named(n, id) == {i \in DOMAIN secrets[n].versions : secrets[n].versions[i].num = id}

\* The place of the version an ID names: the newest, whatever its state, or
\* the first one of that number.
Resolved(n, id) ==
  IF ~There(n) THEN {}
  ELSE IF id = Latest THEN {i \in DOMAIN secrets[n].versions : i = Len(secrets[n].versions)}
  ELSE {i \in Named(n, id) : \A j \in Named(n, id) : i <= j}

\* What an access of a version answers: one payload, or an error.
AccessSecretVersion(n, id) ==
  {secrets[n].versions[i].payload : i \in
     {j \in Resolved(n, id) : secrets[n].versions[j].state = "enabled"}}

-----------------------------------------------------------------------------
(* The operations                                                          *)

CreateSecret(n) ==
  /\ ~There(n)
  /\ Becomes(n, [versions |-> <<>>, next |-> 1])

DeleteSecret(n) ==
  /\ There(n)
  /\ Becomes(n, NoSecret)

AddSecretVersion(n, payload) ==
  /\ There(n) /\ secrets[n].next <= MaxVersions
  /\ Becomes(n, [versions |-> Append(secrets[n].versions,
                               [num |-> secrets[n].next, state |-> "enabled", payload |-> payload]),
                 next |-> secrets[n].next + 1])

\* EnableSecretVersion and DisableSecretVersion.
Switch(n, id, state) ==
  \E i \in Resolved(n, id) :
    /\ secrets[n].versions[i].state # "destroyed"
    /\ Becomes(n, [secrets[n] EXCEPT !.versions[i] = [@ EXCEPT !.state = state]])

\* A defective destruction: it forgets to write the file.
DestroyInMemory(n, id) ==
  \E i \in Resolved(n, id) :
    /\ secrets' = [secrets EXCEPT ![n].versions[i].state = "destroyed",
                                  ![n].versions[i].payload = NoPayload]
    /\ UNCHANGED secretFile

DestroySecretVersion(n, id) ==
  \E i \in Resolved(n, id) :
    Becomes(n, [secrets[n] EXCEPT
      !.versions[i] = [num |-> @.num, state |-> "destroyed", payload |-> NoPayload]])

SecretsStep ==
  \E n \in Secrets :
    \/ CreateSecret(n) \/ DeleteSecret(n)
    \/ \E payload \in Payloads : AddSecretVersion(n, payload)
    \/ \E id \in Numbers \cup {Latest} :
         \/ \E state \in {"enabled", "disabled"} : Switch(n, id, state)
         \/ DestroySecretVersion(n, id)

\* A defective load: the count of the versions is not read back.
LoadWithoutCount ==
  /\ secrets' = [n \in Secrets |-> IF secretFile[n] = NoSecret THEN NoSecret
                                                            ELSE [secretFile[n] EXCEPT !.next = 1]]
  /\ UNCHANGED secretFile

\* load in a new process; a file it was ended in the writing of is no JSON, and
\* counts as none.
LoadSecrets ==
  \/ secrets' = secretFile /\ UNCHANGED secretFile
  \/ secrets' = NoSecrets /\ secretFile' = NoSecrets

-----------------------------------------------------------------------------
(* Properties                                                              *)

SecretsTypeOK ==
  /\ secrets \in SecretMap
  /\ secretFile \in SecretMap

\* Every version is the one its name leads to, the newest is the latest, and a
\* number that was given is never given again: restarts keep the count.
VersionNamesResolve ==
  \A n \in {m \in Secrets : There(m)} : LET s == secrets[n] IN
    /\ \A i \in DOMAIN s.versions :
         Resolved(n, s.versions[i].num) = {i} /\ s.versions[i].num < s.next
    /\ \A i, j \in DOMAIN s.versions : i < j => s.versions[i].num < s.versions[j].num
=============================================================================
