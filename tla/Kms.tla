--------------------------------- MODULE Kms ----------------------------------
(***************************************************************************)
(* The KMS emulator: internal/kms/store.go and the handlers of service.go. *)
(* Keys live in memory only.  A store method runs under one mutex; Encrypt *)
(* and Decrypt make two calls of the store, one for the primary version's  *)
(* name and one with it.                                                   *)
(*                                                                         *)
(* A key's material is a number of its own for every one generated; what   *)
(* is encrypted, signed or authenticated is left out, and of the           *)
(* algorithms only the family is kept.                                     *)
(***************************************************************************)
EXTENDS Naturals

CONSTANTS
  KeyRings,      \* key ring names
  Keys,          \* crypto key names
  Callers,       \* requests to encrypt served at a time
  NoKey,         \* a name that is not in the keys map
  NoVersion,     \* a name that is not in the versions map
  Idle,          \* a caller with no request
  MaxMaterial    \* bound: key materials generated

ASSUME KmsAssumption == MaxMaterial \in Nat

Purposes == {"encrypt", "sign", "decrypt", "mac"}

Families == {"symmetric", "rsa", "ec", "hmac"}

CryptoKey == [purpose : Purposes, algorithm : Families, primary : {1}]

\* The names keys give their versions: only the first is ever made, unless a
\* failed creation left the count where it was.
VersionNames == Keys \X {1, 2}

\* Material 0 is none.
KeyVersion == [state : {"enabled", "destroyed"}, algorithm : Families, material : 0..MaxMaterial]

ASSUME NoneAssumption ==
  NoKey \notin CryptoKey /\ NoVersion \notin KeyVersion /\ Idle \notin VersionNames

\* A ciphertext, a signature or a MAC some client has.
Output == [version : VersionNames, material : 0..MaxMaterial]

VARIABLES
  keyRings,     \* Store.keyRings
  keys,         \* Store.keys
  versions,     \* Store.versions
  nextVer,      \* Store.nextVer; 0 is no entry
  material,     \* key materials generated so far
  encrypting,   \* the version name each call of Encrypt works with
  outputs       \* what clients were given by this process

kmsVars == <<keyRings, keys, versions, nextVer, material, encrypting, outputs>>

\* A store of a process that starts.
NoKeys ==
  /\ keyRings = {}
  /\ keys = [k \in Keys |-> NoKey]
  /\ versions = [v \in VersionNames |-> NoVersion]
  /\ nextVer = [k \in Keys |-> 0]
  /\ encrypting = [c \in Callers |-> Idle]
  /\ outputs = {}

KmsInit == NoKeys /\ material = 0

-----------------------------------------------------------------------------

CreateKeyRing(r) ==
  /\ r \notin keyRings
  /\ keyRings' = keyRings \cup {r}
  /\ UNCHANGED <<keys, versions, nextVer, material, encrypting, outputs>>

\* The algorithm of a purpose when the request names none.
DefaultAlgorithm(purpose) ==
  CASE purpose = "sign" -> "ec"
    [] purpose = "decrypt" -> "rsa"
    [] purpose = "mac" -> "hmac"
    [] OTHER -> "symmetric"

\* A defective creation: it goes on with the count a failed one left.
GoesOn(k) == IF nextVer[k] = 0 THEN 1 ELSE nextVer[k]

\* The number of the version a key is created with.
FirstNumber(k) == 1

\* The key ring need not exist.  Generating an RSA or EC key may fail: then the
\* key is taken out again, and its count stays.
CreateCryptoKey(k, purpose, algorithm) ==
  LET num == FirstNumber(k) IN
  /\ keys[k] = NoKey
  /\ material < MaxMaterial
  /\ nextVer' = [nextVer EXCEPT ![k] = num + 1]
  /\ \/ /\ keys' = [keys EXCEPT ![k] = [purpose |-> purpose, algorithm |-> algorithm, primary |-> 1]]
        /\ material' = material + 1
        /\ versions' = [versions EXCEPT ![<<k, num>>] =
             [state |-> "enabled", algorithm |-> algorithm, material |-> material + 1]]
     \/ algorithm \in {"rsa", "ec"} /\ UNCHANGED <<keys, versions, material>>
  /\ UNCHANGED <<keyRings, encrypting, outputs>>

DestroyVersion(v) ==
  /\ versions[v] # NoVersion
  /\ versions' = [versions EXCEPT ![v] =
       [state |-> "destroyed", algorithm |-> @.algorithm, material |-> 0]]
  /\ UNCHANGED <<keyRings, keys, nextVer, material, encrypting, outputs>>

\* The name of the primary version, if that exists.
PrimaryVersion(k) ==
  {v \in VersionNames : v[1] = k /\ keys[k] # NoKey /\ v[2] = keys[k].primary /\ versions[v] # NoVersion}

\* A version's key is used when the version is enabled and has one of that kind.
CanUse(v, algorithms) ==
  /\ versions[v] # NoVersion
  /\ versions[v].state = "enabled"
  /\ versions[v].algorithm \in algorithms

HandOut(v) == outputs' = outputs \cup {[version |-> v, material |-> versions[v].material]}

EncryptResolves(c, k) ==
  /\ encrypting[c] = Idle
  /\ \E v \in PrimaryVersion(k) : encrypting' = [encrypting EXCEPT ![c] = v]
  /\ UNCHANGED <<keyRings, keys, versions, nextVer, material, outputs>>

\* Meanwhile the version may have been destroyed.
Encrypt(c) ==
  /\ encrypting[c] # Idle
  /\ IF CanUse(encrypting[c], {"symmetric"}) THEN HandOut(encrypting[c]) ELSE UNCHANGED outputs
  /\ encrypting' = [encrypting EXCEPT ![c] = Idle]
  /\ UNCHANGED <<keyRings, keys, versions, nextVer, material>>

\* AsymmetricSign and MacSign; the version is named by the client.
Sign(v) ==
  /\ CanUse(v, {"rsa", "ec", "hmac"})
  /\ HandOut(v)
  /\ UNCHANGED <<keyRings, keys, versions, nextVer, material, encrypting>>

\* What becomes of an output: Decrypt takes the primary version to a ciphertext,
\* MacVerify and the holders of a public key the version that made it.  With
\* another key, XOR gives other bytes and no error.
Undone(o) ==
  \A v \in PrimaryVersion(o.version[1]) \cup {o.version} :
    CanUse(v, Families) => versions[v].material = o.material

KmsStep ==
  \/ \E r \in KeyRings : CreateKeyRing(r)
  \/ \E k \in Keys, purpose \in Purposes :
       \E algorithm \in Families \cup {DefaultAlgorithm(purpose)} :
         CreateCryptoKey(k, purpose, algorithm)
  \/ \E v \in VersionNames : DestroyVersion(v) \/ Sign(v)
  \/ \E c \in Callers : Encrypt(c) \/ \E k \in Keys : EncryptResolves(c, k)

-----------------------------------------------------------------------------
(* Properties                                                              *)

KmsTypeOK ==
  /\ keyRings \subseteq KeyRings
  /\ keys \in [Keys -> CryptoKey \cup {NoKey}]
  /\ versions \in [VersionNames -> KeyVersion \cup {NoVersion}]
  /\ nextVer \in [Keys -> 0..3]
  /\ material \in 0..MaxMaterial
  /\ encrypting \in [Callers -> VersionNames \cup {Idle}]
  /\ outputs \subseteq Output

\* Every key has its primary version, also one whose creation failed before.
\* What a client was given was made with a key, also when the version was
\* destroyed while Encrypt was on its way to it, and is undone right or, once
\* the version is destroyed, not at all: the process never puts another key in
\* its place.
KeysWork ==
  /\ \A k \in Keys : keys[k] # NoKey => PrimaryVersion(k) # {}
  /\ \A o \in outputs : o.material # 0 /\ Undone(o)
=============================================================================
