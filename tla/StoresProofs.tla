---------------------------- MODULE StoresProofs -----------------------------
(* Safety of Secret Manager, KMS, Cloud Run and Logging, for every value of the bounds. *)
EXTENDS Stores, FiniteSetTheorems, SequenceTheorems, WellFoundedInduction, TLAPS

-----------------------------------------------------------------------------
(* Secret Manager                                                          *)

\* No version is ever taken out of a secret, so that a version's number is its
\* place and the next number is one more; the file has what the memory has.
Counted(s) ==
  /\ s.next = Len(s.versions) + 1
  /\ \A i \in DOMAIN s.versions : s.versions[i].num = i

SecretsInv ==
  /\ SecretsTypeOK
  /\ secretFile = secrets
  /\ \A n \in Secrets : There(n) => Counted(secrets[n])

LEMMA SecretParts ==
  ASSUME SecretsInv, NEW n \in Secrets, There(n)
  PROVE  /\ secrets[n] \in Secret /\ secrets[n].versions \in Seq(Version)
         /\ secrets[n].next \in 1..(MaxVersions + 1)
         /\ Len(secrets[n].versions) \in Nat
         /\ DOMAIN secrets[n].versions = 1..Len(secrets[n].versions)
         /\ \A i \in DOMAIN secrets[n].versions :
              secrets[n].versions[i] \in Version /\ secrets[n].versions[i].num = i
         /\ secrets[n].next = Len(secrets[n].versions) + 1
<1>1. secrets[n] \in Secret
  BY DEF SecretsInv, SecretsTypeOK, SecretMap, There
<1>2. secrets[n].versions \in Seq(Version) /\ secrets[n].next \in 1..(MaxVersions + 1)
  BY <1>1 DEF Secret
<1> QED BY <1>1, <1>2 DEF SecretsInv, Counted

\* A secret that is replaced by one in the type and in order.
LEMMA OneSecret ==
  ASSUME SecretsInv, NEW n \in Secrets, NEW s \in Secret \cup {NoSecret},
         Becomes(n, s), s # NoSecret => Counted(s)
  PROVE  SecretsInv'
<1>1. /\ secrets' = [secrets EXCEPT ![n] = s] /\ secretFile' = secrets'
      /\ secrets \in [Secrets -> Secret \cup {NoSecret}]
  BY DEF Becomes, Persist, SecretsInv, SecretsTypeOK, SecretMap
<1>2. SecretsTypeOK'
  BY <1>1 DEF SecretsTypeOK, SecretMap
<1>3. ASSUME NEW m \in Secrets, There(m)' PROVE Counted(secrets[m])'
  <2>1. CASE m = n
    BY <1>1, <1>3, <2>1 DEF There, Counted
  <2>2. CASE m # n
    <3>1. secrets'[m] = secrets[m]
      BY <1>1, <2>2
    <3> QED BY <3>1, <1>3 DEF There, Counted, SecretsInv
  <2> QED BY <2>1, <2>2
<1> QED BY <1>1, <1>2, <1>3 DEF SecretsInv

\* What is left of one secret by a step: a longer list, or one version changed.
Kept(s, t) ==
  \A i \in DOMAIN s.versions :
    /\ i \in DOMAIN t.versions
    /\ t.versions[i].num = s.versions[i].num
    /\ t.versions[i].payload = s.versions[i].payload \/ t.versions[i].state = "destroyed"
    /\ s.versions[i].state = "destroyed" => t.versions[i].state = "destroyed"

LEMMA OneSecretKeeps ==
  ASSUME SecretsInv, NEW n \in Secrets, NEW s \in Secret \cup {NoSecret},
         Becomes(n, s), There(n) /\ s # NoSecret => Kept(secrets[n], s)
  PROVE  SecretsKeep
<1>1. secrets' = [secrets EXCEPT ![n] = s] /\ secrets \in [Secrets -> Secret \cup {NoSecret}]
  BY DEF Becomes, SecretsInv, SecretsTypeOK, SecretMap
<1>2. ASSUME NEW m \in Secrets, There(m), secrets'[m] # NoSecret PROVE Kept(secrets[m], secrets'[m])
  <2>1. CASE m = n
    BY <1>1, <1>2, <2>1
  <2>2. CASE m # n
    BY <1>1, <2>2 DEF Kept
  <2> QED BY <2>1, <2>2
<1> QED BY <1>2 DEF SecretsKeep, Kept

\* One version of a secret changed in place.
LEMMA SecretParted ==
  ASSUME NEW s \in Secret, NEW i, NEW v
  PROVE  LET t == [s EXCEPT !.versions[i] = v] IN
         /\ t.versions = [s.versions EXCEPT ![i] = v] /\ t.next = s.next
         /\ t = [versions |-> [s.versions EXCEPT ![i] = v], next |-> s.next]
<1> DEFINE vs == [s.versions EXCEPT ![i] = v]
           t == [s EXCEPT !.versions = vs]
<1>1. t = [s EXCEPT !.versions[i] = v]
  OBVIOUS
<1> HIDE DEF vs
<1>2. t.versions = vs /\ t.next = s.next /\ t = [versions |-> vs, next |-> s.next]
  BY DEF Secret
<1> QED BY <1>1, <1>2 DEF vs

LEMMA OneVersion ==
  ASSUME SecretsInv, NEW n \in Secrets, There(n), NEW i \in DOMAIN secrets[n].versions,
         NEW v \in Version, v.num = secrets[n].versions[i].num
  PROVE  LET t == [secrets[n] EXCEPT !.versions[i] = v] IN
         /\ t \in Secret /\ Counted(t)
         /\ t.versions = [secrets[n].versions EXCEPT ![i] = v]
         /\ DOMAIN t.versions = DOMAIN secrets[n].versions
<1> DEFINE vs == [secrets[n].versions EXCEPT ![i] = v]
           t == [secrets[n] EXCEPT !.versions[i] = v]
<1>1. vs \in Seq(Version) /\ Len(vs) = Len(secrets[n].versions) /\ DOMAIN vs = DOMAIN secrets[n].versions
  BY SecretParts
<1>2. t.versions = vs /\ t.next = secrets[n].next /\ t = [versions |-> vs, next |-> secrets[n].next]
  <2>1. secrets[n] \in Secret
    BY SecretParts
  <2> QED BY <2>1, SecretParted
<1>3. \A j \in DOMAIN vs : vs[j].num = j
  BY <1>1, SecretParts
<1>4. t \in Secret
  BY <1>1, <1>2, SecretParts DEF Secret
<1> QED BY <1>1, <1>2, <1>3, <1>4, SecretParts DEF Counted

LEMMA SecretsStepInv ==
  ASSUME SecretsInv, SecretsStep
  PROVE  SecretsInv' /\ SecretsKeep
<1>1. ASSUME NEW n \in Secrets, CreateSecret(n) PROVE SecretsInv' /\ SecretsKeep
  <2> DEFINE s == [versions |-> <<>>, next |-> 1]
  <2>1. s \in Secret /\ Counted(s)
    BY SecretsAssumption DEF Secret, Counted
  <2>2. Becomes(n, s) /\ ~There(n)
    BY <1>1 DEF CreateSecret
  <2> QED BY <2>1, <2>2, OneSecret, OneSecretKeeps
<1>2. ASSUME NEW n \in Secrets, DeleteSecret(n) PROVE SecretsInv' /\ SecretsKeep
  BY <1>2, OneSecret, OneSecretKeeps DEF DeleteSecret
<1>3. ASSUME NEW n \in Secrets, NEW p \in Payloads, AddSecretVersion(n, p) PROVE SecretsInv' /\ SecretsKeep
  <2> DEFINE v == [num |-> secrets[n].next, state |-> "enabled", payload |-> p]
             s == [versions |-> Append(secrets[n].versions, v), next |-> secrets[n].next + 1]
  <2>1. There(n) /\ secrets[n].next <= MaxVersions /\ Becomes(n, s)
    BY <1>3 DEF AddSecretVersion
  <2>2. v \in Version /\ v.num = secrets[n].next
    BY <2>1, SecretParts DEF Version, Numbers
  <2> HIDE DEF v
  <2>3. /\ s.versions \in Seq(Version) /\ Len(s.versions) = Len(secrets[n].versions) + 1
        /\ DOMAIN s.versions = 1..Len(s.versions)
        /\ \A i \in DOMAIN secrets[n].versions : i \in DOMAIN s.versions /\ s.versions[i] = secrets[n].versions[i]
        /\ s.versions[Len(secrets[n].versions) + 1] = v
    BY <2>1, <2>2, SecretParts
  <2>4. s \in Secret
    <3>1. secrets[n].next \in Nat /\ secrets[n].next >= 1 /\ MaxVersions \in Nat
      BY <2>1, SecretParts, SecretsAssumption
    <3>2. secrets[n].next + 1 \in 1..(MaxVersions + 1)
      BY <2>1, <3>1
    <3> QED BY <3>2, <2>3 DEF Secret
  <2>5. Counted(s)
    <3>1. \A i \in DOMAIN s.versions : i \in DOMAIN secrets[n].versions \/ i = Len(secrets[n].versions) + 1
      BY <2>1, <2>3, SecretParts
    <3>2. \A i \in DOMAIN s.versions : s.versions[i].num = i
      BY <2>1, <2>2, <2>3, <3>1, SecretParts
    <3> QED BY <2>1, <2>3, <3>2, SecretParts DEF Counted
  <2>6. Kept(secrets[n], s)
    BY <2>3 DEF Kept
  <2> HIDE DEF s
  <2> QED BY <2>1, <2>4, <2>5, <2>6, OneSecret, OneSecretKeeps
<1>4. ASSUME NEW n \in Secrets, NEW id \in Numbers \cup {Latest}, NEW state \in {"enabled", "disabled"},
             Switch(n, id, state)
      PROVE  SecretsInv' /\ SecretsKeep
  <2>1. PICK i \in Resolved(n, id) :
          /\ secrets[n].versions[i].state # "destroyed"
          /\ Becomes(n, [secrets[n] EXCEPT !.versions[i] = [@ EXCEPT !.state = state]])
    BY <1>4 DEF Switch
  <2>2. There(n) /\ i \in DOMAIN secrets[n].versions
    BY <2>1 DEF Resolved, Named
  <2> DEFINE v == [secrets[n].versions[i] EXCEPT !.state = state]
             t == [secrets[n] EXCEPT !.versions[i] = v]
  <2>3. v \in Version /\ v.num = secrets[n].versions[i].num /\ v.payload = secrets[n].versions[i].payload
    BY <2>2, SecretParts DEF Version
  <2>7. Becomes(n, t)
    BY <2>1
  <2> HIDE DEF v
  <2>5. /\ t \in Secret /\ Counted(t) /\ t.versions = [secrets[n].versions EXCEPT ![i] = v]
        /\ DOMAIN t.versions = DOMAIN secrets[n].versions
    BY <2>2, <2>3, OneVersion
  <2>6. Kept(secrets[n], t)
    BY <2>1, <2>2, <2>3, <2>5 DEF Kept
  <2> HIDE DEF t
  <2> QED BY <2>5, <2>6, <2>7, OneSecret, OneSecretKeeps
<1>5. ASSUME NEW n \in Secrets, NEW id \in Numbers \cup {Latest}, DestroySecretVersion(n, id)
      PROVE  SecretsInv' /\ SecretsKeep
  <2> DEFINE V(i) == [num |-> secrets[n].versions[i].num, state |-> "destroyed", payload |-> NoPayload]
  <2>1. PICK i \in Resolved(n, id) : Becomes(n, [secrets[n] EXCEPT !.versions[i] = V(i)])
    BY <1>5 DEF DestroySecretVersion
  <2>2. There(n) /\ i \in DOMAIN secrets[n].versions
    BY <2>1 DEF Resolved, Named
  <2> DEFINE v == V(i)
             t == [secrets[n] EXCEPT !.versions[i] = v]
  <2>3. v \in Version /\ v.num = secrets[n].versions[i].num /\ v.state = "destroyed"
    BY <2>2, SecretParts, SecretsAssumption DEF Version
  <2>7. Becomes(n, t)
    BY <2>1
  <2> HIDE DEF v
  <2>5. /\ t \in Secret /\ Counted(t) /\ t.versions = [secrets[n].versions EXCEPT ![i] = v]
        /\ DOMAIN t.versions = DOMAIN secrets[n].versions
    BY <2>2, <2>3, OneVersion
  <2>6. Kept(secrets[n], t)
    BY <2>2, <2>3, <2>5 DEF Kept
  <2> HIDE DEF t
  <2> QED BY <2>5, <2>6, <2>7, OneSecret, OneSecretKeeps
<1> QED BY <1>1, <1>2, <1>3, <1>4, <1>5 DEF SecretsStep

LEMMA LoadInv ==
  ASSUME SecretsInv, LoadSecrets
  PROVE  SecretsInv' /\ SecretsKeep
<1>1. CASE secrets' = secretFile /\ UNCHANGED secretFile
  <2>1. secrets' = secrets /\ secretFile' = secretFile
    BY <1>1 DEF SecretsInv
  <2>2. SecretsInv'
    BY <2>1 DEF SecretsInv, SecretsTypeOK, There, Counted
  <2> QED BY <2>1, <2>2 DEF SecretsKeep
<1>2. CASE secrets' = NoSecrets /\ secretFile' = NoSecrets
  <2>1. \A n \in Secrets : secrets'[n] = NoSecret
    BY <1>2 DEF NoSecrets
  <2>2. SecretsInv'
    BY <1>2, <2>1 DEF SecretsInv, SecretsTypeOK, SecretMap, There, NoSecrets
  <2> QED BY <2>1, <2>2 DEF SecretsKeep
<1> QED BY <1>1, <1>2 DEF LoadSecrets

LEMMA SecretsStay ==
  ASSUME SecretsInv, UNCHANGED secretVars
  PROVE  SecretsInv' /\ SecretsKeep
<1>1. secrets' = secrets /\ secretFile' = secretFile
  BY DEF secretVars
<1> QED BY <1>1 DEF SecretsInv, SecretsTypeOK, There, Counted, SecretsKeep

LEMMA SecretsInit_ == SecretsInit => SecretsInv
BY DEF SecretsInit, SecretsInv, SecretsTypeOK, SecretMap, There, NoSecrets

LEMMA SecretsResolve == SecretsInv => VersionNamesResolve
<1> SUFFICES ASSUME SecretsInv, NEW n \in Secrets, There(n)
             PROVE  LET s == secrets[n] IN
                    /\ \A i \in DOMAIN s.versions :
                         Resolved(n, s.versions[i].num) = {i} /\ s.versions[i].num < s.next
                    /\ \A i, j \in DOMAIN s.versions : i < j => s.versions[i].num < s.versions[j].num
  BY DEF VersionNamesResolve
<1>1. /\ Len(secrets[n].versions) \in Nat
      /\ DOMAIN secrets[n].versions = 1..Len(secrets[n].versions)
      /\ \A i \in DOMAIN secrets[n].versions : secrets[n].versions[i].num = i
      /\ secrets[n].next = Len(secrets[n].versions) + 1
  BY SecretParts
<1>2. ASSUME NEW i \in DOMAIN secrets[n].versions PROVE Resolved(n, i) = {i}
  <2>1. Named(n, i) = {i}
    BY <1>1 DEF Named
  <2>2. i # Latest
    BY <1>1 DEF Latest
  <2> QED BY <2>1, <2>2, <1>1 DEF Resolved
<1> QED BY <1>1, <1>2

-----------------------------------------------------------------------------
(* KMS                                                                     *)

\* Every key has one version, its first, and no version is without its key.
KeysHaveVersions ==
  /\ \A v \in VersionNames : versions[v] # NoVersion => v[2] = 1 /\ keys[v[1]] # NoKey
  /\ \A k \in Keys : keys[k] # NoKey => versions[<<k, 1>>] # NoVersion

\* Only a destroyed version is without material.
EnabledHaveMaterial ==
  \A v \in VersionNames : versions[v] # NoVersion => (versions[v].state = "enabled" <=> versions[v].material # 0)

\* The version that made an output is there, with the same material or none.
OutputsHaveVersions ==
  \A o \in outputs : o.material # 0 /\ versions[o.version] # NoVersion /\ versions[o.version].material \in {o.material, 0}

KmsInv == KmsTypeOK /\ KeysHaveVersions /\ EnabledHaveMaterial /\ OutputsHaveVersions

LEMMA KmsParts ==
  ASSUME KmsTypeOK
  PROVE  /\ keyRings \subseteq KeyRings
         /\ keys \in [Keys -> CryptoKey \cup {NoKey}]
         /\ versions \in [VersionNames -> KeyVersion \cup {NoVersion}]
         /\ nextVer \in [Keys -> 0..3]
         /\ material \in 0..MaxMaterial
         /\ encrypting \in [Callers -> VersionNames \cup {Idle}]
         /\ outputs \subseteq Output
BY DEF KmsTypeOK

\* A step that changes neither keys nor versions nor outputs.
LEMMA KmsKeysStay ==
  ASSUME KmsInv, UNCHANGED <<keys, versions, outputs>>, KmsTypeOK'
  PROVE  KmsInv' /\ KeysKeep
BY DEF KmsInv, KeysHaveVersions, EnabledHaveMaterial, OutputsHaveVersions, KeysKeep

LEMMA KmsOutputs ==
  ASSUME KmsInv, NEW v \in VersionNames, CanUse(v, Families), HandOut(v),
         UNCHANGED <<keyRings, keys, versions, nextVer, material>>,
         encrypting' \in [Callers -> VersionNames \cup {Idle}]
  PROVE  KmsInv' /\ KeysKeep
<1> DEFINE o == [version |-> v, material |-> versions[v].material]
<1>1. versions[v] \in KeyVersion /\ versions[v].state = "enabled"
  BY KmsParts DEF KmsInv, CanUse
<1>2. versions[v].material \in 1..MaxMaterial
  BY <1>1, KmsAssumption DEF KmsInv, EnabledHaveMaterial, KeyVersion, CanUse
<1>3. o \in Output /\ outputs' = outputs \cup {o}
  BY <1>2 DEF Output, HandOut
<1>4. KmsTypeOK'
  BY <1>3 DEF KmsInv, KmsTypeOK
<1>5. OutputsHaveVersions'
  BY <1>1, <1>2, <1>3 DEF KmsInv, OutputsHaveVersions, CanUse
<1> QED BY <1>4, <1>5 DEF KmsInv, KeysHaveVersions, EnabledHaveMaterial, KeysKeep

LEMMA CreateKeyInv ==
  ASSUME KmsInv, NEW k \in Keys, NEW purpose \in Purposes,
         NEW algorithm \in Families \cup {DefaultAlgorithm(purpose)},
         CreateCryptoKey(k, purpose, algorithm)
  PROVE  KmsInv' /\ KeysKeep
<1>1. algorithm \in Families
  BY DEF Families, DefaultAlgorithm
<1>2. /\ keys[k] = NoKey /\ material < MaxMaterial
      /\ nextVer' = [nextVer EXCEPT ![k] = 2]
      /\ UNCHANGED <<keyRings, encrypting, outputs>>
  BY DEF CreateCryptoKey, FirstNumber
<1>3. nextVer' \in [Keys -> 0..3]
  BY <1>2 DEF KmsInv, KmsTypeOK
<1>4. CASE UNCHANGED <<keys, versions, material>>
  <2>1. KmsTypeOK'
    BY <1>2, <1>3, <1>4 DEF KmsInv, KmsTypeOK
  <2> QED BY <1>2, <1>4, <2>1, KmsKeysStay
<1>5. CASE ~UNCHANGED <<keys, versions, material>>
  <2> DEFINE key == [purpose |-> purpose, algorithm |-> algorithm, primary |-> 1]
             new == [state |-> "enabled", algorithm |-> algorithm, material |-> material + 1]
             name == <<k, 1>>
  <2>1. /\ keys' = [keys EXCEPT ![k] = key] /\ material' = material + 1
        /\ versions' = [versions EXCEPT ![name] = new]
    BY <1>5 DEF CreateCryptoKey, FirstNumber
  <2>2. name \in VersionNames
    BY DEF VersionNames
  <2>3. material + 1 \in 1..MaxMaterial /\ material + 1 \in 0..MaxMaterial
    BY <1>2, KmsParts, KmsAssumption DEF KmsInv
  <2>4. key \in CryptoKey /\ key # NoKey /\ new \in KeyVersion /\ new # NoVersion
    BY <1>1, <2>3, NoneAssumption DEF CryptoKey, KeyVersion
  <2>5. KmsTypeOK'
    BY <1>2, <1>3, <2>1, <2>3, <2>4 DEF KmsInv, KmsTypeOK
  <2>6. versions[name] = NoVersion
    BY <1>2, <2>2 DEF KmsInv, KeysHaveVersions
  <2>7. \A v \in VersionNames : v # name => versions'[v] = versions[v]
    BY <2>1, KmsParts DEF KmsInv
  <2>8. versions'[name] = new /\ keys'[k] = key
    BY <2>1, <2>2, KmsParts DEF KmsInv
  <2>9. \A j \in Keys : j # k => keys'[j] = keys[j]
    BY <2>1, KmsParts DEF KmsInv
  <2> HIDE DEF key
  <2>10. KeysHaveVersions'
    <3>1. ASSUME NEW v \in VersionNames, versions'[v] # NoVersion PROVE v[2] = 1 /\ keys'[v[1]] # NoKey
      <4>1. CASE v = name
        BY <2>4, <2>8, <4>1
      <4>2. CASE v # name
        BY <2>4, <2>7, <2>8, <2>9, <3>1, <4>2 DEF KmsInv, KeysHaveVersions, VersionNames
      <4> QED BY <4>1, <4>2
    <3>2. ASSUME NEW j \in Keys, keys'[j] # NoKey PROVE versions'[<<j, 1>>] # NoVersion
      <4>1. CASE j = k
        BY <2>4, <2>8, <4>1
      <4>2. CASE j # k
        <5>1. <<j, 1>> \in VersionNames /\ <<j, 1>> # name
          BY <4>2 DEF VersionNames
        <5> QED BY <2>7, <2>9, <3>2, <4>2, <5>1 DEF KmsInv, KeysHaveVersions
      <4> QED BY <4>1, <4>2
    <3> QED BY <3>1, <3>2 DEF KeysHaveVersions
  <2>11. EnabledHaveMaterial'
    <3>1. new.state = "enabled" /\ new.material # 0
      BY <2>3
    <3> QED BY <2>7, <2>8, <3>1 DEF KmsInv, EnabledHaveMaterial
  <2>12. OutputsHaveVersions'
    <3>1. \A o \in outputs : o.version \in VersionNames /\ o.version # name
      BY <2>6, KmsParts DEF KmsInv, OutputsHaveVersions, Output
    <3> QED BY <1>2, <2>7, <3>1 DEF KmsInv, OutputsHaveVersions
  <2>13. KeysKeep
    BY <2>6, <2>7 DEF KeysKeep
  <2> QED BY <2>5, <2>10, <2>11, <2>12, <2>13 DEF KmsInv
<1> QED BY <1>4, <1>5

LEMMA DestroyKeyInv ==
  ASSUME KmsInv, NEW v \in VersionNames, DestroyVersion(v)
  PROVE  KmsInv' /\ KeysKeep
<1> DEFINE new == [state |-> "destroyed", algorithm |-> versions[v].algorithm, material |-> 0]
<1>1. /\ versions[v] # NoVersion /\ versions' = [versions EXCEPT ![v] = new]
      /\ UNCHANGED <<keyRings, keys, nextVer, material, encrypting, outputs>>
  BY DEF DestroyVersion
<1>2. versions[v] \in KeyVersion
  BY <1>1, KmsParts DEF KmsInv
<1>3. new \in KeyVersion /\ new # NoVersion
  BY <1>2, NoneAssumption, KmsAssumption DEF KeyVersion
<1>4. KmsTypeOK'
  BY <1>1, <1>3 DEF KmsInv, KmsTypeOK
<1>5. versions'[v] = new /\ \A w \in VersionNames : w # v => versions'[w] = versions[w]
  BY <1>1, KmsParts DEF KmsInv
<1>6. new.state = "destroyed" /\ new.material = 0
  OBVIOUS
<1> HIDE DEF new
<1>7. KeysHaveVersions'
  <2>1. \A w \in VersionNames : versions'[w] # NoVersion <=> versions[w] # NoVersion
    BY <1>1, <1>3, <1>5
  <2>2. \A k \in Keys : <<k, 1>> \in VersionNames
    BY DEF VersionNames
  <2> QED BY <1>1, <2>1, <2>2 DEF KmsInv, KeysHaveVersions
<1>8. EnabledHaveMaterial'
  BY <1>5, <1>6 DEF KmsInv, EnabledHaveMaterial
<1>9. OutputsHaveVersions'
  <2>1. \A o \in outputs : o.version \in VersionNames
    BY KmsParts DEF KmsInv, Output
  <2> QED BY <1>1, <1>3, <1>5, <1>6, <2>1 DEF KmsInv, OutputsHaveVersions
<1>10. KeysKeep
  BY <1>5, <1>6 DEF KeysKeep
<1> QED BY <1>4, <1>7, <1>8, <1>9, <1>10 DEF KmsInv

LEMMA KmsStepInv ==
  ASSUME KmsInv, KmsStep
  PROVE  KmsInv' /\ KeysKeep
<1>1. ASSUME NEW r \in KeyRings, CreateKeyRing(r) PROVE KmsInv' /\ KeysKeep
  <2>1. KmsTypeOK'
    BY <1>1 DEF CreateKeyRing, KmsInv, KmsTypeOK
  <2> QED BY <1>1, <2>1, KmsKeysStay DEF CreateKeyRing
<1>2. ASSUME NEW v \in VersionNames, Sign(v) PROVE KmsInv' /\ KeysKeep
  BY <1>2, KmsOutputs, KmsParts DEF Sign, CanUse, Families, KmsInv
<1>3. ASSUME NEW c \in Callers, NEW k \in Keys, EncryptResolves(c, k) PROVE KmsInv' /\ KeysKeep
  <2>1. KmsTypeOK'
    BY <1>3 DEF EncryptResolves, PrimaryVersion, KmsInv, KmsTypeOK
  <2> QED BY <1>3, <2>1, KmsKeysStay DEF EncryptResolves
<1>4. ASSUME NEW c \in Callers, Encrypt(c) PROVE KmsInv' /\ KeysKeep
  <2>1. encrypting[c] \in VersionNames
    BY <1>4, KmsParts DEF Encrypt, KmsInv
  <2>2. encrypting' \in [Callers -> VersionNames \cup {Idle}]
    BY <1>4, KmsParts DEF Encrypt, KmsInv
  <2>3. CASE CanUse(encrypting[c], {"symmetric"})
    <3>1. CanUse(encrypting[c], Families) /\ HandOut(encrypting[c])
      BY <1>4, <2>3 DEF CanUse, Families, Encrypt
    <3> QED BY <1>4, <2>1, <2>2, <3>1, KmsOutputs DEF Encrypt
  <2>4. CASE ~CanUse(encrypting[c], {"symmetric"})
    <3>1. UNCHANGED <<keyRings, keys, versions, nextVer, material, outputs>>
      BY <1>4, <2>4 DEF Encrypt
    <3>2. KmsTypeOK'
      BY <2>2, <3>1 DEF KmsInv, KmsTypeOK
    <3> QED BY <3>1, <3>2, KmsKeysStay
  <2> QED BY <2>3, <2>4
<1> QED BY <1>1, <1>2, <1>3, <1>4, CreateKeyInv, DestroyKeyInv DEF KmsStep

LEMMA KmsStays ==
  ASSUME KmsInv, UNCHANGED kmsVars
  PROVE  KmsInv' /\ KeysKeep
<1>1. KmsTypeOK' /\ UNCHANGED <<keys, versions, outputs>>
  BY DEF kmsVars, KmsInv, KmsTypeOK
<1> QED BY <1>1, KmsKeysStay

\* A process that starts has no keys; the material generated before is not
\* generated again.
LEMMA NoKeysInv ==
  ASSUME NoKeys, material \in 0..MaxMaterial
  PROVE  KmsInv
BY DEF NoKeys, KmsInv, KmsTypeOK, KeysHaveVersions, EnabledHaveMaterial, OutputsHaveVersions, VersionNames

LEMMA KeysDoWork == KmsInv => KeysWork
<1> SUFFICES ASSUME KmsInv PROVE KeysWork
  OBVIOUS
<1>1. ASSUME NEW k \in Keys, keys[k] # NoKey PROVE <<k, 1>> \in PrimaryVersion(k)
  <2>1. keys[k].primary = 1 /\ <<k, 1>> \in VersionNames
    BY <1>1, KmsParts DEF KmsInv, CryptoKey, VersionNames
  <2> QED BY <1>1, <2>1 DEF PrimaryVersion, KmsInv, KeysHaveVersions
<1>2. ASSUME NEW o \in outputs PROVE o.material # 0 /\ Undone(o)
  <2>1. o.version \in VersionNames /\ o.material # 0
    BY KmsParts DEF KmsInv, Output, OutputsHaveVersions
  <2>2. versions[o.version] # NoVersion /\ versions[o.version].material \in {o.material, 0} /\ o.version[2] = 1
    BY <2>1 DEF KmsInv, OutputsHaveVersions, KeysHaveVersions
  <2>3. ASSUME NEW v \in PrimaryVersion(o.version[1]) PROVE v = o.version
    <3>1. v \in VersionNames /\ v[1] = o.version[1] /\ v[2] = 1
      BY DEF PrimaryVersion, KmsInv, KeysHaveVersions
    <3> QED BY <2>1, <2>2, <3>1 DEF VersionNames
  <2>4. CanUse(o.version, Families) => versions[o.version].material = o.material
    BY <2>1, <2>2 DEF CanUse, KmsInv, EnabledHaveMaterial
  <2> QED BY <2>1, <2>3, <2>4 DEF Undone
<1> QED BY <1>1, <1>2 DEF KeysWork

-----------------------------------------------------------------------------
(* Cloud Run                                                               *)

RunInv == RunTypeOK /\ IsFiniteSet(Deployed)

LEMMA RunStepInv ==
  ASSUME RunInv, RunStep
  PROVE  RunInv' /\ ServicesKeep
<1>1. ASSUME NEW n \in Services, NEW t \in Templates, CreateService(n, t) PROVE RunInv' /\ ServicesKeep
  <2> DEFINE s == [template |-> t, uid |-> Cardinality(Deployed) + 1, uri |-> n]
  <2>1. Cardinality(Deployed) \in Nat
    BY FS_CardinalityType DEF RunInv
  <2>2. s \in RunService /\ s # NoService /\ services' = [services EXCEPT ![n] = s] /\ n \notin Deployed
    BY <1>1, <2>1, NoServiceAssumption DEF RunService, CreateService
  <2> HIDE DEF s
  <2>3. RunTypeOK'
    BY <2>2 DEF RunInv, RunTypeOK
  <2>4. Deployed' = Deployed \cup {n}
    BY <2>2 DEF Deployed, RunInv, RunTypeOK
  <2>5. IsFiniteSet(Deployed')
    BY <2>4, FS_AddElement DEF RunInv
  <2>6. \A m \in Deployed : services'[m] = services[m]
    BY <2>2 DEF Deployed, RunInv, RunTypeOK
  <2> QED BY <2>3, <2>5, <2>6 DEF RunInv, ServicesKeep
<1>2. ASSUME NEW n \in Services, NEW t \in Templates, UpdateService(n, t) PROVE RunInv' /\ ServicesKeep
  <2> DEFINE s == [services[n] EXCEPT !.template = t]
  <2>1. services[n] \in RunService /\ services' = [services EXCEPT ![n] = s] /\ n \in Deployed
    BY <1>2 DEF UpdateService, Deployed, RunInv, RunTypeOK
  <2>2. s \in RunService /\ s.uid = services[n].uid /\ s.uri = services[n].uri
    BY <2>1 DEF RunService
  <2> HIDE DEF s
  <2>3. RunTypeOK' /\ s # NoService
    BY <2>1, <2>2, NoServiceAssumption DEF RunInv, RunTypeOK
  <2>4. \A m \in Services : m # n => services'[m] = services[m]
    BY <2>1 DEF RunInv, RunTypeOK
  <2>5. services'[n] = s
    BY <2>1 DEF RunInv, RunTypeOK
  <2>6. Deployed' = Deployed
    BY <2>1, <2>3, <2>4, <2>5 DEF Deployed
  <2> QED BY <2>2, <2>3, <2>4, <2>5, <2>6 DEF RunInv, ServicesKeep, Deployed
<1>3. ASSUME NEW n \in Services, DeleteService(n) PROVE RunInv' /\ ServicesKeep
  <2>1. RunTypeOK' /\ Deployed' \subseteq Deployed
    BY <1>3 DEF DeleteService, Deployed, RunInv, RunTypeOK
  <2>2. IsFiniteSet(Deployed')
    BY <2>1, FS_Subset DEF RunInv
  <2>3. ServicesKeep
    BY <1>3 DEF DeleteService, Deployed, RunInv, RunTypeOK, ServicesKeep
  <2> QED BY <2>1, <2>2, <2>3 DEF RunInv
<1> QED BY <1>1, <1>2, <1>3 DEF RunStep

LEMMA RunStays ==
  ASSUME RunInv, services' = services
  PROVE  RunInv' /\ ServicesKeep
BY DEF RunInv, RunTypeOK, Deployed, ServicesKeep

\* A process that starts has deployed nothing.
LEMMA RunStarts ==
  ASSUME services' = NoServices
  PROVE  RunInv' /\ ServicesKeep
<1>1. Deployed' = {} /\ RunTypeOK'
  BY DEF NoServices, Deployed, RunTypeOK
<1>2. IsFiniteSet(Deployed')
  BY <1>1, FS_EmptySet
<1> QED BY <1>1, <1>2 DEF RunInv, ServicesKeep, NoServices, Deployed

-----------------------------------------------------------------------------
(* All of them                                                             *)

Inv == SecretsInv /\ KmsInv /\ RunInv

NamesKeep == SecretsKeep /\ KeysKeep /\ ServicesKeep

LEMMA InitInv == Init => Inv
<1> SUFFICES ASSUME Init PROVE Inv
  OBVIOUS
<1>1. SecretsInv
  BY SecretsInit_ DEF Init
<1>2. KmsInv
  BY NoKeysInv, KmsAssumption DEF Init, KmsInit
<1>3. Deployed = {} /\ RunTypeOK
  BY DEF Init, NoServices, Deployed, RunTypeOK
<1>4. IsFiniteSet(Deployed)
  BY <1>3, FS_EmptySet
<1> QED BY <1>1, <1>2, <1>3, <1>4 DEF Inv, RunInv

LEMMA RestartInv ==
  ASSUME Inv, Restart
  PROVE  Inv' /\ NamesKeep
<1>1. SecretsInv' /\ SecretsKeep
  BY LoadInv DEF Inv, Restart
<1>2. RunInv' /\ ServicesKeep
  BY RunStarts DEF Restart
<1>3. NoKeys' /\ material' = material
  BY DEF Restart, NoKeys
<1>4. KmsInv'
  BY <1>3 DEF Inv, KmsInv, NoKeys, KmsTypeOK, KeysHaveVersions, EnabledHaveMaterial, OutputsHaveVersions
<1>5. KeysKeep
  BY <1>3 DEF NoKeys, KeysKeep
<1> QED BY <1>1, <1>2, <1>4, <1>5 DEF Inv, NamesKeep

LEMMA NextInv ==
  ASSUME Inv, [Next]_vars
  PROVE  Inv' /\ NamesKeep
<1>1. SecretsInv /\ KmsInv /\ RunInv
  BY DEF Inv
<1>2. CASE SecretsStep /\ UNCHANGED <<kmsVars, services, logVars>>
  BY <1>1, <1>2, SecretsStepInv, KmsStays, RunStays DEF Inv, NamesKeep
<1>3. CASE KmsStep /\ UNCHANGED <<secretVars, services, logVars>>
  BY <1>1, <1>3, SecretsStay, KmsStepInv, RunStays DEF Inv, NamesKeep
<1>4. CASE RunStep /\ UNCHANGED <<secretVars, kmsVars, logVars>>
  BY <1>1, <1>4, SecretsStay, KmsStays, RunStepInv DEF Inv, NamesKeep
<1>5. CASE UNCHANGED <<secretVars, kmsVars, services>>
  BY <1>1, <1>5, SecretsStay, KmsStays, RunStays DEF Inv, NamesKeep
<1>6. CASE Restart
  BY <1>6, RestartInv
<1> QED BY <1>2, <1>3, <1>4, <1>5, <1>6 DEF Next, vars

\* The inductive invariant holds for every value of the constants.
THEOREM StoresInvariant == Spec => []Inv
<1>1. Inv /\ [Next]_vars => Inv'
  BY NextInv
<1> QED BY InitInv, <1>1, PTL DEF Spec

\* The names of a secret's versions lead to them, restarts and deletions
\* whatever (store.go resolveVersion and AddSecretVersion).
THEOREM SecretNamesResolve == Spec => []VersionNamesResolve
BY StoresInvariant, SecretsResolve, PTL DEF Inv

\* Every key there is can be used until it is destroyed, and no other key takes
\* the place of one an output was made with (store.go createVersionLocked).
THEOREM KeysAlwaysWork == Spec => []KeysWork
BY StoresInvariant, KeysDoWork, PTL DEF Inv

\* What the name of a resource stands for does not change while it is there.
THEOREM NamesStandForOneThing == Spec => NamesKeepTheirMeaning
<1>1. Inv /\ [Next]_vars => [SecretsKeep /\ KeysKeep /\ ServicesKeep]_vars
  BY NextInv DEF NamesKeep
<1> QED BY StoresInvariant, <1>1, PTL DEF Spec, NamesKeepTheirMeaning

-----------------------------------------------------------------------------
(* Logging: choosing entries                                               *)

LEMMA LeastNumber ==
  ASSUME NEW S, S \subseteq Nat, S # {}
  PROVE  \E n \in S : \A k \in S : n <= k
<1> DEFINE Less == {p \in Nat \X Nat : p[1] < p[2]}
<1>1. IsWellFoundedOn(Less, Nat)
  BY NatLessThanWellFounded DEF OpToRel
<1>2. PICK n \in S : \A k \in S : ~(<<k, n>> \in Less)
  BY <1>1, WFMin
<1>3. ASSUME NEW k \in S PROVE n <= k
  <2>1. ~(k < n) /\ k \in Nat /\ n \in Nat
    BY <1>2
  <2> QED BY <2>1
<1> QED BY <1>3

\* A set of numbers with 0 in it, and with each number the next, has them all.
LEMMA UpTo ==
  ASSUME NEW n \in Nat, NEW P, 0 \in P, \A k \in 1..n : k - 1 \in P => k \in P
  PROVE  0..n \subseteq P
<1> DEFINE Bad == (0..n) \ P
<1>1. SUFFICES ASSUME Bad # {} PROVE FALSE
  OBVIOUS
<1>2. PICK k \in Bad : \A i \in Bad : k <= i
  <2>1. Bad \subseteq Nat
    OBVIOUS
  <2> QED BY <1>1, <2>1, LeastNumber
<1>3. k \in 1..n /\ k - 1 \in 0..n /\ ~(k <= k - 1)
  <2>1. k \in 0..n /\ k # 0
    OBVIOUS
  <2> QED BY <2>1
<1>4. k - 1 \in P
  BY <1>2, <1>3
<1> QED BY <1>3, <1>4

\* What Chosen has taken of s when it is past a place.
Takes(g, s, places, n) ==
  /\ g[0] = <<>>
  /\ \A k \in 1..n : g[k] = IF k \in places THEN Append(g[k - 1], s[k]) ELSE g[k - 1]

LEMMA ChosenSteps ==
  ASSUME NEW D, NEW s \in Seq(D), NEW places
  PROVE  \E g \in [0..Len(s) -> Seq(D)] : Takes(g, s, places, Len(s)) /\ Chosen(s, places) = g[Len(s)]
<1> DEFINE n == Len(s)
           Step(x, k) == IF k \in places THEN Append(x, s[k]) ELSE x
           P == {m \in 0..n : \E g \in [0..m -> Seq(D)] : Takes(g, s, places, m)}
           Taken == CHOOSE Taken : Taken = [i \in 0..n |->
                      IF i = 0 THEN <<>> ELSE IF i \in places THEN Append(Taken[i - 1], s[i]) ELSE Taken[i - 1]]
<1>1. n \in Nat /\ \A k \in 1..n : s[k] \in D
  OBVIOUS
<1>2. Chosen(s, places) = Taken[n]
  BY DEF Chosen
<1>3. \A k \in 1..n, x \in Seq(D) : Step(x, k) \in Seq(D)
  BY <1>1
<1> HIDE DEF n
<1>4. 0 \in P
  <2> DEFINE g == [k \in 0..0 |-> <<>>]
  <2>1. g \in [0..0 -> Seq(D)] /\ Takes(g, s, places, 0)
    BY DEF Takes
  <2>2. \E e \in [0..0 -> Seq(D)] : Takes(e, s, places, 0)
    <3> HIDE DEF g
    <3> QED BY <2>1
  <2> QED BY <1>1, <2>2
<1>5. ASSUME NEW m \in 1..n, m - 1 \in P
      PROVE  m \in P
  <2>1. PICK g \in [0..(m - 1) -> Seq(D)] : Takes(g, s, places, m - 1)
    BY <1>5
  <2> DEFINE h == [k \in 0..m |-> IF k < m THEN g[k] ELSE Step(g[m - 1], m)]
  <2>2. m \in Nat /\ m >= 1 /\ g[m - 1] \in Seq(D)
    BY <1>1
  <2>3. Step(g[m - 1], m) \in Seq(D)
    BY <1>3, <2>2
  <2> HIDE DEF Step
  <2>4. h \in [0..m -> Seq(D)]
    BY <2>2, <2>3
  <2>5. h[0] = <<>>
    BY <2>1, <2>2 DEF Takes
  <2>6. ASSUME NEW k \in 1..m PROVE h[k] = Step(h[k - 1], k)
    <3>1. k - 1 \in 0..m /\ k - 1 < m /\ h[k - 1] = g[k - 1]
      BY <2>2
    <3>2. CASE k < m
      <4>1. k \in 1..(m - 1) /\ h[k] = g[k]
        BY <2>2, <3>2
      <4>2. g[k] = Step(g[k - 1], k)
        BY <2>1, <4>1 DEF Takes, Step
      <4> QED BY <3>1, <4>1, <4>2
    <3>3. CASE k = m
      BY <2>2, <3>1, <3>3
    <3> QED BY <2>2, <3>2, <3>3
  <2>7. Takes(h, s, places, m)
    BY <2>5, <2>6 DEF Takes, Step
  <2>8. \E e \in [0..m -> Seq(D)] : Takes(e, s, places, m)
    <3> HIDE DEF h
    <3> QED BY <2>4, <2>7
  <2> QED BY <2>2, <2>8
<1> HIDE DEF P, Step
<1>6. n \in P
  <2>1. 0..n \subseteq P
    BY <1>1, <1>4, <1>5, UpTo
  <2> QED BY <1>1, <2>1
<1>7. PICK g \in [0..n -> Seq(D)] : Takes(g, s, places, n)
  BY <1>6 DEF P
<1>8. g = [i \in 0..n |-> IF i = 0 THEN <<>> ELSE IF i \in places THEN Append(g[i - 1], s[i]) ELSE g[i - 1]]
  <2>1. \A i \in 0..n : i # 0 => i \in 1..n
    BY <1>1
  <2> QED BY <1>7, <2>1 DEF Takes
<1>9. Taken = [i \in 0..n |-> IF i = 0 THEN <<>> ELSE IF i \in places THEN Append(Taken[i - 1], s[i]) ELSE Taken[i - 1]]
  BY <1>8
<1> HIDE DEF Taken
<1>10. Takes(Taken, s, places, n) /\ DOMAIN Taken = 0..n
  <2>1. 0 \in 0..n /\ \A k \in 1..n : k \in 0..n /\ k # 0
    BY <1>1
  <2>2. DOMAIN Taken = 0..n /\ Taken[0] = <<>>
    BY <1>9, <2>1
  <2>3. \A k \in 1..n : Taken[k] = IF k \in places THEN Append(Taken[k - 1], s[k]) ELSE Taken[k - 1]
    BY <1>9, <2>1
  <2> QED BY <2>2, <2>3 DEF Takes
<1> DEFINE Q == {m \in 0..n : Taken[m] \in Seq(D)}
<1>11. 0 \in Q
  <2>1. Taken[0] \in Seq(D)
    BY <1>10 DEF Takes
  <2> QED BY <1>1, <2>1
<1>12. ASSUME NEW m \in 1..n, m - 1 \in Q PROVE m \in Q
  <2>1. Taken[m] = Step(Taken[m - 1], m)
    BY <1>10 DEF Takes, Step
  <2>2. Taken[m] \in Seq(D)
    BY <1>3, <1>12, <2>1
  <2> QED BY <1>1, <2>2
<1>13. 0..n \subseteq Q
  <2> HIDE DEF Q
  <2> QED BY <1>1, <1>11, <1>12, UpTo
<1>14. Taken \in [0..n -> Seq(D)]
  <2>1. Taken = [m \in 0..n |-> Taken[m]]
    BY <1>9
  <2> QED BY <1>13, <2>1
<1> QED BY <1>2, <1>10, <1>14 DEF n

LogEntry == [log : Logs \cup {NoLog}, severity : Severities, before : Nat]

\* Entries are in the order they were written in.
Increasing(s) == \A i, j \in DOMAIN s : i < j => s[i].before < s[j].before

\* Choosing keeps the order, takes nothing else and leaves nothing out.
LEMMA ChosenKeepsOrder ==
  ASSUME NEW s \in Seq(LogEntry), Increasing(s), NEW places, places \subseteq DOMAIN s,
         NEW c, c = Chosen(s, places)
  PROVE  /\ c \in Seq(LogEntry) /\ Increasing(c)
         /\ \A k \in DOMAIN c : \E i \in places : c[k] = s[i]
         /\ \A i \in places : \E k \in DOMAIN c : c[k] = s[i]
<1> DEFINE n == Len(s)
<1>1. n \in Nat /\ DOMAIN s = 1..n /\ \A i \in 1..n : s[i].before \in Nat
  <2>1. n \in Nat /\ DOMAIN s = 1..n /\ \A i \in 1..n : s[i] \in LogEntry
    OBVIOUS
  <2> QED BY <2>1 DEF LogEntry
<1>2. PICK g \in [0..n -> Seq(LogEntry)] : Takes(g, s, places, n) /\ c = g[n]
  BY ChosenSteps
<1> HIDE DEF n
<1> DEFINE Has(m) == /\ Increasing(g[m])
                     /\ \A k \in DOMAIN g[m] : \E i \in places : i <= m /\ g[m][k] = s[i]
                     /\ \A i \in places : i <= m => \E k \in DOMAIN g[m] : g[m][k] = s[i]
           P == {m \in 0..n : Has(m)}
<1>3. 0 \in P
  <2>1. g[0] = <<>> /\ \A i \in places : ~(i <= 0)
    BY <1>1, <1>2 DEF Takes
  <2>2. Has(0)
    BY <2>1 DEF Increasing
  <2> QED BY <1>1, <2>2
<1>4. ASSUME NEW m \in 1..n, m - 1 \in P
      PROVE  m \in P
  <2> DEFINE t == g[m - 1]
             u == g[m]
  <2>1. Has(m - 1) /\ t \in Seq(LogEntry)
    BY <1>1, <1>4
  <2>2. u = IF m \in places THEN Append(t, s[m]) ELSE t
    BY <1>2 DEF Takes
  <2>3. \A i \in places : i <= m <=> i <= m - 1 \/ i = m
    BY <1>1
  <2>4. CASE m \notin places
    <3>1. u = t /\ \A i \in places : i <= m <=> i <= m - 1
      BY <2>2, <2>3, <2>4
    <3>2. Has(m)
      BY <2>1, <3>1
    <3> QED BY <1>1, <3>2
  <2>5. CASE m \in places
    <3> DEFINE l == Len(t)
    <3>1. /\ l \in Nat /\ DOMAIN t = 1..l /\ DOMAIN u = 1..(l + 1)
          /\ u[l + 1] = s[m] /\ \A k \in 1..l : u[k] = t[k]
      BY <1>1, <2>1, <2>2, <2>5
    <3> HIDE DEF t, u, l
    <3>2. \A k \in 1..l : \E i \in places : i <= m - 1 /\ t[k] = s[i]
      BY <2>1, <3>1 DEF t
    <3>3. \A k \in 1..l : u[k].before < s[m].before
      <4> SUFFICES ASSUME NEW k \in 1..l PROVE u[k].before < s[m].before
        OBVIOUS
      <4>1. PICK i \in places : i <= m - 1 /\ t[k] = s[i]
        BY <3>2
      <4>2. i \in DOMAIN s /\ m \in DOMAIN s /\ i < m
        BY <1>1, <4>1
      <4> QED BY <3>1, <4>1, <4>2 DEF Increasing
    <3>4. Increasing(u)
      <4> SUFFICES ASSUME NEW i \in DOMAIN u, NEW j \in DOMAIN u, i < j PROVE u[i].before < u[j].before
        BY DEF Increasing
      <4>1. i \in 1..l
        BY <3>1
      <4>2. CASE j = l + 1
        BY <3>1, <3>3, <4>1, <4>2
      <4>3. CASE j # l + 1
        <5>1. j \in 1..l
          BY <3>1, <4>3
        <5>2. Increasing(t)
          BY <2>1 DEF t
        <5> QED BY <3>1, <4>1, <5>1, <5>2 DEF Increasing
      <4> QED BY <4>2, <4>3
    <3>5. ASSUME NEW k \in DOMAIN u PROVE \E i \in places : i <= m /\ u[k] = s[i]
      <4>1. CASE k = l + 1
        <5>1. m <= m
          BY <1>1
        <5> QED BY <2>5, <3>1, <4>1, <5>1
      <4>2. CASE k # l + 1
        <5>1. k \in 1..l
          BY <3>1, <4>2
        <5>2. PICK i \in places : i <= m - 1 /\ t[k] = s[i]
          BY <3>2, <5>1
        <5> QED BY <2>3, <3>1, <5>1, <5>2
      <4> QED BY <4>1, <4>2
    <3>6. ASSUME NEW i \in places, i <= m PROVE \E k \in DOMAIN u : u[k] = s[i]
      <4>1. CASE i = m
        <5>1. l + 1 \in DOMAIN u
          BY <3>1
        <5> QED BY <3>1, <4>1, <5>1
      <4>2. CASE i # m
        <5>1. PICK k \in DOMAIN t : t[k] = s[i]
          BY <2>1, <2>3, <3>6, <4>2 DEF t
        <5>2. k \in DOMAIN u /\ u[k] = t[k]
          BY <3>1
        <5> QED BY <5>1, <5>2
      <4> QED BY <4>1, <4>2
    <3>7. Has(m)
      BY <3>4, <3>5, <3>6 DEF u
    <3> QED BY <1>1, <3>7
  <2> QED BY <2>4, <2>5
<1> HIDE DEF P
<1>5. n \in P
  <2>1. 0..n \subseteq P
    BY <1>1, <1>3, <1>4, UpTo
  <2> QED BY <1>1, <2>1
<1>6. Has(n)
  BY <1>5 DEF P
<1>7. \A i \in places : i <= n
  BY <1>1
<1>8. c \in Seq(LogEntry)
  BY <1>1, <1>2
<1> QED BY <1>2, <1>6, <1>7, <1>8

\* Between two entries of a list there are numbers for those in between.
LEMMA EntriesSpread ==
  ASSUME NEW s \in Seq(LogEntry), Increasing(s), NEW i \in DOMAIN s, NEW j \in DOMAIN s, i <= j
  PROVE  s[i].before + (j - i) <= s[j].before
<1> DEFINE n == Len(s)
           b(k) == s[k].before
           P == {d \in 0..n : i + d <= n => b(i) + d <= b(i + d)}
<1>1. n \in Nat /\ DOMAIN s = 1..n /\ \A k \in 1..n : b(k) \in Nat
  <2>1. n \in Nat /\ DOMAIN s = 1..n /\ \A k \in 1..n : s[k] \in LogEntry
    OBVIOUS
  <2> QED BY <2>1 DEF LogEntry
<1>2. \A k, m \in 1..n : k < m => b(k) < b(m)
  BY <1>1 DEF Increasing
<1> HIDE DEF n, b
<1>3. i \in 1..n /\ j \in 1..n
  BY <1>1
<1>4. 0 \in P
  <2>1. b(i) + 0 <= b(i + 0)
    BY <1>1, <1>3
  <2> QED BY <1>1, <2>1
<1>5. ASSUME NEW d \in 1..n, d - 1 \in P
      PROVE  d \in P
  <2>1. CASE i + d <= n
    <3>1. b(i) + (d - 1) <= b(i + (d - 1))
      BY <1>1, <1>3, <1>5, <2>1
    <3>2. i + (d - 1) \in 1..n /\ i + d \in 1..n /\ i + (d - 1) < i + d
      BY <1>1, <1>3, <2>1
    <3>3. b(i + (d - 1)) < b(i + d) /\ b(i + (d - 1)) \in Nat /\ b(i + d) \in Nat /\ b(i) \in Nat
      BY <1>1, <1>2, <1>3, <3>2
    <3>4. b(i) + d <= b(i + d)
      BY <1>1, <3>1, <3>3
    <3> QED BY <1>1, <3>4
  <2>2. CASE ~(i + d <= n)
    BY <1>1, <2>2
  <2> QED BY <2>1, <2>2
<1>6. j - i \in 0..n /\ i + (j - i) = j
  BY <1>1, <1>3
<1>7. j - i \in P
  <2> HIDE DEF P
  <2>1. 0..n \subseteq P
    BY <1>1, <1>4, <1>5, UpTo
  <2> QED BY <1>6, <2>1
<1>8. b(i) + (j - i) <= b(j)
  BY <1>1, <1>3, <1>6, <1>7
<1> QED BY <1>8 DEF b

\* t is of the entries of s, of which it has the last MaxEntries before w.
HasRecent(t, s, w) ==
  /\ \A k \in DOMAIN t : \E i \in DOMAIN s : t[k] = s[i]
  /\ \A i \in DOMAIN s : s[i].before + MaxEntries >= w => \E k \in DOMAIN t : t[k] = s[i]

\* Trimming leaves the last MaxEntries entries; those it drops are older.
LEMMA TrimmedKeeps ==
  ASSUME NEW s \in Seq(LogEntry), Increasing(s), NEW t, t = Trimmed(s),
         NEW w \in Nat, \A i \in DOMAIN s : s[i].before < w
  PROVE  t \in Seq(LogEntry) /\ Increasing(t) /\ HasRecent(t, s, w)
<1> DEFINE n == Len(s)
           d == n - MaxEntries
<1>1. n \in Nat /\ DOMAIN s = 1..n /\ \A i \in 1..n : s[i] \in LogEntry
  OBVIOUS
<1>2. MaxEntries \in Nat /\ MaxEntries >= 1
  BY LoggingAssumption
<1>3. CASE n <= MaxEntries
  <2>1. t = s
    BY <1>1, <1>2, <1>3 DEF Trimmed
  <2> QED BY <2>1 DEF HasRecent
<1>4. CASE n > MaxEntries
  <2>1. t = SubSeq(s, d + 1, n)
    BY <1>4 DEF Trimmed
  <2>2. d \in Nat /\ d + 1 <= n /\ n - (d + 1) + 1 = MaxEntries
    BY <1>1, <1>2, <1>4
  <2> HIDE DEF n, d
  <2>3. \A i \in (d + 1)..n : s[i] \in LogEntry
    BY <1>1, <2>2
  <2>4. /\ t \in Seq(LogEntry) /\ Len(t) = MaxEntries
        /\ \A i \in 1..MaxEntries : t[i] = s[(d + 1) + i - 1]
    BY <1>1, <2>1, <2>2, <2>3, SubSeqProperties
  <2>5. DOMAIN t = 1..MaxEntries
    BY <2>4
  <2>6. ASSUME NEW k \in DOMAIN t PROVE d + k \in DOMAIN s /\ t[k] = s[d + k]
    <3>1. k \in 1..MaxEntries /\ (d + 1) + k - 1 = d + k
      BY <1>2, <2>2, <2>5
    <3>2. d + k \in 1..n
      BY <1>1, <1>2, <2>2, <3>1
    <3> QED BY <1>1, <2>4, <3>1, <3>2
  <2>7. Increasing(t)
    <3> SUFFICES ASSUME NEW i \in DOMAIN t, NEW j \in DOMAIN t, i < j PROVE t[i].before < t[j].before
      BY DEF Increasing
    <3>1. d + i < d + j
      BY <1>2, <2>2, <2>5
    <3> QED BY <2>6, <3>1 DEF Increasing
  <2>8. ASSUME NEW i \in DOMAIN s, s[i].before + MaxEntries >= w
        PROVE  \E k \in DOMAIN t : t[k] = s[i]
    <3>1. i > d
      <4> SUFFICES ASSUME i <= d PROVE FALSE
        BY <1>1, <2>2
      <4>1. i \in 1..n /\ n \in 1..n /\ i <= n
        BY <1>1, <2>2
      <4>2. s[i].before + (n - i) <= s[n].before
        BY <1>1, <4>1, EntriesSpread
      <4>3. s[i].before \in Nat /\ s[n].before \in Nat /\ s[n].before < w
        BY <1>1, <4>1 DEF LogEntry
      <4>4. n - i >= MaxEntries
        BY <1>1, <1>2, <2>2, <4>1
      <4> HIDE DEF n
      <4> QED BY <1>1, <1>2, <2>8, <4>1, <4>2, <4>3, <4>4
    <3>2. i - d \in DOMAIN t /\ d + (i - d) = i
      BY <1>1, <1>2, <2>2, <2>5, <3>1
    <3>3. t[i - d] = s[i]
      BY <2>6, <3>2
    <3> QED BY <3>2, <3>3
  <2>9. \A k \in DOMAIN t : \E i \in DOMAIN s : t[k] = s[i]
    BY <2>6
  <2> QED BY <2>4, <2>7, <2>8, <2>9 DEF HasRecent
<1> QED BY <1>1, <1>2, <1>3, <1>4

-----------------------------------------------------------------------------
(* Logging: the entries there are                                          *)

\* The entries are those kept, in order, and of the last MaxEntries written
\* none is missing.
LogInv ==
  /\ entries \in Seq(LogEntry) /\ written \in Nat /\ Increasing(entries)
  /\ \A i \in DOMAIN entries : entries[i] \in kept
  /\ \A e \in kept : e \in LogEntry /\ e.before < written
  /\ \A e \in kept : e.before + MaxEntries >= written => \E i \in DOMAIN entries : entries[i] = e

LEMMA LogStarts ==
  ASSUME entries = <<>>, written = 0, kept = {}
  PROVE  LogInv
BY DEF LogInv, Increasing

LEMMA WriteLogInv ==
  ASSUME LogInv, NEW default \in Logs \cup {NoLog}, NEW batch \in Batches,
         WriteLogEntries(default, batch)
  PROVE  LogInv'
<1> DEFINE n == Len(batch)
           new == [i \in DOMAIN batch |->
                     WithDefaults([log |-> batch[i].log, severity |-> batch[i].severity,
                                   before |-> written + i - 1], default)]
           all == entries \o new
<1>1. PICK m \in 1..MaxBatch : batch \in [1..m -> [log : Logs \cup {NoLog}, severity : Severities]]
  BY DEF Batches
<1>2. m \in Nat /\ DOMAIN batch = 1..m /\ n = m
  BY <1>1, LoggingAssumption
<1>3. /\ entries' = Trimmed(all) /\ written' = written + m
      /\ kept' = kept \cup {new[i] : i \in DOMAIN new}
  BY <1>2 DEF WriteLogEntries
<1>4. ASSUME NEW i \in 1..m
      PROVE  new[i] \in LogEntry /\ new[i].before = written + i - 1
  <2>1. batch[i] \in [log : Logs \cup {NoLog}, severity : Severities]
    BY <1>1
  <2> DEFINE e == [log |-> batch[i].log, severity |-> batch[i].severity, before |-> written + i - 1]
  <2>2. written + i - 1 \in Nat
    BY DEF LogInv
  <2>3. e \in LogEntry /\ e.before = written + i - 1
    BY <2>1, <2>2 DEF LogEntry
  <2>4. new[i] = WithDefaults(e, default)
    BY <1>2
  <2> HIDE DEF e, new
  <2>5. WithDefaults(e, default) \in LogEntry /\ WithDefaults(e, default).before = e.before
    BY <2>3 DEF WithDefaults, LogEntry
  <2> QED BY <2>3, <2>4, <2>5
<1>5. new \in Seq(LogEntry) /\ DOMAIN new = 1..m /\ Len(new) = m
  <2>1. DOMAIN new = 1..m
    BY <1>2
  <2>2. new \in [1..m -> LogEntry]
    BY <1>2, <1>4
  <2> HIDE DEF new
  <2> QED BY <1>2, <2>1, <2>2
<1> HIDE DEF n, new
<1> DEFINE l == Len(entries)
<1>6. /\ l \in Nat /\ DOMAIN entries = 1..l /\ all \in Seq(LogEntry) /\ DOMAIN all = 1..(l + m)
      /\ \A k \in 1..l : all[k] = entries[k]
      /\ \A k \in 1..m : all[l + k] = new[k]
  <2>1. entries \in Seq(LogEntry)
    BY DEF LogInv
  <2> QED BY <1>2, <1>5, <2>1
<1> HIDE DEF l, all
<1>7. ASSUME NEW k \in DOMAIN all
      PROVE  \/ k \in 1..l /\ all[k] = entries[k] /\ all[k].before < written
             \/ k - l \in 1..m /\ all[k] = new[k - l] /\ all[k].before = written + (k - l) - 1
  <2>1. CASE k <= l
    <3>1. k \in 1..l
      BY <1>6, <2>1
    <3>2. entries[k].before < written
      BY <1>6, <3>1 DEF LogInv
    <3> QED BY <1>6, <3>1, <3>2
  <2>2. CASE ~(k <= l)
    <3>1. k - l \in 1..m /\ l + (k - l) = k
      BY <1>2, <1>6, <2>2
    <3> QED BY <1>4, <1>6, <3>1
  <2> QED BY <2>1, <2>2
<1>8. \A k \in DOMAIN all : all[k] \in LogEntry /\ all[k].before \in Nat
  <2>1. \A k \in DOMAIN all : all[k] \in LogEntry
    BY <1>6
  <2> QED BY <2>1 DEF LogEntry
<1>9. written \in Nat /\ written' \in Nat
  BY <1>2, <1>3 DEF LogInv
<1>10. Increasing(all)
  <2> SUFFICES ASSUME NEW i \in DOMAIN all, NEW j \in DOMAIN all, i < j
               PROVE  all[i].before < all[j].before
    BY DEF Increasing
  <2> DEFINE x == all[i].before
             y == all[j].before
  <2>1. x \in Nat /\ y \in Nat /\ i \in Nat /\ j \in Nat
    BY <1>2, <1>6, <1>8
  <2>2. CASE j \in 1..l
    <3>1. i \in 1..l
      BY <1>6, <2>1, <2>2
    <3> QED BY <1>6, <2>2, <3>1 DEF LogInv, Increasing
  <2>3. CASE j - l \in 1..m /\ y = written + (j - l) - 1
    <3>1. CASE x < written
      <4> HIDE DEF x, y
      <4>1. x < y
        BY <1>6, <1>9, <2>1, <2>3, <3>1
      <4> QED BY <4>1 DEF x, y
    <3>2. CASE i - l \in 1..m /\ x = written + (i - l) - 1
      <4> HIDE DEF x, y
      <4>1. x < y
        <5>1. l \in Nat /\ m \in Nat
          BY <1>2, <1>6
        <5>2. x = written + (i - l) - 1 /\ y = written + (j - l) - 1
          BY <2>3, <3>2
        <5> QED BY <1>9, <2>1, <5>1, <5>2
      <4> QED BY <4>1 DEF x, y
    <3> QED BY <1>7, <3>1, <3>2
  <2> QED BY <1>7, <2>2, <2>3
<1>11. \A k \in DOMAIN all : all[k].before < written'
  <2> SUFFICES ASSUME NEW k \in DOMAIN all PROVE all[k].before < written'
    OBVIOUS
  <2> DEFINE x == all[k].before
  <2>1. x \in Nat /\ (x < written \/ (k - l \in 1..m /\ x = written + (k - l) - 1))
    BY <1>7, <1>8
  <2> HIDE DEF x
  <2>2. x < written'
    BY <1>2, <1>3, <1>6, <1>9, <2>1
  <2> QED BY <2>2 DEF x
<1>12. \A k \in DOMAIN all : all[k] \in kept'
  <2> SUFFICES ASSUME NEW k \in DOMAIN all PROVE all[k] \in kept'
    OBVIOUS
  <2>1. CASE k \in 1..l /\ all[k] = entries[k]
    BY <1>3, <1>6, <2>1 DEF LogInv
  <2>2. CASE k - l \in 1..m /\ all[k] = new[k - l]
    BY <1>3, <1>5, <2>2
  <2> QED BY <1>7, <2>1, <2>2
<1>13. ASSUME NEW e \in kept'
       PROVE  /\ e \in LogEntry /\ e.before < written'
              /\ e.before + MaxEntries >= written' => \E k \in DOMAIN all : all[k] = e
  <2>1. CASE e \in kept
    <3>1. e \in LogEntry /\ e.before < written
      BY <2>1 DEF LogInv
    <3>2. e.before \in Nat /\ MaxEntries \in Nat
      BY <3>1, LoggingAssumption DEF LogEntry
    <3>3. e.before < written' /\ (e.before + MaxEntries >= written' => e.before + MaxEntries >= written)
      BY <1>2, <1>3, <1>9, <3>1, <3>2
    <3>4. ASSUME e.before + MaxEntries >= written PROVE \E k \in DOMAIN all : all[k] = e
      <4>1. PICK i \in DOMAIN entries : entries[i] = e
        BY <2>1, <3>4 DEF LogInv
      <4>2. i \in DOMAIN all /\ all[i] = entries[i]
        BY <1>2, <1>6
      <4> QED BY <4>1, <4>2
    <3> QED BY <3>1, <3>3, <3>4
  <2>2. CASE e \in {new[i] : i \in DOMAIN new}
    <3>1. PICK i \in 1..m : e = new[i]
      BY <1>5, <2>2
    <3>2. l + i \in DOMAIN all /\ all[l + i] = new[i]
      BY <1>2, <1>6
    <3> QED BY <1>8, <1>11, <3>1, <3>2
  <2> QED BY <1>3, <2>1, <2>2
<1>14. /\ entries' \in Seq(LogEntry) /\ Increasing(entries')
       /\ \A k \in DOMAIN entries' : \E i \in DOMAIN all : entries'[k] = all[i]
       /\ \A i \in DOMAIN all : all[i].before + MaxEntries >= written' => \E k \in DOMAIN entries' : entries'[k] = all[i]
  <2> DEFINE t == entries'
             w == written'
  <2>1. t = Trimmed(all) /\ w \in Nat /\ \A i \in DOMAIN all : all[i].before < w
    BY <1>3, <1>9, <1>11
  <2> HIDE DEF t, w
  <2>2. t \in Seq(LogEntry) /\ Increasing(t) /\ HasRecent(t, all, w)
    BY <1>6, <1>10, <2>1, TrimmedKeeps
  <2> QED BY <2>2 DEF t, w, HasRecent
<1>15. ASSUME NEW e \in kept', e.before + MaxEntries >= written'
       PROVE  \E k \in DOMAIN entries' : entries'[k] = e
  <2>1. PICK i \in DOMAIN all : all[i] = e
    BY <1>13, <1>15
  <2> QED BY <1>14, <1>15, <2>1
<1>16. \A k \in DOMAIN entries' : entries'[k] \in kept'
  BY <1>12, <1>14
<1> QED BY <1>9, <1>13, <1>14, <1>15, <1>16 DEF LogInv, Increasing

LEMMA DeleteLogInv ==
  ASSUME LogInv, NEW l, DeleteLog(l)
  PROVE  LogInv'
<1> DEFINE I == {i \in DOMAIN entries : entries[i].log # l}
           t == entries'
<1>1. t = Chosen(entries, I) /\ kept' = {e \in kept : e.log # l} /\ written' = written
  BY DEF DeleteLog
<1>2. entries \in Seq(LogEntry) /\ Increasing(entries) /\ I \subseteq DOMAIN entries
  BY DEF LogInv
<1> HIDE DEF I, t
<1>3. /\ t \in Seq(LogEntry) /\ Increasing(t)
      /\ \A k \in DOMAIN t : \E i \in I : t[k] = entries[i]
      /\ \A i \in I : \E k \in DOMAIN t : t[k] = entries[i]
  BY <1>1, <1>2, ChosenKeepsOrder
<1>4. \A k \in DOMAIN t : t[k] \in kept'
  BY <1>1, <1>3 DEF LogInv, I
<1>5. ASSUME NEW e \in kept', e.before + MaxEntries >= written'
      PROVE  \E k \in DOMAIN t : t[k] = e
  <2>1. PICK i \in DOMAIN entries : entries[i] = e
    BY <1>1, <1>5 DEF LogInv
  <2>2. i \in I
    BY <1>1, <2>1 DEF I
  <2> QED BY <1>3, <2>1, <2>2
<1>6. \A e \in kept' : e \in LogEntry /\ e.before < written'
  BY <1>1 DEF LogInv
<1>7. Increasing(entries)'
  BY <1>3 DEF Increasing, t
<1>8. written' \in Nat
  BY <1>1 DEF LogInv
<1> QED BY <1>3, <1>4, <1>5, <1>6, <1>7, <1>8 DEF LogInv, t

LEMMA LogNext ==
  ASSUME LogInv, [Next]_vars
  PROVE  LogInv'
<1>1. CASE LoggingStep
  BY <1>1, WriteLogInv, DeleteLogInv DEF LoggingStep
<1>2. CASE Restart
  BY <1>2 DEF Restart, LogInv, Increasing
<1>3. CASE UNCHANGED logVars
  BY <1>3 DEF logVars, LogInv, Increasing
<1> QED BY <1>1, <1>2, <1>3 DEF Next, vars, logVars

\* A page is the front of what matches.
LEMMA EntriesFound == LogInv => EntriesAreFound
<1> SUFFICES ASSUME LogInv, NEW filter \in [log : Logs \cup {NoLog}, severity : Severities],
                    NEW size \in 0..(MaxPage + 1)
             PROVE  LET page == ListLogEntries(filter, size) IN
                    /\ \A i, j \in DOMAIN page : i < j => page[i].before < page[j].before
                    /\ \A i \in DOMAIN page : page[i] \in kept /\ page[i].log \in ListLogs
                    /\ \A e \in {x \in kept : Matches(x, filter)} :
                         \/ \E i \in DOMAIN page : page[i] = e
                         \/ e.before + MaxEntries < written
                         \/ /\ Len(page) = PageSize(size)
                            /\ \A i \in DOMAIN page : page[i].before < e.before
  BY DEF EntriesAreFound
<1> DEFINE I == {i \in DOMAIN entries : Matches(entries[i], filter)}
           found == Chosen(entries, I)
           page == ListLogEntries(filter, size)
           n == PageSize(size)
<1>1. n \in Nat /\ n >= 1
  BY LoggingAssumption DEF PageSize
<1>2. page = IF Len(found) > n THEN SubSeq(found, 1, n) ELSE found
  BY DEF ListLogEntries
<1>3. entries \in Seq(LogEntry) /\ Increasing(entries) /\ I \subseteq DOMAIN entries
  BY DEF LogInv
<1> HIDE DEF found, page, n, I
<1>4. /\ found \in Seq(LogEntry) /\ Increasing(found)
      /\ \A k \in DOMAIN found : \E i \in I : found[k] = entries[i]
      /\ \A i \in I : \E k \in DOMAIN found : found[k] = entries[i]
  BY <1>3, ChosenKeepsOrder DEF found
<1>5. Len(found) \in Nat /\ DOMAIN found = 1..Len(found) /\ \A k \in 1..Len(found) : found[k] \in LogEntry
  BY <1>4
<1>6. /\ page \in Seq(LogEntry)
      /\ \A k \in DOMAIN page : k \in DOMAIN found /\ page[k] = found[k]
      /\ \A k \in DOMAIN found : k \in DOMAIN page \/ (Len(page) = n /\ \A i \in DOMAIN page : i < k)
  <2>1. CASE Len(found) > n
    <3>1. \A k \in 1..n : k \in 1..Len(found)
      BY <1>1, <1>5, <2>1
    <3>2. page = SubSeq(found, 1, n) /\ \A k \in 1..n : found[k] \in LogEntry
      BY <1>2, <1>5, <2>1, <3>1
    <3>3. /\ page \in Seq(LogEntry)
          /\ Len(page) = IF 1 <= n THEN n - 1 + 1 ELSE 0
          /\ \A k \in 1..(n - 1 + 1) : page[k] = found[1 + k - 1]
      <4>1. 1 \in Int /\ n \in Int
        BY <1>1
      <4> QED BY <3>2, <4>1, SubSeqProperties
    <3>4. n - 1 + 1 = n /\ \A k \in 1..n : 1 + k - 1 = k
      BY <1>1
    <3>5. Len(page) = n /\ \A k \in 1..n : page[k] = found[k]
      BY <1>1, <3>3, <3>4
    <3>6. DOMAIN page = 1..n
      BY <3>3, <3>5
    <3>7. \A k \in DOMAIN found : k \in 1..n \/ \A i \in 1..n : i < k
      BY <1>1, <1>5
    <3> QED BY <1>5, <3>1, <3>3, <3>5, <3>6, <3>7
  <2>2. CASE ~(Len(found) > n)
    <3>1. page = found
      BY <1>2, <2>2
    <3> QED BY <1>4, <3>1
  <2> QED BY <2>1, <2>2
<1>7. \A i, j \in DOMAIN page : i < j => page[i].before < page[j].before
  BY <1>4, <1>6 DEF Increasing
<1>8. ASSUME NEW k \in DOMAIN page
      PROVE  page[k] \in kept /\ page[k].log \in ListLogs
  <2>1. PICK i \in I : page[k] = entries[i]
    BY <1>4, <1>6
  <2>2. i \in DOMAIN entries
    BY DEF I
  <2> QED BY <2>1, <2>2 DEF LogInv, ListLogs
<1>9. ASSUME NEW e \in kept, Matches(e, filter), ~(e.before + MaxEntries < written)
      PROVE  \/ \E i \in DOMAIN page : page[i] = e
             \/ /\ Len(page) = n
                /\ \A i \in DOMAIN page : page[i].before < e.before
  <2>1. e.before + MaxEntries >= written
    <3>1. e.before \in Nat /\ MaxEntries \in Nat /\ written \in Nat
      BY LoggingAssumption DEF LogInv, LogEntry
    <3> QED BY <1>9, <3>1
  <2>2. PICK i \in DOMAIN entries : entries[i] = e
    BY <2>1 DEF LogInv
  <2>3. i \in I
    BY <1>9, <2>2 DEF I
  <2>4. PICK k \in DOMAIN found : found[k] = e
    BY <1>4, <2>2, <2>3
  <2>5. CASE k \in DOMAIN page
    BY <1>6, <2>4, <2>5
  <2>6. CASE Len(page) = n /\ \A j \in DOMAIN page : j < k
    <3>1. \A j \in DOMAIN page : page[j].before < e.before
      BY <1>4, <1>6, <2>4, <2>6 DEF Increasing
    <3> QED BY <2>6, <3>1
  <2> QED BY <1>6, <2>5, <2>6
<1> QED BY <1>7, <1>8, <1>9 DEF page, n

\* An entry is listed until its log is deleted or MaxEntries later ones have been
\* written, whatever is written, deleted and listed (store.go Write, List).
THEOREM EntriesListed == Spec => []EntriesAreFound
<1>1. Init => LogInv
  BY LogStarts DEF Init, LoggingInit
<1>2. LogInv /\ [Next]_vars => LogInv'
  BY LogNext
<1> QED BY <1>1, <1>2, EntriesFound, PTL DEF Spec

=============================================================================
