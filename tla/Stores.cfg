SPECIFICATION Spec
CONSTANTS
  Secrets = {s1}
  t1 = t1
  t2 = t2
  p1 = p1
  p2 = p2
  Payloads = {NoPayload, p1, p2}
  NoPayload = NoPayload
  NoSecret = NoSecret
  MaxVersions = 2
  KeyRings = {ring}
  Keys = {k1}
  Callers = {c1}
  NoKey = NoKey
  NoVersion = NoVersion
  Idle = Idle
  MaxMaterial = 2
  Services = {r1, r2}
  Templates = {t1, t2}
  NoService = NoService
  Logs = {l1}
  NoLog = NoLog
  Severities = {0, 500}
  MaxEntries = 2
  MaxPage = 1
  MaxBatch = 1
  MaxWritten = 5
  MaxCalls = 7
SYMMETRY Symmetry
INVARIANTS
  VersionNamesResolve
  KeysWork
  EntriesAreFound
PROPERTIES
  NamesKeepTheirMeaning
CHECK_DEADLOCK FALSE
