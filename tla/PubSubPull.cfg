SPECIFICATION Spec
CONSTANTS
  t1 = t1
  t2 = t2
  s1 = s1
  s2 = s2
  Topics = {t1, t2}
  SubNames = {s1, s2}
  Streams = {c1}
  SubConfigs <- PullConfigs
  PullSizes = {1}
  AckDeadlines = {0, 2}
  DefaultAckDeadline = 1
  StreamBatch = 2
  DeletedTopic = DeletedTopic
  NoTopic = NoTopic
  NoSub = NoSub
  NoJob = NoJob
  DataDir = TRUE
  MaxMsgs = 2
  MaxPublished = 2
  MaxBatch = 2
  AttemptCap = 2
  MaxCrashes = 1
INVARIANTS
  TypeOK
  IndexConsistent
  CrashLosesNothing
  RestartNeverExtendsLease
PROPERTIES
  IdsNeverReused
  ImplementsMailboxes
