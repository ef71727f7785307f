SPECIFICATION FairSpec
CONSTANTS
  Queues = {q1}
  Names = {n1}
  QueueConfigs <- MCConfigs
  Delays = {0, 1}
  NoQueue = NoQueue
  DataDir = TRUE
  DurationLimit = 32768
  MaxAuto = 1
  MaxCreated = 3
  AttemptCap = 3
  MaxCrashes = 1
INVARIANTS
  TypeOK
  AttemptsBounded
  CrashLosesNoTask
  DispatchingHasWorker
PROPERTIES
  RetryWaitsInRange
  ImplementsTaskQueues
  TaskSettles
