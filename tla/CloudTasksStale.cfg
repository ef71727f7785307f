SPECIFICATION Spec
CONSTANTS
  Queues = {q1}
  Names = {n1}
  QueueConfigs <- MCConfigs
  Delays = {0, 1}
  NoQueue = NoQueue
  DataDir = TRUE
  DurationLimit = 32768
  MaxAuto = 1
  MaxCreated = 2
  AttemptCap = 3
  MaxCrashes = 1
PROPERTIES
  CompletesOwnTask
