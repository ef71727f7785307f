SPECIFICATION Spec
CONSTANTS
  d1 = d1
  d2 = d2
  Docs = {d1, d2}
  Calls = {k1}
  Commits <- MCCommits
  LogSize = 4
  Empty = Empty
  Garbage = Garbage
  DataDir = FALSE
  MaxWrites = 3
  MaxCrashes = 0
  Streams = {c1}
  TargetIds = {x1}
  Queries = {{d1}}
  NoStream = NoStream
  ChanCap = 4
  QueueCap = 4
INVARIANTS
  ResumeMissesNothing
