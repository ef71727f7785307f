SPECIFICATION Spec
CONSTANTS
  d1 = d1
  d2 = d2
  Docs = {d1, d2}
  Calls = {k1, k2}
  Commits <- MCCommits
  LogSize = 2
  Empty = Empty
  Garbage = Garbage
  DataDir = TRUE
  MaxWrites = 3
  MaxCrashes = 1
  Streams = {c1}
  TargetIds = {x1}
  Queries = {{d1}}
  NoStream = NoStream
  ChanCap = 1
  QueueCap = 2
SYMMETRY CallSymmetry
INVARIANTS
  TypeOK
  FlushedWhenAlone
  SequenceNumbers
  ListenersConverge
