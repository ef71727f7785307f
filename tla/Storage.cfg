SPECIFICATION Spec
CONSTANTS
  Buckets = {b1}
  Names = {n1, n2}
  Handlers = {h1, h2}
  NoObject = NoObject
  NoUpload = NoUpload
  Torn = Torn
  MaxIds = 2
  MaxChunks = 2
  MaxRestarts = 1
SYMMETRY Symmetry
INVARIANTS
  TypeOK
  CrashLosesNothing
  UploadsKeepApart
PROPERTIES
  ImplementsObjectStore
CHECK_DEADLOCK FALSE
