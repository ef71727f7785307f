SPECIFICATION Spec
CONSTANTS
  push = push
  task = task
  Callers = {push, task}
  Config <- MCConfig
INVARIANTS
  AttemptsAreRequests
PROPERTIES
  DispatchEnds
