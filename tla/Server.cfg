SPECIFICATION Spec
CONSTANTS
  Conns = {c1, c2}
  Nobody = Nobody
  Loop = Loop
  NoContainer = NoContainer
  MaxContainers = 4
  MaxFaults = 1
  Natives = {n1}
  MaxRuns = 2
INVARIANTS
  TypeOK
  ForwardsToHealthy
  ShutdownIsFinal
PROPERTIES
  ServedContainerStays
  ConnectionsEnd
  InterruptEnds
CHECK_DEADLOCK FALSE
