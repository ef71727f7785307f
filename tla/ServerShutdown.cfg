SPECIFICATION SafetySpec
CONSTANTS
  Conns = {c1}
  Nobody = Nobody
  Loop = Loop
  NoContainer = NoContainer
  MaxContainers = 2
  MaxFaults = 0
  Natives = {n1}
  MaxRuns = 1
INVARIANT ShutdownStopsContainer
CHECK_DEADLOCK FALSE
