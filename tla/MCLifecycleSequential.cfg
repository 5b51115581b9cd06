CONSTANTS
  c1 = c1
  c2 = c2
  Controllers <- MCOne
  MaxCalls = 3
  Waits = {0, 1, 2}
  MaxTime = 2
  MaxConns = 2
  Modes = {"start", "run", "multi"}
  Signal = FALSE
  PollFails = FALSE
  DuringStartup = FALSE
SPECIFICATION FairSpec
INVARIANTS
  TypeOK
  DrainedCleanly
PROPERTIES
  StopEndsLoop
  DrainEndsLoop
  
  DeadlineShrinks
CHECK_DEADLOCK FALSE
