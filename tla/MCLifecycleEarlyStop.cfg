CONSTANTS
  c1 = c1
  c2 = c2
  Controllers <- MCOne
  MaxCalls = 1
  Waits = {0, 1}
  MaxTime = 2
  MaxConns = 1
  Modes = {"start"}
  Signal = FALSE
  PollFails = FALSE
  DuringStartup = TRUE
SPECIFICATION FairSpec
PROPERTIES
  StopEndsLoop
CHECK_DEADLOCK FALSE
