CONSTANTS
  c1 = c1
  c2 = c2
  Controllers <- MCTwo
  MaxCalls = 1
  Waits = {0, 1}
  MaxTime = 1
  MaxConns = 1
  Modes = {"multi"}
  Signal = TRUE
  PollFails = TRUE
  DuringStartup = TRUE
SPECIFICATION FairSpec
PROPERTIES
  StopEndsLoop
CHECK_DEADLOCK FALSE
