CONSTANTS
  MaxWindow = 1
  MaxStreamId = 3
  DefaultWindow = 0
  DefaultStreams = 2
  MinFrameSize = 1
  MaxFrameSize = 1
  Retained = 1
  MaxHeaderBlock = 0
  MaxIdlePriority = 0
  Configs <- MCConfigs
  Incoming <- MCLifeCycleFrames
  Sizes = {0}
SPECIFICATION Spec
INVARIANTS
  TypeOK
  ActiveCountExact
  ClosedFifoExact
PROPERTIES
  NoStreamAfterGoAway
  ClosedIsFinal
CHECK_DEADLOCK FALSE
