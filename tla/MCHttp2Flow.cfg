CONSTANTS
  MaxWindow = 3
  MaxStreamId = 1
  DefaultWindow = 1
  DefaultStreams = 1
  MinFrameSize = 1
  MaxFrameSize = 2
  Retained = 1
  MaxHeaderBlock = 1
  MaxIdlePriority = 1
  Configs <- MCConfigs
  Incoming <- MCFlowFrames
  Sizes = {0, 1, 2}
SPECIFICATION Spec
INVARIANTS
  TypeOK
  WindowsInRange
CHECK_DEADLOCK FALSE
