CONSTANTS
  MaxWindow = 4
  MaxStreamId = 3
  DefaultWindow = 2
  DefaultStreams = 1
  MinFrameSize = 1
  MaxFrameSize = 1
  Retained = 2
  MaxHeaderBlock = 1
  MaxIdlePriority = 1
  ClientConfig <- MCSequentialClient
  ServerConfig <- MCWideServer
  BodySizes = {1, 2}
  MaxInFlight = 2
  MaxReplies = 3
SPECIFICATION Spec
INVARIANT StreamWindowHonoured
CHECK_DEADLOCK FALSE
