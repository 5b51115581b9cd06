CONSTANTS
  MaxWindow = 4
  MaxStreamId = 3
  DefaultWindow = 2
  DefaultStreams = 2
  MinFrameSize = 1
  MaxFrameSize = 1
  Retained = 2
  MaxHeaderBlock = 1
  MaxIdlePriority = 1
  ClientConfig <- MCClient
  ServerConfig <- MCServer
  BodySizes = {1, 2}
  MaxInFlight = 2
  MaxReplies = 3
SPECIFICATION Spec
INVARIANTS
  TypeOK
  CreditConserved
  
  StatesAgree
CHECK_DEADLOCK FALSE
