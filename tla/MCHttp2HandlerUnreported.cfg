CONSTANTS
  MaxStreamId = 3
  MaxWindow = 2
  DefaultWindow = 1
  DefaultStreams = 2
  MinFrameSize = 2
  MaxFrameSize = 2
  Retained = 2
  MaxHeaderBlock = 2
  MaxIdlePriority = 1
  Fds = {1, 2}
  MaxUpstream = 1
  ServerConfig <- MCConfig
  Incoming <- MCIncoming
  Applications <- Proxy
SPECIFICATION Spec
INVARIANT ClosedReported
CHECK_DEADLOCK FALSE
