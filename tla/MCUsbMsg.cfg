CONSTANTS
  HeaderSize = 1
  EpSize = 3
  MaxBlock = 6
  HostShapes <- MCHostShapes
  SendLens <- MCSendLens
  MaxHost = 2
  MaxSent = 2
  MaxDrops = 1
  HostWaits = TRUE
  EnableFlushes = TRUE
  NULL = NULL
SPECIFICATION Spec
INVARIANTS
  BuffersSafe
  NeverStuck
  OutFraming
PROPERTIES
  EventuallyDispatched
  InIsChannel
CHECK_DEADLOCK FALSE
