SPECIFICATION DmaSpec
CONSTANTS
  MaxDmaSize = 3
  Requests <- MCRequests
  RepeatWidth = 4
  MaxTransfers = 3
  NoRequest = NoRequest
INVARIANTS AllBytesMoved WireFramed ErrorReported
PROPERTY EventuallyFree
CHECK_DEADLOCK FALSE
