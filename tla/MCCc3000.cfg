SPECIFICATION FairSpec
CONSTANTS
  Calls <- MCCalls
  Ops <- MCOps
  MaxCalls = 3
  MaxUnsol = 2
  MaxDepth = 2
PROPERTY CallsReturn
INVARIANTS
  TypeOK
  OwnAnswer
  DeviceHeard
  BusyIsTrue
CHECK_DEADLOCK FALSE
