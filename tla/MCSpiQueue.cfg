SPECIFICATION Spec
CONSTANTS
  Transfers = {t1, t2, t3}
  Locks = {l1, l2}
  BadChunks = {}
  MaxRaw = 2
  HoldersWait = TRUE
  NULL = NULL
INVARIANTS BusExclusive OwnResult
PROPERTY EveryoneServed
CHECK_DEADLOCK FALSE
