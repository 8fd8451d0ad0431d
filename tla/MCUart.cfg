SPECIFICATION Spec
CONSTANTS
  Size = 4
  Ports = {p1}
  FifoSize = 2
  SendSizes = {1, 5}
  MaxTx = 5
  MaxRx = 4
  MaxOpens = 2
  EnableRaises = FALSE
INVARIANTS RingsAccounted FreedNeverTouched
PROPERTY EventuallySent
CHECK_DEADLOCK FALSE
