CONSTANTS
  Modulus = 4
  Timers = {t1, t2}
  Delays = {0, 1, 3}
  Clocks = {2}
  MaxTime = 9
  MaxStamps = 2
  NULL = NULL
SPECIFICATION Spec
INVARIANTS WakeupNotLost ClockKept
CHECK_DEADLOCK FALSE
