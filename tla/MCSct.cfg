CONSTANTS
  Animations <- AnimationsMC
  MaxOut = 10
  MaxCalls = 4
  MaxScripts = 2
  NULL = NULL
SPECIFICATION FairSpec
INVARIANTS InterruptHasHandler PixelsInOrder AnsweredInTime
PROPERTIES TimerReleased
CHECK_DEADLOCK FALSE
