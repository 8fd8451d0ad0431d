CONSTANTS
  Lengths = {0, 1, 2}
  MaxWords = 4
  RecWords = 2
  MaxCalls = 4
  MaxScripts = 2
  NULL = NULL
SPECIFICATION FairSpec
INVARIANTS TypeOK PlaybackIsTrue RecorderKnowsItsScript
PROPERTIES BuffersEnd CancelCompletes
CHECK_DEADLOCK FALSE
