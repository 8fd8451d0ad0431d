CONSTANTS
  Lengths = {1}
  MaxWords = 2
  RecWords = 1
  MaxCalls = 2
  MaxScripts = 1
  NULL = NULL
SPECIFICATION Spec
INVARIANT PlayingIsReferenced
CHECK_DEADLOCK FALSE
