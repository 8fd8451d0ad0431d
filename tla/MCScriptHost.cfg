SPECIFICATION Spec
CONSTANTS
  MaxMessages = 4
INVARIANTS TypeOK ScriptBufAlive KnownUploadsRun
CHECK_DEADLOCK FALSE
