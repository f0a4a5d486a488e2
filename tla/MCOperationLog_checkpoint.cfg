SPECIFICATION Spec
CONSTANTS
  CheckpointEvery = 2
  MaxOperations = 2
  MaxFlushes = 0
  MaxLoads = 1
  MaxFailures = 0
  NoSession = NoSession
  NoWrite = NoWrite
  NoEvent = NoEvent
INVARIANTS CheckpointMatchesLog
CHECK_DEADLOCK FALSE
