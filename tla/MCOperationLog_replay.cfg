SPECIFICATION Spec
CONSTANTS
  CheckpointEvery = 2
  MaxOperations = 2
  MaxFlushes = 0
  MaxLoads = 2
  MaxFailures = 0
  NoSession = NoSession
  NoWrite = NoWrite
  NoEvent = NoEvent
INVARIANTS ReplayReconstructs
CHECK_DEADLOCK FALSE
