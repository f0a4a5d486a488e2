SPECIFICATION Spec
CONSTANTS
  CheckpointEvery = 2
  MaxOperations = 2
  MaxFlushes = 0
  MaxLoads = 1
  MaxFailures = 1
  NoSession = NoSession
  NoWrite = NoWrite
  NoEvent = NoEvent
INVARIANTS RecordingGoesOn
CHECK_DEADLOCK FALSE
