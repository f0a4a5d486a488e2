SPECIFICATION MCSpec
CONSTANTS
  CheckpointEvery = 2
  MaxOperations = 2
  MaxFlushes = 1
  MaxLoads = 2
  MaxFailures = 1
  NoSession = NoSession
  NoWrite = NoWrite
  NoEvent = NoEvent
INVARIANTS TypeOK NoHoles CheckpointNotBehind RecorderNotBehind
PROPERTIES FlushCovers EndedIsFinal CleanCloseIsComplete CallsSettle
CHECK_DEADLOCK FALSE
