SPECIFICATION Spec
CONSTANTS
  HistoryLimit = 2
  Broken = Broken
  None = None
  v1 = v1
  Url = Url
  CutUrl = CutUrl
  Values <- TwoValues
  InitialValue = v1
  Scenarios <- UndoneCommands
INVARIANT RecordingReplays
CHECK_DEADLOCK FALSE
