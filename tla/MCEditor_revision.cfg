SPECIFICATION Spec
CONSTANTS
  n1 = n1
  n2 = n2
  n3 = n3
  page = page
  NodeId = {n1, n2, n3}
  PageId = page
  Index = {0, 1, 2}
  Coord = {0, 1, 2}
  Size = {0, 1, 2}
  Name = {"a", "b"}
  Overflow <- MCOverflow
  LoadableDocuments <- MCLayoutDocuments
  HistoryLimit = 2
  MaxTransactions = 2
  MoveDelta <- MCDeltas
  InputCoord = {0}
  InputSize = {0, 2}
  ReorderIndex = {}
  InputFlag = {TRUE, FALSE}
  NoRecord = NoRecord
  NoJump = NoJump
PROPERTIES RevisionIncreasesOnChange
CHECK_DEADLOCK FALSE
