SPECIFICATION Spec
CONSTANTS
  n1 = n1
  n2 = n2
  n3 = n3
  page = page
  NodeId = {n1, n2, n3}
  PageId = page
  Index = {0, 1, 2}
  Coord = {0, 1}
  Size = {0, 1}
  Name = {"a"}
  Overflow = {"visible"}
  LoadableDocuments <- MCTreeDocuments
  HistoryLimit = 2
  MaxTransactions = 3
  MoveDelta = {}
  InputCoord = {0}
  InputSize = {1}
  ReorderIndex = {0, 1}
  NoRecord = NoRecord
  InputFlag = {}
  NoJump = NoJump
INVARIANTS TypeOK HistoryApplies JumpNeverFails TransactionIdsAscend DeletesSubtrees ReorderSwapsKeys
PROPERTIES HistoryIsATimeline
CHECK_DEADLOCK FALSE
