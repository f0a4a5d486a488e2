SPECIFICATION Spec
CONSTANTS
  n1 = n1
  n2 = n2
  n3 = n3
  page = page
  NodeId = {n1, n2, n3}
  PageId = page
  Index = {0, 1}
  Coord = {0}
  Size = {1}
  Name = {}
  Overflow = {}
  NoRecord = NoRecord
INVARIANTS TypeOK VerdictIsDefinition EachCycleReportedOnce
PROPERTIES Terminates
CHECK_DEADLOCK FALSE
