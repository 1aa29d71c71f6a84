SPECIFICATION Spec
CONSTANTS
  Objects = {"obj1"}
  Commands = {"cmd4"}
  TableSizes <- SmallHandleTable
  PathLength = 3
  NumSessions = 2
  MaxSessions = 1
  MaxHandles = 4
  MaxDepth = 1
INVARIANTS
  DisconnectedAtLastClose
CHECK_DEADLOCK FALSE
