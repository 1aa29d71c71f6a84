SPECIFICATION Spec
CONSTANTS
  Objects = {"obj1", "obj2"}
  Commands = {"cmd4"}
  TableSizes <- BothSizes
  PathLength = 3
  NumSessions = 3
  MaxSessions = 2
  MaxHandles = 4
  MaxDepth = 3
INVARIANTS
  TypeOK
  TrackedWhileOpen
  DisconnectedIfRoom
  NothingKeptAfterClose
  PathsFollowCalls
CHECK_DEADLOCK FALSE
