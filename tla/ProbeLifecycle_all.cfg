SPECIFICATION FairSpec
CONSTANTS
  a = a
  b = b
  Targets = {a, b}
  Failures = {"start", "observer", "sm"}
  MaxRequests = 2
INVARIANTS
  TypeOK
  ManagersOutliveThreads
  CompleteSetServed
  NothingLeftBehind
PROPERTIES
  UninstalledAfterServing
  MainEnds
CHECK_DEADLOCK FALSE
