SPECIFICATION FairSpec
CONSTANTS
  a = a
  b = b
  Targets = {a, b}
  Failures = {}
  MaxRequests = 2
PROPERTIES
  ShutdownCompletes
CHECK_DEADLOCK FALSE
