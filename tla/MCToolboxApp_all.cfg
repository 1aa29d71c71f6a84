SPECIFICATION MCSpec
CONSTANTS
  MaxId = 4
  None = None
  Torn = Torn
  Faults = {"power cut", "read error", "early write"}
  Unsigned <- MCUnsigned
  Most = 2
  MaximumProfiles = 2
  MaxSteps = 3
  MaxPresses = 3
  MaxRunLines = 1
INVARIANTS
  TypesOK
  FilesSurvive
  SessionShown
PROPERTIES
  StepsAreAllowed
  RunShownOver
CHECK_DEADLOCK FALSE
