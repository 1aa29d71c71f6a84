SPECIFICATION Spec
CONSTANTS
  MaxId = 4
  None = None
  Torn = Torn
  Faults = {"power cut"}
PROPERTIES
  NoIdTwice
CHECK_DEADLOCK FALSE
