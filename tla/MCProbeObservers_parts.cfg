SPECIFICATION MCSpec
CONSTANTS
  Processes <- MCProcesses
  Program <- MCProgram
  Overrides <- MCOverrides
  Services = {"bsd:s", "bsd:a", "nifm:s"}
  Modes = {"None", "FirstOnly", "SecondOnly", "Both"}
  NifmTargets = {"Qlaunch"}
  NoProcess = NoProcess
  SmMayFail = TRUE
  MaxAsks = 3
  RingSize = 3
  BatchSize = 2
  PostTeardown = 2
  IdleInterval = 3
  MaxRecords = 5
  MaxSessions = 2
  MaxChanges = 3
  Objects = {3, 5}
  Commands = {2}
  Results = {6}
  Payloads <- MCPayloads
  Starts <- MCStarts
  ObjectSlots = 1
  MaxReturned = 2
  BufferWords = 20
  MaxMessages = 2
INVARIANTS
  TypesOK
  CountersAgree
  ForwarderSessionsChosen
  WatchdogAccounts
  MessagesReadBack
PROPERTIES
  ObserversProgress
CHECK_DEADLOCK FALSE
