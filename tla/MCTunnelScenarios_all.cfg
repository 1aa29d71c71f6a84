SPECIFICATION Spec
CONSTANTS
  FlowCount = 2
  Datagrams = 3
  MaxRetries = 1
  BatchSize = 2
  Deadline = 1
  QueueSize = 1
  MaxQueued = 3
  ReplySize = 2
  MaxSent = 3
  Capacity = 3
INVARIANTS
  TypesOK
  SuccessEarned
  FailureJustified
PROPERTIES
  EndsReleased
CHECK_DEADLOCK FALSE
