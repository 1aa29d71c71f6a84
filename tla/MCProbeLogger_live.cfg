SPECIFICATION FairSpec
CONSTANTS
  p1 = p1
  Producers = {p1}
  BlobKinds = {"generic"}
  Generic = "generic"
  Text = "text"
  Capacity <- LiveCapacity
  BatchSize <- LiveBatchSize
  MaxAccepted = 3
  MaxRejected = 1
PROPERTIES
  QueuedIsTakenOut
  LossesAreReported
  ShutdownCompletes
CHECK_DEADLOCK FALSE
