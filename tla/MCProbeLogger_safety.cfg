SPECIFICATION Spec
CONSTANTS
  p1 = p1
  p2 = p2
  Producers = {p1, p2}
  BlobKinds = {"generic"}
  Generic = "generic"
  Text = "text"
  Capacity <- MCCapacity
  BatchSize <- MCBatchSize
  MaxAccepted = 3
  MaxRejected = 1
SYMMETRY Symmetry
INVARIANTS
  TypeOK
  RingHoldsNewest
  EveryEntryAccounted
  FilesInOrder
PROPERTIES
  ExitLeavesNothing
  ImplementsBoundedLog
CHECK_DEADLOCK FALSE
