CONSTANTS
  Msgs = {m1, m2}
  ChannelSize = 2
  WorkerPoolSize = 1
  BatchSizes = {2}
  MaxBatchSize = 2
  SubmitOnEmptyQueue = FALSE
  Cancellable = FALSE
  ShutdownModes = {"gentle"}
  m1 = m1
  m2 = m2
SPECIFICATION Spec
CHECK_DEADLOCK FALSE
INVARIANT ShutdownDoesNotCrash
