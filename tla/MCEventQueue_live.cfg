CONSTANTS
  Msgs = {m1, m2, m3, m4}
  ChannelSize = 1
  WorkerPoolSize = 1
  BatchSizes = {1, 2, 3}
  MaxBatchSize = 3
  SubmitOnEmptyQueue = TRUE
  Cancellable = TRUE
  ShutdownModes = {}
  m1 = m1
  m2 = m2
  m3 = m3
  m4 = m4
SPECIFICATION EagerSpec
CHECK_DEADLOCK FALSE
INVARIANTS TypeOK PoolBound BatchBound
PROPERTIES ImplementsFifo ImplementsLiveFifo SenderUnblocks
