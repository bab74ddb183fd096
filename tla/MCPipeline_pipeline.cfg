CONSTANTS
  Msgs = {m1, m2, m3}
  ChannelSize = 1
  WorkerPoolSize = 2
  BatchSizes = {1, 2}
  MaxBatchSize = 2
  SubmitOnEmptyQueue = FALSE
  Cancellable = TRUE
  ShutdownModes = {}
  NumStreams = 2
  m1 = m1
  m2 = m2
  m3 = m3
SPECIFICATION FairPipelineSpec
CHECK_DEADLOCK FALSE
INVARIANTS LossIsCounted DuplicatesNeedFailures OvertakesFew
PROPERTIES BatchesAreDeliveries EveryMessageSettles CancelLeavesOnlyTheQueue
