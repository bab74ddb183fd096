CONSTANTS
  Msgs = {m1, m2, m3}
  ChannelSize = 2
  WorkerPoolSize = 2
  BatchSizes = {2}
  MaxBatchSize = 2
  SubmitOnEmptyQueue = FALSE
  Cancellable = FALSE
  ShutdownModes = {"gentle", "abrupt"}
  m1 = m1
  m2 = m2
  m3 = m3
SPECIFICATION FairSpec
CHECK_DEADLOCK FALSE
INVARIANTS NothingLost DiscardIsOneBlock EmptyNeverUndercounts OnlyLastBatchPoisoned
PROPERTIES BehavesAsInIntake ShutdownEnds
