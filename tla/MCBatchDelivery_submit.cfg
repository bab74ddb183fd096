CONSTANTS
  MaxStreams = 2
  MaxBatchLen = 4
  MaxPutRecordsBatchSize = 2
  MaxRetries = 1
SPECIFICATION FairSpec
CHECK_DEADLOCK FALSE
INVARIANTS OkMeansStored RequestsAreLegal PutsBounded EveryStreamHadItsChance NoSilentLoss
PROPERTIES SubmitOnlyAdvances ImplementsDelivery SubmitEnds
