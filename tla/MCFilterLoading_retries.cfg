CONSTANTS
  Configs <- MCConfigs
  MaxFilters = 1
  DefaultSizes <- MCDefaultSizes
  DeliveryRetries = 5
  Texts <- MCTexts
  KinesisSpellings <- MCKinesisSpellings
  All = All
  Invalid = Invalid
  NoName = NoName
  n1 = n1
  n2 = n2
SPECIFICATION Spec
CHECK_DEADLOCK FALSE
INVARIANT RetriesAsConfigured
