CONSTANTS
  Requests = {r1, r2, r3}
  Filters = {f1}
  maxOutstanding = 2
  ChannelSize = 1
  ShutdownMode = "abrupt"
  r1 = r1
  r2 = r2
  r3 = r3
  f1 = f1
  None = None
SPECIFICATION FairSpec
CHECK_DEADLOCK FALSE
PROPERTY EveryRequestIsAnswered
