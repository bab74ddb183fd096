CONSTANTS
  Requests = {r1, r2}
  Filters = {f1, f2}
  maxOutstanding = 2
  ChannelSize = 1
  ShutdownMode = "gentle"
  r1 = r1
  r2 = r2
  None = None
  f1 = f1
  f2 = f2
SPECIFICATION Spec
CHECK_DEADLOCK FALSE
INVARIANT ShutdownBesidesQueue
