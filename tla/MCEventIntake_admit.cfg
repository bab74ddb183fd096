CONSTANTS
  Requests = {r1, r2, r3}
  Filters = {f1, f2}
  maxOutstanding = 2
  ChannelSize = 1
  ShutdownMode = "gentle"
  r1 = r1
  r2 = r2
  r3 = r3
  f1 = f1
  f2 = f2
  None = None
SPECIFICATION Spec
CHECK_DEADLOCK FALSE
SYMMETRY Symmetry
INVARIANTS AdmissionBound DepthIsExact FanOutIsComplete OfferedOnce
