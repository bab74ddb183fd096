CONSTANTS
  Workers = {w1, w2}
  Lifetime = 5
  Margin = 4
  MaxDelay = 2
  Horizon = 9
  w1 = w1
  w2 = w2
SPECIFICATION Spec
INVARIANTS LiveUnlessMidSave TimeIsClose
PROPERTY ClientNeverAges
