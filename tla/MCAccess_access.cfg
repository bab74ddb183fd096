CONSTANTS
  Kids = {k1, k2}
  KeySets <- MCKeySets
  Capabilities = {c1, c2}
  NotFetched = NotFetched
  k1 = k1
  k2 = k2
  c1 = c1
  c2 = c2
SPECIFICATION Spec
INVARIANTS OnlyAuthorisedReach RotationKeepsAccess
