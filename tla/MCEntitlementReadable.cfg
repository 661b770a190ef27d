CONSTANTS
  w1 = w1
  w2 = w2
  c1 = c1
  c2 = c2
  c3 = c3
  Handlers = {w1}
  Claims = {c1}
  None = None
  MaxTruth = 1
  MaxFence = 2
SPECIFICATION Spec
CHECK_DEADLOCK FALSE
INVARIANT SettledEntitlementReadable
