SPECIFICATION Spec
CONSTANTS
  i1 = i1
  i2 = i2
  c1 = c1
  Instances = {i1, i2}
  Sessions = {}
  Calls = {c1}
  MaxReplicas = 1
  TimeoutMayFire = TRUE
  None = None
INVARIANT StopLeavesNone
CHECK_DEADLOCK FALSE
