SPECIFICATION Spec
CONSTANTS
  n1 = n1
  n2 = n2
  n3 = n3
  Nodes = {n1, n2}
  LockTTL = 4
  Interval = 2
  MaxLost = 1
  None = None
INVARIANT AtMostOneMaster
