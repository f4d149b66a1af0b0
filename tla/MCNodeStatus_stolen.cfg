SPECIFICATION Spec
CONSTANTS
  n1 = n1
  n2 = n2
  n3 = n3
  Nodes = {n1, n2}
  Boots = {n1}
  Timeout = 1
  MaxNow = 1
  Faults = {"lock"}
  None = None
INVARIANT NoLostUpdate
CHECK_DEADLOCK FALSE
