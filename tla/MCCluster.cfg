SPECIFICATION ClusterSpec
CONSTANTS
  n1 = n1
  n2 = n2
  n3 = n3
  Nodes = {n1, n2, n3}
  LockTTL = 4
  Interval = 2
  MaxLost = 1
  None = None
  RegNodes = {n1, n2}
  RegMaster = n1
  MaxStarts = 1
  MaxTries = 2
  MaxFaults = 2
INVARIANTS OneWhilePunctual MasterOwnsKey
PROPERTIES MasterEventually RegistryConverges
CHECK_DEADLOCK FALSE
