SPECIFICATION RecoverySpec
CONSTANTS
  n1 = n1
  n2 = n2
  t1 = t1
  p1 = p1
  Nodes = {n1, n2}
  Boots = {}
  Timeout = 1
  MaxNow = 1
  Faults = {"lock"}
  None = None
  TaskIds = {t1}
  Plugins = {p1}
PROPERTIES NodeIsListedAgain TaskIsClosed
CHECK_DEADLOCK FALSE
