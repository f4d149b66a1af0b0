SPECIFICATION Spec
CONSTANTS
  c1 = c1
  c2 = c2
  v1 = v1
  v2 = v2
  r1 = r1
  r2 = r2
  Tenants = {c1, c2}
  Versions = {v1, v2}
  Before <- OneHasIt
  Runtimes = {r1, r2}
  Concurrent = 1
  MaxRetry = 2
  WaitFrom = 1
  MaxRequests = 1
  MaxFails = 1
  None = None
INVARIANTS SemaphoreExact RoutedIsScheduled OneListed
PROPERTIES CallersReturn RemovedIsSwept
CHECK_DEADLOCK FALSE
