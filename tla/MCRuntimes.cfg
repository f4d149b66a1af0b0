SPECIFICATION RuntimesSpec
CONSTANTS
  x1 = x1
  x2 = x2
  x3 = x3
  v1 = v1
  c1 = c1
  d1 = d1
  d2 = d2
  Instances = {x1, x2}
  Sessions = {v1}
  Calls = {c1}
  MaxReplicas = 2
  TimeoutMayFire = TRUE
  None = None
  Daemons = {x1, x2}
  MaxCrashes = 1
  MaxInits = 2
  MaxTexts = 3
  TextBytes = {1, 4}
  EmptyBytes = 1
  MaxRequestBytes = 4
  MaxRetryTimes = 2
  MaxLines = 1
  Models = {"m1", "m2"}
  InstCallers = {x1, x2, x3}
  InstDaemons = {d1, d2}
  DaemonOf <- MCDaemonOf
  MaxBuilds = 2
SYMMETRY Symmetry
INVARIANTS
  NoneForgotten ClosedIsQuiet NoticeNotLost
  EnvironmentIsUsable
  ServerlessIsServed
PROPERTY LaunchOnlyWhenShort
CHECK_DEADLOCK FALSE
