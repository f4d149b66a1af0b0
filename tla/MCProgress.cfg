SPECIFICATION ProgressSpec
CONSTANTS
  i1 = i1
  v1 = v1
  c1 = c1
  Instances = {i1}
  Sessions = {v1}
  Calls = {c1}
  MaxReplicas = 1
  TimeoutMayFire = TRUE
  None = None
  Producers = {"p1", "p2"}
  Consumers = {"c"}
  Closers = {"x"}
  Hooks = {"h"}
  Capacity = 1
  MaxWrites = 2
  MaxErrors = 0
  BwdReqs = {"r"}
  BwdTypes = {"llm", "app", "storage", "encrypt", "rerank", "upload_file"}
  Grants = {"app", "storage"}
  MaxChunks = 3
PROPERTIES StoppedIsTold LaunchIsReported StoppedIsReaped RequestsAnswered StreamIsReleased
CHECK_DEADLOCK FALSE
