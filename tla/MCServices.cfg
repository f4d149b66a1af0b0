SPECIFICATION ServicesSpec
CONSTANTS
  x1 = x1
  x2 = x2
  t1 = t1
  e1 = e1
  e2 = e2
  k1 = k1
  k2 = k2
  k3 = k3
  pkgA = pkgA
  pkgB = pkgB
  icon = icon
  Nodes = {x1, x2}
  Boots = {}
  Timeout = 1
  MaxNow = 1
  Faults = {"section", "unlock", "crash"}
  None = None
  TaskIds = {t1}
  Plugins = {x1, x2}
  StoreProcs = {x1, x2}
  StoreNames = {k1, k2, k3}
  StoreKeys = {k1, k2}
  CleanPath <- MCCleanPath
  MaxBytes = 2
  Quota = 2
  MaxStoreOps = 3
  Conns = {x1, x2}
  Parts = {"tool"}
  MaxConns = {1, 2}
  MaxAssets = 1
  MaxEnds = 1
  KeyCallers = {x1, x2}
  MaxKeys = 3
  KeyTTL = 2
  MaxTicks = 3
  MaxLost = 1
  EpProcs = {x1, x2}
  EpIds = {e1, e2}
  MaxEpOps = 4
  MaxAnswers = 3
  Uploaders = {x1, x2}
  PackageIds = {pkgA, pkgB}
  Builds = {"signed", "plain"}
  Assets = {icon}
  AssetsOf <- MCAssetsOf
  MaxFaults = 1
  PluginKinds = {"endpoint", "model"}
  Official = "official"
  OtherKeys = {"k1"}
  Categories = {"langgenius", "partner"}
  SizeLimits = {7, 9}
  NewNames = {"child.yaml"}
  MaxSigns = 2
  WizCategories = {"llm", "extension", "datasource"}
  ModelGrants <- MCModelGrants
  ReadmeLanguages <- MCReadmeLanguages
  StorageSizes = {2048}
SYMMETRY Symmetry
INVARIANTS
  SectionExclusive NoLostUpdate
  TaskRecordIsTrue
  StorageIsAccounted
  DebuggingIsSound
  EndpointsAreCurrent
  ResponsesAreWhole
  PackagesAreKept
  ProjectIsComplete
CHECK_DEADLOCK FALSE
