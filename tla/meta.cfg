SPECIFICATION FairMetaSpec
CONSTANTS
  Executors = {e1, e2}
  ShuffleIds = {s1}
  PathList <- MCPathList
  d1 = d1
  d2 = d2
  NoDevice = NoDevice
  NoOwner = NoOwner
  Failures = TRUE
  MaxCalls = 3
INVARIANTS
  Balanced
  MountsCounted
  DevicesAgreed
PROPERTIES
  CallsReturn
CHECK_DEADLOCK FALSE
