SPECIFICATION FairSpec
CONSTANTS
  t1 = t1
  t2 = t2
  r1 = r1
  h1 = h1
  h2 = h2
  v1 = v1
  v2 = v2
  NoHash = NoHash
  NoVal = NoVal
  Closer = Closer
  Nobody = Nobody
  Threads = {t1}
  Readers = {r1}
  Hashes = {h1}
  Vals = {v1}
  MaxEntries = 2
  MaxOpens = 1
  W = 1000
  AllocMayFail = TRUE
  MallocMayFail = FALSE
  CloseConcurrent = TRUE
  SizeOf <- MCSizeOfOne
INVARIANTS
  BytesAllocatedAssert
PROPERTIES
  ImplementsAppendStore
  CloseReturns
  PutReturns
CHECK_DEADLOCK FALSE
