SPECIFICATION Spec
CONSTANTS
  t1 = t1
  t2 = t2
  r1 = r1
  h1 = h1
  h2 = h2
  v1 = v1
  v2 = v2
  NoHash = NoHash
  NoVal = NoVal
  Closer = Closer
  Nobody = Nobody
  Threads = {t1}
  Readers = {r1}
  Hashes = {h1, h2}
  Vals = {v1, v2}
  MaxEntries = 3
  MaxOpens = 2
  W = 1000
  AllocMayFail = FALSE
  MallocMayFail = FALSE
  CloseConcurrent = FALSE
  SizeOf <- MCSizeOf
INVARIANTS
  TypeOK
  IndexOnList
  BytesWrittenAssert
  GetFillsBuffer
  NoWildAccess
CHECK_DEADLOCK FALSE
