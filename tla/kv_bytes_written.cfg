SPECIFICATION Spec
CONSTANTS
  t1 = t1
  t2 = t2
  r1 = r1
  h1 = h1
  h2 = h2
  v1 = v1
  v2 = v2
  NoHash = NoHash
  NoVal = NoVal
  Closer = Closer
  Nobody = Nobody
  Threads = {t1, t2}
  Readers = {}
  Hashes = {h1}
  Vals = {v1, v2}
  MaxEntries = 3
  MaxOpens = 1
  W = 1000
  AllocMayFail = FALSE
  MallocMayFail = FALSE
  CloseConcurrent = FALSE
  SizeOf <- MCSizeOf
INVARIANTS
  BytesWrittenAssert
CHECK_DEADLOCK FALSE
