----------------------------- MODULE PmemBuffer -----------------------------
(***************************************************************************)
(* Class PmemBuffer of native/src/PmemBuffer.h: a growing byte buffer with  *)
(* a read position and a second window of "dirty" bytes, those that         *)
(* getDataForFlush has not handed out yet.  Every operation runs under      *)
(* buffer_mtx and is one action.  Bytes are numbered in the order in which  *)
(* they arrive; 0 is a byte that nobody has written.  malloc succeeds, and  *)
(* the counters stay far below the range of int.                            *)
(***************************************************************************)
EXTENDS Integers, Sequences

CONSTANTS Bufsize,   \* DEFAULT_BUFSIZE
          InitCap,   \* initial_buf_data_capacity of the second constructor
          MaxLen,    \* bound: bytes per call
          MaxBytes   \* bound: bytes loaded and written in all

ASSUME BufferAssumption ==
  /\ Bufsize \in Nat \ {0}
  /\ InitCap \in Nat
  /\ MaxLen \in Nat
  /\ MaxLen <= Bufsize   \* callers write less than 4 MB at a time
  /\ MaxBytes \in Nat

VARIABLES data,             \* buf_data
          cap,              \* buf_data_capacity
          pos, remaining, pos_dirty, remaining_dirty,
          sent,             \* bytes that have arrived
          got,              \* what the last read returned
          flushed           \* what getDataForFlush has handed out so far

bvars == <<data, cap, pos, remaining, pos_dirty, remaining_dirty, sent, got,
           flushed>>

\* malloc(n), memcpy(d + off, s, Len(s)), and the bytes d[off .. off + n - 1].
Malloc(n) == [i \in 0 .. n - 1 |-> 0]
Blit(d, off, s) ==
  [i \in DOMAIN d |->
     IF off <= i /\ i < off + Len(s) THEN s[i - off + 1] ELSE d[i]]
BytesAt(d, off, n) == [i \in 1 .. n |-> d[off + i - 1]]
Fresh(n) == [i \in 1 .. n |-> sent + i]

\* The unread bytes moved to the start of a new buffer of c bytes.
MovedFromStart(d, c) == Blit(Malloc(c), 0, BytesAt(d, 0, remaining)) \* mutant
Moved(d, c) == Blit(Malloc(c), 0, BytesAt(d, pos, remaining))

\* PmemBuffer() and PmemBuffer(initial_buf_data_capacity)
BInit ==
  /\ cap \in {0, InitCap}
  /\ data = Malloc(cap)
  /\ pos = 0 /\ remaining = 0 /\ pos_dirty = 0 /\ remaining_dirty = 0
  /\ sent = 0 /\ got = <<>> /\ flushed = <<>>

\* load(addr, n).  When the buffer is large enough the new bytes go to index
\* remaining, and pos to 0, wherever the unread bytes are.
LoadBytes(n) ==
  LET c0 == IF cap = 0 THEN n ELSE cap
      d0 == IF cap = 0 THEN Malloc(n) ELSE data
      grow == c0 < remaining + n
  IN  /\ sent + n <= MaxBytes
      /\ cap' = IF grow THEN remaining + n ELSE c0
      /\ data' = Blit(IF grow THEN Moved(d0, remaining + n) ELSE d0,
                      remaining, Fresh(n))
      /\ pos' = 0
      /\ remaining' = remaining + n
      /\ pos_dirty' = remaining + n
      /\ remaining_dirty' = 0
      /\ sent' = sent + n
      /\ UNCHANGED <<got, flushed>>

\* A client that loads only while the unread bytes start at 0, as
\* nvmInputStream does (property ServedInOrder of ShuffleExecutor).
Load(n) == (pos = 0 \/ remaining = 0) /\ LoadBytes(n)

\* write(data, n): the buffer grows by one Bufsize at most.
NotGrown(c) == c   \* mutant
Grown(c) == c + Bufsize
Capacity(c, n) == IF remaining + n > c THEN Grown(c) ELSE c

Write(n) ==
  LET c0 == IF cap = 0 THEN Bufsize ELSE cap
      d0 == IF cap = 0 THEN Malloc(Bufsize) ELSE data
      move == pos + remaining + n > c0
      p == IF move THEN 0 ELSE pos
  IN  /\ sent + n <= MaxBytes
      /\ cap' = IF move THEN Capacity(c0, n) ELSE c0
      /\ data' = Blit(IF move THEN Moved(d0, Capacity(c0, n)) ELSE d0,
                      p + remaining, Fresh(n))
      /\ pos' = p
      /\ pos_dirty' = IF move THEN 0 ELSE pos_dirty
      /\ remaining' = remaining + n
      /\ remaining_dirty' = remaining_dirty + n
      /\ sent' = sent + n
      /\ UNCHANGED <<got, flushed>>

\* read(ret_data, n)
Read(n) ==
  LET len == IF n > remaining THEN remaining ELSE n
      past == pos + len > pos_dirty
  IN  /\ got' = BytesAt(data, pos, len)
      /\ remaining_dirty' = IF past THEN remaining_dirty - (pos + len - pos_dirty)
                                    ELSE remaining_dirty
      /\ pos_dirty' = IF past THEN pos + len ELSE pos_dirty
      /\ pos' = pos + len
      /\ remaining' = remaining - len
      /\ UNCHANGED <<data, cap, sent, flushed>>

\* getDataForFlush(n), when it does not return a null pointer.
MayFlushAny(n) == remaining_dirty # 0   \* mutant: size is not compared
MayFlush(n) == ~(remaining_dirty < n \/ remaining_dirty = 0)

GetDataForFlush(n) ==
  /\ MayFlush(n)
  /\ flushed' = flushed \o BytesAt(data, pos_dirty, n)
  /\ pos_dirty' = pos_dirty + n
  /\ remaining_dirty' = remaining_dirty - n
  /\ UNCHANGED <<data, cap, pos, remaining, sent, got>>

\* clean()
Clean ==
  /\ cap' = 0
  /\ data' = Malloc(0)
  /\ pos' = 0 /\ remaining' = 0 /\ pos_dirty' = 0 /\ remaining_dirty' = 0
  /\ UNCHANGED <<sent, got, flushed>>

BNext == \/ \E n \in 1 .. MaxLen :
              Load(n) \/ Write(n) \/ Read(n) \/ GetDataForFlush(n)
         \/ Clean

BSpec == BInit /\ [][BNext]_bvars

-----------------------------------------------------------------------------
\* The two windows lie inside the buffer, the dirty one inside the unread
\* bytes: no memcpy of read or write leaves the allocation, and the address
\* that getDataForFlush returns has that many bytes behind it.  No lower bound
\* is claimed for remaining_dirty: a flush, a write that moves the buffer and a
\* long read make it negative, and getDataForFlush then refuses.
WindowsInside ==
  /\ 0 <= pos /\ pos <= pos_dirty /\ pos_dirty <= pos + remaining
  /\ pos + remaining <= cap
  /\ pos_dirty + remaining_dirty <= pos + remaining
  /\ 0 <= remaining

\* Whatever the sequence of calls, getDataForFlush hands out bytes that were
\* written, never uninitialised memory.
FlushesWrittenBytes ==
  \A i \in DOMAIN flushed : flushed[i] \in 1 .. sent

Queue == INSTANCE ByteQueue
  WITH q <- BytesAt(data, pos, remaining)

\* Growing and moving the buffer loses, repeats and reorders no unread byte.
ImplementsQueue == Queue!QSpec

\* "do getDataForFlush twice check if only get same data once" (section of
\* the unit test): no byte is handed out for flushing a second time.
FlushedOnce ==
  \A i, j \in DOMAIN flushed : i # j => flushed[i] # flushed[j]
=============================================================================
