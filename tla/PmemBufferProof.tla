-------------------------- MODULE PmemBufferProof --------------------------
(***************************************************************************)
(* PmemBuffer stays inside its allocation and is a queue of bytes, for      *)
(* every DEFAULT_BUFSIZE, every initial capacity and every sequence of      *)
(* calls.                                                                   *)
(***************************************************************************)
EXTENDS PmemBuffer, DataLemmas

\* The counters are integers (remaining_dirty may become negative: a write
\* that moves the buffer resets pos_dirty without adjusting it).
CounterType ==
  /\ cap \in Nat /\ pos \in Nat /\ remaining \in Nat
  /\ pos_dirty \in Nat /\ remaining_dirty \in Int
  /\ sent \in Nat

WindowInv == CounterType /\ WindowsInside

\* load keeps the windows inside, for any number of bytes.
LEMMA WindowLoad ==
  ASSUME WindowInv, NEW n \in Nat, LoadBytes(n)
  PROVE  WindowInv'
  BY DEF WindowInv, CounterType, WindowsInside, LoadBytes

\* The same for read.
LEMMA WindowRead ==
  ASSUME WindowInv, NEW n \in Nat, Read(n)
  PROVE  WindowInv'
  BY DEF WindowInv, CounterType, WindowsInside, Read

\* One case per operation of the class.
LEMMA WindowStep ==
  ASSUME WindowInv, [BNext]_bvars
  PROVE  WindowInv'
<1> USE BufferAssumption DEF WindowInv, CounterType, WindowsInside
<1>1. ASSUME NEW n \in 1 .. MaxLen, Load(n) PROVE WindowInv'
  <2>1. n \in Nat  OBVIOUS
  <2> QED  BY <1>1, <2>1, WindowLoad DEF Load
<1>2. ASSUME NEW n \in 1 .. MaxLen, Write(n) PROVE WindowInv'
  <2> DEFINE c0 == IF cap = 0 THEN Bufsize ELSE cap
             move == pos + remaining + n > c0
  <2>1. c0 \in Nat /\ remaining <= c0 /\ n <= Bufsize
    OBVIOUS
  <2>2. CASE move
    <3>1. cap' = Capacity(c0, n) /\ pos' = 0 /\ pos_dirty' = 0
      BY <1>2, <2>2 DEF Write
    <3>2. remaining + n <= Capacity(c0, n) /\ Capacity(c0, n) \in Nat
      BY <2>1 DEF Capacity, Grown
    <3> QED  BY <1>2, <3>1, <3>2 DEF Write
  <2>3. CASE ~move
    BY <1>2, <2>1, <2>3 DEF Write
  <2> QED  BY <2>2, <2>3
<1>3. ASSUME NEW n \in 1 .. MaxLen, Read(n) PROVE WindowInv'
  <2>1. n \in Nat  OBVIOUS
  <2> QED  BY <1>3, <2>1, WindowRead
<1>4. ASSUME NEW n \in 1 .. MaxLen, GetDataForFlush(n) PROVE WindowInv'
  BY <1>4 DEF GetDataForFlush, MayFlush
<1>5. CASE Clean  BY <1>5 DEF Clean
<1>6. CASE UNCHANGED bvars  BY <1>6 DEF bvars
<1> QED  BY <1>1, <1>2, <1>3, <1>4, <1>5, <1>6 DEF BNext

\* No sequence of load, write, read, getDataForFlush and clean moves a window
\* of the buffer outside the memory it has allocated.
THEOREM BufferInBounds == BSpec => []WindowsInside
<1>1. BInit => WindowInv
  BY BufferAssumption DEF BInit, WindowInv, CounterType, WindowsInside
<1>2. WindowInv /\ [BNext]_bvars => WindowInv'  BY WindowStep
<1>3. WindowInv => WindowsInside  BY DEF WindowInv
<1> QED  BY <1>1, <1>2, <1>3, PTL DEF BSpec

-----------------------------------------------------------------------------
(***************************************************************************)
(* The bytes of the buffer.                                                *)
(***************************************************************************)
\* Unread bytes are bytes that arrived, and so is what was handed out.
BytesInv ==
  /\ data \in [0 .. cap - 1 -> Nat]
  /\ \A i \in pos .. pos + remaining - 1 : data[i] \in 1 .. sent
  /\ flushed \in Seq(1 .. sent)

\* A buffer of c bytes that nobody has written.
LEMMA MallocType ==
  ASSUME NEW c \in Nat
  PROVE  Malloc(c) \in [0 .. c - 1 -> Nat]
  BY DEF Malloc

\* The bytes at off, as a sequence.
LEMMA BytesAtType ==
  ASSUME NEW d, NEW off \in Nat, NEW n \in Nat, NEW S,
         \A i \in off .. off + n - 1 : d[i] \in S
  PROVE  /\ BytesAt(d, off, n) \in Seq(S)
         /\ Len(BytesAt(d, off, n)) = n
         /\ \A i \in 1 .. n : BytesAt(d, off, n)[i] = d[off + i - 1]
<1>1. \A i \in 1 .. n : off + i - 1 \in off .. off + n - 1  OBVIOUS
<1>2. \A i \in 1 .. n : d[off + i - 1] \in S  BY <1>1
<1> QED  BY <1>2 DEF BytesAt

\* memcpy of a sequence into a buffer.
LEMMA BlitAt ==
  ASSUME NEW c \in Nat, NEW d \in [0 .. c - 1 -> Nat], NEW off \in Nat,
         NEW s \in Seq(Nat)
  PROVE  /\ Blit(d, off, s) \in [0 .. c - 1 -> Nat]
         /\ \A i \in 0 .. c - 1 :
              Blit(d, off, s)[i] =
                IF off <= i /\ i < off + Len(s) THEN s[i - off + 1] ELSE d[i]
<1>1. \A i \in 0 .. c - 1 :
        off <= i /\ i < off + Len(s) => s[i - off + 1] \in Nat
  <2> SUFFICES ASSUME NEW i \in 0 .. c - 1, off <= i, i < off + Len(s)
               PROVE  s[i - off + 1] \in Nat
    OBVIOUS
  <2>1. i - off + 1 \in 1 .. Len(s)  OBVIOUS
  <2> QED  BY <2>1
<1>2. DOMAIN d = 0 .. c - 1 /\ \A i \in 0 .. c - 1 : d[i] \in Nat  OBVIOUS
<1> QED  BY <1>1, <1>2 DEF Blit

\* The next n bytes to arrive.
LEMMA FreshType ==
  ASSUME sent \in Nat, NEW n \in Nat
  PROVE  /\ Fresh(n) \in Seq(Nat) /\ Len(Fresh(n)) = n
         /\ \A i \in 1 .. n : Fresh(n)[i] = sent + i
  BY DEF Fresh

\* Bytes have arrived: the unread ones now start at p, and the new ones
\* follow.
Arrived(n, p) ==
  /\ data' \in [0 .. cap' - 1 -> Nat]
  /\ pos' = p /\ remaining' = remaining + n /\ sent' = sent + n
  /\ \A i \in 0 .. remaining - 1 : data'[p + i] = data[pos + i]
  /\ \A i \in 0 .. n - 1 : data'[p + remaining + i] = sent + i + 1

\* New bytes go right behind the unread ones, which start at p in a buffer of
\* c bytes that holds all of them.
LEMMA ArrivedIf ==
  ASSUME CounterType, NEW n \in Nat, NEW c \in Nat, NEW p \in Nat,
         NEW d \in [0 .. c - 1 -> Nat], p + remaining + n <= c,
         \A i \in 0 .. remaining - 1 : d[p + i] = data[pos + i],
         cap' = c, pos' = p, data' = Blit(d, p + remaining, Fresh(n)),
         remaining' = remaining + n, sent' = sent + n
  PROVE  Arrived(n, p)
<1> USE DEF CounterType
<1> DEFINE s == Fresh(n)
<1>1. s \in Seq(Nat) /\ Len(s) = n /\ \A i \in 1 .. n : s[i] = sent + i
  BY FreshType
<1> HIDE DEF s
<1> DEFINE o == p + remaining
<1>2. o \in Nat /\ data' = Blit(d, o, s)  BY DEF s
<1>a. /\ Blit(d, o, s) \in [0 .. c - 1 -> Nat]
      /\ \A i \in 0 .. c - 1 :
           Blit(d, o, s)[i] = IF o <= i /\ i < o + Len(s)
                                THEN s[i - o + 1] ELSE d[i]
  <2>1. o \in Nat /\ s \in Seq(Nat) /\ d \in [0 .. c - 1 -> Nat] /\ c \in Nat
    BY <1>1, <1>2
  <2> HIDE DEF o, CounterType
  <2>2. Blit(d, o, s) \in [0 .. c - 1 -> Nat]  BY <2>1, BlitAt
  <2>3. \A i \in 0 .. c - 1 :
          Blit(d, o, s)[i] = IF o <= i /\ i < o + Len(s)
                               THEN s[i - o + 1] ELSE d[i]
    BY <2>1, BlitAt, ZenonT(30)
  <2> QED  BY <2>2, <2>3
<1>3. /\ data' \in [0 .. c - 1 -> Nat]
      /\ \A i \in 0 .. c - 1 :
           data'[i] = IF p + remaining <= i /\ i < p + remaining + n
                        THEN s[i - (p + remaining) + 1] ELSE d[i]
  BY <1>1, <1>2, <1>a
<1>4. ASSUME NEW i \in 0 .. remaining - 1
      PROVE  data'[p + i] = data[pos + i]
  <2>1. p + i \in 0 .. c - 1 /\ ~(p + remaining <= p + i)  OBVIOUS
  <2> QED  BY <1>3, <2>1
<1>5. ASSUME NEW i \in 0 .. n - 1
      PROVE  data'[p + remaining + i] = sent + i + 1
  <2> DEFINE k == p + remaining + i
  <2>1. /\ k \in 0 .. c - 1 /\ p + remaining <= k /\ k < p + remaining + n
        /\ k - (p + remaining) + 1 = i + 1 /\ i + 1 \in 1 .. n
    OBVIOUS
  <2> QED  BY <1>1, <1>3, <2>1
<1> QED  BY <1>3, <1>4, <1>5 DEF Arrived

\* Moving the unread bytes to a new buffer keeps them.
LEMMA MovedAt ==
  ASSUME CounterType, NEW c \in Nat, remaining <= c,
         NEW b \in Nat, NEW d \in [0 .. b - 1 -> Nat], pos + remaining <= b
  PROVE  /\ Moved(d, c) \in [0 .. c - 1 -> Nat]
         /\ \A i \in 0 .. remaining - 1 : Moved(d, c)[i] = d[pos + i]
<1> USE DEF CounterType
<1> DEFINE s == BytesAt(d, pos, remaining)
<1>1. \A i \in pos .. pos + remaining - 1 : d[i] \in Nat  OBVIOUS
<1>2. /\ s \in Seq(Nat) /\ Len(s) = remaining
      /\ \A i \in 1 .. remaining : s[i] = d[pos + i - 1]
  BY <1>1, BytesAtType
<1> HIDE DEF s
<1> DEFINE m == Malloc(c)
<1>3. m \in [0 .. c - 1 -> Nat]  BY MallocType
<1>4. Moved(d, c) = Blit(m, 0, s)  BY DEF Moved, s
<1> HIDE DEF m
<1>a. /\ Blit(m, 0, s) \in [0 .. c - 1 -> Nat]
      /\ \A i \in 0 .. c - 1 :
           Blit(m, 0, s)[i] = IF 0 <= i /\ i < 0 + Len(s)
                                THEN s[i - 0 + 1] ELSE m[i]
  <2>1. 0 \in Nat /\ s \in Seq(Nat) /\ c \in Nat  BY <1>2
  <2> HIDE DEF CounterType
  <2> QED  BY <2>1, <1>3, BlitAt
<1>5. /\ Moved(d, c) \in [0 .. c - 1 -> Nat]
      /\ \A i \in 0 .. c - 1 :
           Moved(d, c)[i] = IF 0 <= i /\ i < 0 + remaining
                              THEN s[i - 0 + 1] ELSE m[i]
  BY <1>2, <1>4, <1>a
<1>6. ASSUME NEW i \in 0 .. remaining - 1 PROVE Moved(d, c)[i] = d[pos + i]
  <2>1. i \in 0 .. c - 1 /\ i - 0 + 1 \in 1 .. remaining
        /\ pos + (i - 0 + 1) - 1 = pos + i
    OBVIOUS
  <2> QED  BY <1>2, <1>5, <2>1
<1> QED  BY <1>5, <1>6

\* What load does to the bytes.
LEMMA LoadArrives ==
  ASSUME WindowInv, data \in [0 .. cap - 1 -> Nat], NEW n \in Nat, Load(n)
  PROVE  Arrived(n, 0)
<1> USE DEF WindowInv, CounterType, WindowsInside
<1> DEFINE c0 == IF cap = 0 THEN n ELSE cap
           d0 == IF cap = 0 THEN Malloc(n) ELSE data
           c == remaining + n
<1>1. /\ c0 \in Nat /\ d0 \in [0 .. c0 - 1 -> Nat] /\ n \in Nat
      /\ pos + remaining <= c0 /\ c \in Nat
  <2>1. n \in Nat /\ c \in Nat /\ c0 \in Nat /\ pos + remaining <= c0
    OBVIOUS
  <2>2. CASE cap = 0
    <3>1. Malloc(n) \in [0 .. n - 1 -> Nat]  BY <2>1, MallocType
    <3> QED  BY <2>1, <2>2, <3>1
  <2>3. CASE cap # 0  BY <2>1, <2>3
  <2> QED  BY <2>2, <2>3
<1>2. \A i \in 0 .. remaining - 1 : d0[pos + i] = data[pos + i]
  OBVIOUS
<1>3. /\ pos = 0 \/ remaining = 0
      /\ cap' = (IF c0 < c THEN c ELSE c0)
      /\ data' = Blit(IF c0 < c THEN Moved(d0, c) ELSE d0, remaining, Fresh(n))
      /\ pos' = 0 /\ remaining' = remaining + n /\ sent' = sent + n
  BY DEF Load, LoadBytes
<1>4. 0 + remaining = remaining  OBVIOUS
<1> HIDE DEF d0
<1>5. CASE c0 < c
  <2> DEFINE d == Moved(d0, c)
  <2>1. /\ d \in [0 .. c - 1 -> Nat]
        /\ \A i \in 0 .. remaining - 1 : d[i] = d0[pos + i]
    <3>1. CounterType /\ remaining <= c  BY <1>1
    <3> HIDE DEF c0, c, CounterType, WindowInv, WindowsInside
    <3> QED  BY <1>1, <3>1, MovedAt
  <2>2. data' = Blit(d, 0 + remaining, Fresh(n)) /\ cap' = c
    BY <1>3, <1>4, <1>5
  <2> HIDE DEF d
  <2>3. \A i \in 0 .. remaining - 1 : d[0 + i] = data[pos + i]
    BY <1>2, <2>1
  <2>4. 0 + remaining + n <= c  BY <1>4
  <2>5. CounterType /\ c \in Nat /\ n \in Nat /\ 0 \in Nat  BY <1>1
  <2>6. pos' = 0 /\ remaining' = remaining + n /\ sent' = sent + n  BY <1>3
  <2> HIDE DEF c
  <2> QED  BY <2>1, <2>2, <2>3, <2>4, <2>5, <2>6, ArrivedIf
<1>6. CASE ~(c0 < c)
  <2>1. data' = Blit(d0, 0 + remaining, Fresh(n)) /\ cap' = c0
    BY <1>3, <1>4, <1>6
  <2>2. \A i \in 0 .. remaining - 1 : d0[0 + i] = data[pos + i]
    BY <1>2, <1>3
  <2>3. 0 + remaining + n <= c0  BY <1>1, <1>6
  <2>4. CounterType /\ 0 \in Nat  OBVIOUS
  <2> HIDE DEF c0, c, CounterType, WindowInv, WindowsInside
  <2> QED  BY <1>1, <1>3, <2>1, <2>2, <2>3, <2>4, ArrivedIf
<1> QED  BY <1>5, <1>6

\* What write does to the bytes, whether or not it moves them.
LEMMA WriteArrives ==
  ASSUME WindowInv, BytesInv, NEW n \in 1 .. MaxLen, Write(n)
  PROVE  \E p \in Nat : Arrived(n, p)
<1> USE BufferAssumption DEF WindowInv, CounterType, WindowsInside
<1> DEFINE c0 == IF cap = 0 THEN Bufsize ELSE cap
           d0 == IF cap = 0 THEN Malloc(Bufsize) ELSE data
           c == Capacity(c0, n)
           move == pos + remaining + n > c0
<1>1. /\ c0 \in Nat /\ d0 \in [0 .. c0 - 1 -> Nat] /\ n \in Nat
      /\ pos + remaining <= c0 /\ n <= Bufsize
  <2>1. /\ n \in Nat /\ n <= Bufsize /\ c0 \in Nat /\ Bufsize \in Nat
        /\ pos + remaining <= c0
    OBVIOUS
  <2>2. CASE cap = 0
    <3>1. Malloc(Bufsize) \in [0 .. Bufsize - 1 -> Nat]  BY <2>1, MallocType
    <3> QED  BY <2>1, <2>2, <3>1
  <2>3. CASE cap # 0  BY <2>1, <2>3 DEF BytesInv
  <2> QED  BY <2>2, <2>3
<1>2. \A i \in 0 .. remaining - 1 : d0[pos + i] = data[pos + i]
  OBVIOUS
<1>3. c \in Nat /\ remaining + n <= c
  BY <1>1 DEF Capacity, Grown
<1>4. /\ cap' = (IF move THEN c ELSE c0)
      /\ data' = Blit(IF move THEN Moved(d0, c) ELSE d0,
                      (IF move THEN 0 ELSE pos) + remaining, Fresh(n))
      /\ pos' = (IF move THEN 0 ELSE pos)
      /\ remaining' = remaining + n /\ sent' = sent + n
  BY DEF Write
<1> HIDE DEF d0, c
<1>5. CASE move
  <2> DEFINE d == Moved(d0, c)
  <2>1. /\ d \in [0 .. c - 1 -> Nat]
        /\ \A i \in 0 .. remaining - 1 : d[i] = d0[pos + i]
    BY <1>1, <1>3, MovedAt
  <2>2. data' = Blit(d, 0 + remaining, Fresh(n)) /\ cap' = c /\ pos' = 0
    BY <1>4, <1>5
  <2> HIDE DEF d
  <2>3. \A i \in 0 .. remaining - 1 : d[0 + i] = data[pos + i]
    BY <1>2, <2>1
  <2>4. 0 + remaining + n <= c  BY <1>3
  <2>5. Arrived(n, 0)
    BY <1>1, <1>3, <1>4, <2>1, <2>2, <2>3, <2>4, ArrivedIf
  <2> QED  BY <2>5
<1>6. CASE ~move
  <2>1. /\ data' = Blit(d0, pos + remaining, Fresh(n))
        /\ cap' = c0 /\ pos' = pos /\ pos + remaining + n <= c0
    BY <1>1, <1>4, <1>6
  <2> HIDE DEF c0
  <2>2. Arrived(n, pos)  BY <1>1, <1>2, <1>4, <2>1, ArrivedIf
  <2> QED  BY <2>2
<1> QED  BY <1>5, <1>6

\* The arrival of bytes keeps the invariant.
LEMMA ArrivedInv ==
  ASSUME WindowInv, BytesInv, NEW n \in Nat, NEW p \in Nat, Arrived(n, p),
         flushed' = flushed
  PROVE  BytesInv'
<1> USE DEF WindowInv, CounterType
<1>1. pos' = p /\ remaining' = remaining + n /\ sent' = sent + n
  BY DEF Arrived
<1>2. ASSUME NEW i \in p .. p + (remaining + n) - 1
      PROVE  data'[i] \in 1 .. sent + n
  <2> DEFINE k == i - p
             j == k - remaining
  <2>1. k \in 0 .. remaining + n - 1 /\ i = p + k  OBVIOUS
  <2>2. CASE k < remaining
    <3>1. k \in 0 .. remaining - 1  BY <2>1, <2>2
    <3> HIDE DEF k
    <3>2. data'[p + k] = data[pos + k]  BY <3>1 DEF Arrived
    <3>3. pos + k \in pos .. pos + remaining - 1  BY <3>1
    <3>4. data[pos + k] \in 1 .. sent  BY <3>3 DEF BytesInv
    <3> QED  BY <2>1, <3>2, <3>4
  <2>3. CASE ~(k < remaining)
    <3>1. j \in 0 .. n - 1 /\ i = p + remaining + j  BY <2>1, <2>3
    <3> HIDE DEF j
    <3>2. data'[p + remaining + j] = sent + j + 1  BY <3>1 DEF Arrived
    <3> QED  BY <3>1, <3>2
  <2> QED  BY <2>2, <2>3
<1>3. flushed' \in Seq(1 .. sent + n)
  <2>1. 1 .. sent \subseteq 1 .. sent + n  OBVIOUS
  <2>2. flushed \in Seq(1 .. sent)  BY DEF BytesInv
  <2> QED  BY <2>1, <2>2, SeqWiden
<1>4. data' \in [0 .. cap' - 1 -> Nat]  BY DEF Arrived
<1> QED  BY <1>1, <1>2, <1>3, <1>4 DEF BytesInv

\* One case per operation.
LEMMA BytesStep ==
  ASSUME WindowInv, BytesInv, [BNext]_bvars
  PROVE  BytesInv'
<1>1. ASSUME NEW n \in 1 .. MaxLen, Load(n) \/ Write(n) PROVE BytesInv'
  <2>2. n \in Nat /\ 0 \in Nat  OBVIOUS
  <2>1. PICK p \in Nat : Arrived(n, p)
    BY <1>1, <2>2, LoadArrives, WriteArrives DEF BytesInv
  <2>3. flushed' = flushed  BY <1>1 DEF Load, LoadBytes, Write
  <2> QED  BY <2>1, <2>2, <2>3, ArrivedInv
<1> USE DEF WindowInv, CounterType, WindowsInside
<1>2. ASSUME NEW n \in 1 .. MaxLen, Read(n) PROVE BytesInv'
  <2>1. /\ \E k \in 0 .. remaining : pos' = pos + k /\ remaining' = remaining - k
        /\ UNCHANGED <<data, cap, sent, flushed>>
    BY <1>2 DEF Read
  <2>2. pos' .. pos' + remaining' - 1 \subseteq pos .. pos + remaining - 1
    BY <2>1
  <2> QED  BY <2>1, <2>2 DEF BytesInv
<1>3. ASSUME NEW n \in 1 .. MaxLen, GetDataForFlush(n) PROVE BytesInv'
  <2> DEFINE s == BytesAt(data, pos_dirty, n)
  <2>1. /\ UNCHANGED <<data, cap, pos, remaining, sent>>
        /\ flushed' = flushed \o s
    BY <1>3 DEF GetDataForFlush
  <2>2. pos_dirty .. pos_dirty + n - 1 \subseteq pos .. pos + remaining - 1
    BY <1>3 DEF GetDataForFlush, MayFlush
  <2>3. \A i \in pos_dirty .. pos_dirty + n - 1 : data[i] \in 1 .. sent
    BY <2>2 DEF BytesInv
  <2>4. s \in Seq(1 .. sent)  BY <2>3, BytesAtType
  <2> HIDE DEF s
  <2>5. flushed' \in Seq(1 .. sent)  BY <2>1, <2>4 DEF BytesInv
  <2> QED  BY <2>1, <2>5 DEF BytesInv
<1>4. CASE Clean
  <2>1. data' \in [0 .. cap' - 1 -> Nat]  BY <1>4, MallocType DEF Clean
  <2> QED  BY <1>4, <2>1 DEF Clean, BytesInv
<1>5. CASE UNCHANGED bvars  BY <1>5 DEF bvars, BytesInv
<1> QED  BY <1>1, <1>2, <1>3, <1>4, <1>5 DEF BNext

\* A new buffer holds no unread byte.
LEMMA BufferInit == BInit => WindowInv /\ BytesInv
<1> SUFFICES ASSUME BInit PROVE WindowInv /\ BytesInv  OBVIOUS
<1>1. WindowInv
  BY BufferAssumption DEF BInit, WindowInv, CounterType, WindowsInside
<1>2. data \in [0 .. cap - 1 -> Nat]
  BY <1>1, MallocType DEF BInit, WindowInv, CounterType
<1>3. flushed \in Seq(1 .. sent)  BY DEF BInit
<1> QED  BY <1>1, <1>2, <1>3 DEF BInit, BytesInv

\* The windows and the bytes in them.
THEOREM BufferInvariant == BSpec => [](WindowInv /\ BytesInv)
<1>1. BInit => WindowInv /\ BytesInv  BY BufferInit
<1>2. WindowInv /\ BytesInv /\ [BNext]_bvars => WindowInv' /\ BytesInv'
  BY WindowStep, BytesStep
<1> QED  BY <1>1, <1>2, PTL DEF BSpec

\* Whatever the sequence of calls and the sizes, getDataForFlush hands out
\* bytes that were loaded or written, never uninitialised memory.
THEOREM FlushedBytesWritten == BSpec => []FlushesWrittenBytes
<1>1. BytesInv => FlushesWrittenBytes
  <2> SUFFICES ASSUME flushed \in Seq(1 .. sent), NEW i \in DOMAIN flushed
               PROVE  flushed[i] \in 1 .. sent
    BY DEF BytesInv, FlushesWrittenBytes
  <2>1. flushed \in [1 .. Len(flushed) -> 1 .. sent]  BY SeqFun
  <2> QED  BY <2>1
<1> QED  BY <1>1, BufferInvariant, PTL

-----------------------------------------------------------------------------
(***************************************************************************)
(* The buffer implements ByteQueue.                                        *)
(***************************************************************************)
unread == BytesAt(data, pos, remaining)

\* The unread bytes as a sequence, before and after a step.
LEMMA UnreadType ==
  ASSUME WindowInv, BytesInv
  PROVE  /\ unread \in Seq(Nat) /\ Len(unread) = remaining
         /\ \A i \in 1 .. remaining : unread[i] = data[pos + i - 1]
<1> USE DEF WindowInv, CounterType
<1>1. \A i \in pos .. pos + remaining - 1 : data[i] \in Nat
  BY DEF BytesInv
<1> QED  BY <1>1, BytesAtType DEF unread

\* Bytes that arrive are appended to the queue.
LEMMA ArrivedEnqueued ==
  ASSUME WindowInv, BytesInv, BytesInv', NEW n \in Nat, NEW p \in Nat,
         Arrived(n, p)
  PROVE  unread' = unread \o Fresh(n)
<1> USE DEF WindowInv, CounterType
<1> DEFINE s == unread
           u == unread'
           t == Fresh(n)
           r == remaining + n
<1>1. /\ s \in Seq(Nat) /\ Len(s) = remaining
      /\ \A i \in 1 .. remaining : s[i] = data[pos + i - 1]
  BY UnreadType
<1>2. /\ u \in Seq(Nat) /\ Len(u) = r
      /\ \A i \in 1 .. r : u[i] = data'[p + i - 1]
  <2>1. pos' = p /\ remaining' = r /\ sent' = sent + n /\ r \in Nat
    BY DEF Arrived
  <2> HIDE DEF r
  <2>2. \A i \in p .. p + r - 1 : data'[i] \in Nat
    BY <2>1 DEF BytesInv
  <2>3. u = BytesAt(data', p, r)  BY <2>1 DEF unread
  <2> DEFINE d == data'
  <2>4. u = BytesAt(d, p, r) /\ \A i \in p .. p + r - 1 : d[i] \in Nat
    BY <2>2, <2>3
  <2>5. p \in Nat /\ r \in Nat  BY <2>1
  <2> HIDE DEF d, u, WindowInv, CounterType
  <2>6. /\ u \in Seq(Nat) /\ Len(u) = r
        /\ \A i \in 1 .. r : u[i] = d[p + i - 1]
    BY <2>4, <2>5, BytesAtType
  <2> QED  BY <2>6 DEF d
<1>3. t \in Seq(Nat) /\ Len(t) = n /\ \A i \in 1 .. n : t[i] = sent + i
  BY FreshType
<1> HIDE DEF s, u, t
<1>4. ASSUME NEW i \in 1 .. remaining PROVE u[i] = s[i]
  <2>1. /\ i - 1 \in 0 .. remaining - 1 /\ p + (i - 1) = p + i - 1
        /\ pos + (i - 1) = pos + i - 1 /\ i \in 1 .. r
    OBVIOUS
  <2>2. data'[p + (i - 1)] = data[pos + (i - 1)]  BY <2>1 DEF Arrived
  <2> QED  BY <1>1, <1>2, <2>1, <2>2
<1>5. ASSUME NEW i \in 1 .. n PROVE u[remaining + i] = t[i]
  <2>1. /\ i - 1 \in 0 .. n - 1 /\ remaining + i \in 1 .. r
        /\ p + (remaining + i) - 1 = p + remaining + (i - 1)
        /\ sent + (i - 1) + 1 = sent + i
    OBVIOUS
  <2>2. data'[p + remaining + (i - 1)] = sent + (i - 1) + 1
    BY <2>1 DEF Arrived
  <2> QED  BY <1>2, <1>3, <2>1, <2>2
<1>6. /\ Len(u) = Len(s) + Len(t)
      /\ \A i \in 1 .. Len(s) : u[i] = s[i]
      /\ \A i \in 1 .. Len(t) : u[Len(s) + i] = t[i]
  BY <1>1, <1>2, <1>3, <1>4, <1>5
<1>7. s \in Seq(Nat) /\ t \in Seq(Nat) /\ u \in Seq(Nat)
  BY <1>1, <1>2, <1>3
<1>8. u = s \o t  BY <1>6, <1>7, IsConcat
<1> QED  BY <1>8 DEF s, u, t

\* Part of the unread bytes, as a sequence.
LEMMA UnreadPart ==
  ASSUME WindowInv, BytesInv, NEW o \in Nat, NEW k \in Nat,
         pos <= o, o + k <= pos + remaining
  PROVE  /\ BytesAt(data, o, k) \in Seq(Nat)
         /\ Len(BytesAt(data, o, k)) = k
         /\ \A i \in 1 .. k : BytesAt(data, o, k)[i] = data[o + i - 1]
<1>1. ASSUME NEW i \in o .. o + k - 1 PROVE data[i] \in Nat
  <2>1. i \in pos .. pos + remaining - 1
    BY DEF WindowInv, CounterType
  <2> QED  BY <2>1 DEF BytesInv
<1> QED  BY <1>1, BytesAtType

\* read takes bytes from the front of the queue.
LEMMA ReadDequeues ==
  ASSUME WindowInv, BytesInv, NEW n \in 1 .. MaxLen, Read(n)
  PROVE  \E k \in 0 .. MaxLen : Queue!Dequeue(k)
<1> USE BufferAssumption DEF WindowInv, CounterType
<1> DEFINE k == IF n > remaining THEN remaining ELSE n
           s == unread
<1>1. /\ s \in Seq(Nat) /\ Len(s) = remaining
      /\ \A i \in 1 .. remaining : s[i] = data[pos + i - 1]
  BY UnreadType
<1>2. /\ got' = BytesAt(data, pos, k) /\ data' = data /\ sent' = sent
      /\ pos' = pos + k /\ remaining' = remaining - k
      /\ k \in 0 .. MaxLen /\ k <= remaining
  BY DEF Read
<1> HIDE DEF k
<1>3. k \in Nat /\ remaining - k \in Nat /\ pos + k \in Nat
  BY <1>2
<1>4. got' = SubSeq(s, 1, k)
  <2> DEFINE g == BytesAt(data, pos, k)
             a == SubSeq(s, 0 + 1, 0 + k)
  <2>1. pos \in Nat /\ pos <= pos /\ pos + k <= pos + remaining
    BY <1>2, <1>3
  <2>2. /\ g \in Seq(Nat) /\ Len(g) = k
        /\ \A i \in 1 .. k : g[i] = data[pos + i - 1]
    BY <1>3, <2>1, UnreadPart
  <2>3. 0 \in Nat /\ 0 + k <= Len(s)  BY <1>1, <1>2, <1>3
  <2> HIDE DEF s, g
  <2>4. /\ a \in Seq(Nat) /\ Len(a) = k
        /\ \A i \in 1 .. k : a[i] = s[0 + i]
    BY <1>1, <1>3, <2>3, SubSeqAt
  <2>5. a = SubSeq(s, 1, k)  BY <1>3
  <2> HIDE DEF a
  <2>6. ASSUME NEW i \in 1 .. k PROVE g[i] = a[i]
    <3>1. 0 + i = i /\ i \in 1 .. remaining  BY <1>2, <1>3
    <3> QED  BY <1>1, <2>2, <2>4, <3>1
  <2>7. g = a  BY <2>2, <2>4, <2>6, SameSeq
  <2> QED  BY <1>2, <2>5, <2>7 DEF g
<1>5. unread' = SubSeq(s, k + 1, Len(s))
  <2> DEFINE r == remaining - k
             o == pos + k
             u == BytesAt(data, o, r)
             a == SubSeq(s, k + 1, k + r)
  <2>1. pos <= o /\ o + r <= pos + remaining  BY <1>3
  <2>2. o \in Nat /\ r \in Nat  BY <1>3
  <2>3. unread' = u  BY <1>2 DEF unread
  <2>4. k + r = Len(s) /\ k + r <= Len(s)  BY <1>1, <1>3
  <2>5. ASSUME NEW i \in 1 .. r
        PROVE  k + i \in 1 .. remaining /\ o + i - 1 = pos + (k + i) - 1
    BY <1>3
  <2> HIDE DEF s, r, o
  <2>6. /\ u \in Seq(Nat) /\ Len(u) = r
        /\ \A i \in 1 .. r : u[i] = data[o + i - 1]
    BY <2>1, <2>2, UnreadPart
  <2>7. /\ a \in Seq(Nat) /\ Len(a) = r
        /\ \A i \in 1 .. r : a[i] = s[k + i]
    <3>1. /\ s \in Seq(Nat) /\ k \in Nat /\ r \in Nat
          /\ k + r <= Len(s)
      BY <1>1, <1>3, <2>2, <2>4
    <3> HIDE DEF WindowInv, CounterType
    <3> QED  BY <3>1, SubSeqAt
  <2>8. a = SubSeq(s, k + 1, Len(s))  BY <2>4
  <2> HIDE DEF a, u
  <2>9. ASSUME NEW i \in 1 .. r PROVE u[i] = a[i]
    <3>1. k + i \in 1 .. remaining /\ o + i - 1 = pos + (k + i) - 1
      BY <2>5
    <3>2. u[i] = data[o + i - 1]  BY <2>6
    <3>3. a[i] = s[k + i]  BY <2>7
    <3>4. s[k + i] = data[pos + (k + i) - 1]  BY <1>1, <3>1
    <3> QED  BY <3>1, <3>2, <3>3, <3>4
  <2>10. u = a  BY <2>6, <2>7, <2>9, SameSeq
  <2> QED  BY <2>3, <2>8, <2>10
<1>6. Queue!Dequeue(k)
  BY <1>1, <1>2, <1>4, <1>5 DEF Queue!Dequeue, unread
<1> QED  BY <1>2, <1>6

\* The buffer is a queue of bytes: whatever it allocates, moves and hands out
\* for flushing, read returns the bytes in the order of their arrival.
THEOREM BufferIsQueue == BSpec => ImplementsQueue
<1>1. BInit => Queue!QInit
  <2> SUFFICES ASSUME BInit PROVE Queue!QInit  OBVIOUS
  <2>1. \A d, p : BytesAt(d, p, 0) = <<>>  BY DEF BytesAt
  <2> QED  BY <2>1 DEF BInit, Queue!QInit
<1>2. WindowInv /\ BytesInv /\ [BNext]_bvars =>
        [Queue!QNext]_(Queue!qvars)
  <2> SUFFICES ASSUME WindowInv, BytesInv, [BNext]_bvars
               PROVE  Queue!QNext \/ UNCHANGED Queue!qvars
    OBVIOUS
  <2>0. WindowInv' /\ BytesInv'  BY WindowStep, BytesStep
  <2>1. ASSUME NEW n \in 1 .. MaxLen, Load(n) \/ Write(n)
        PROVE  Queue!QNext
    <3>0. n \in Nat /\ 0 \in Nat  OBVIOUS
    <3>1. PICK p \in Nat : Arrived(n, p)
      BY <2>1, <3>0, LoadArrives, WriteArrives DEF BytesInv
    <3>2. unread' = unread \o Fresh(n)  BY <2>0, <3>0, <3>1, ArrivedEnqueued
    <3>3. got' = got /\ sent' = sent + n
      BY <2>1 DEF Load, LoadBytes, Write
    <3>4. Queue!Enqueue(n)
      BY <3>2, <3>3 DEF Queue!Enqueue, unread, Fresh
    <3> QED  BY <3>4 DEF Queue!QNext
  <2>2. ASSUME NEW n \in 1 .. MaxLen, Read(n) PROVE Queue!QNext
    BY <2>2, ReadDequeues DEF Queue!QNext
  <2>3. ASSUME NEW n \in 1 .. MaxLen, GetDataForFlush(n)
        PROVE  UNCHANGED Queue!qvars
    BY <2>3 DEF GetDataForFlush, Queue!qvars
  <2>4. CASE Clean
    <3>1. \A d, p : BytesAt(d, p, 0) = <<>>  BY DEF BytesAt
    <3> QED  BY <2>4, <3>1 DEF Clean, Queue!QNext, Queue!Discard
  <2>5. CASE UNCHANGED bvars  BY <2>5 DEF bvars, Queue!qvars
  <2> QED  BY <2>1, <2>2, <2>3, <2>4, <2>5 DEF BNext
<1> QED
  BY <1>1, <1>2, BufferInvariant, PTL
  DEF BSpec, ImplementsQueue, Queue!QSpec

=============================================================================
