---------------------------- MODULE BlockStream ----------------------------
(***************************************************************************)
(* One shuffle block from the map task that writes it to the reducer that   *)
(* reads it: nvmBlockOutputStream on top of nvmOutputStream, the key in the *)
(* native store, and nvmInputStream.  An attempt of the map task may die at *)
(* any point; Spark then starts another one, or starts it beforehand when   *)
(* speculation is on.  All attempts use the same block name.                *)
(*                                                                         *)
(* The serializer is external: it keeps some bytes back and hands the rest  *)
(* to nvmOutputStream.write when it likes, and all of them on flush; only   *)
(* objStream.flush makes it flush nvmOutputStream.  The store is the append *)
(* store that PmemKV is shown to implement, and beside it total_size, which *)
(* update_meta adds to after it has linked the block.  Byte j that attempt  *)
(* a serializes is the pair <<a, j>>.                                       *)
(***************************************************************************)
EXTENDS Integers, Sequences, FiniteSets, SequencesExt, PrefixSums

CONSTANTS Attempts,     \* 1 .. n, the attempts of the map task
          Speculation,  \* TRUE: attempts may overlap
          SpillThrottles, \* values of nvmConf.spill_throttle, -1 for none
          BufCap,       \* nvmOutputStream.length
          SerCap,       \* bytes the serializer can keep back
          MaxRecord,    \* bound: bytes of one record
          MaxBytes      \* bound: bytes of each attempt

ASSUME StreamAssumption ==
  /\ Attempts \subseteq Nat \ {0}
  /\ Speculation \in BOOLEAN
  /\ SpillThrottles \subseteq Nat \cup {-1}
  /\ BufCap \in Nat /\ SerCap \in Nat
  /\ MaxRecord \in Nat /\ MaxBytes \in [Attempts -> Nat]

VARIABLES throttle,\* nvmconf.spill_throttle, never changed
          store,   \* the blocks under the key
          total,   \* total_size of the key
          adding,  \* the attempt whose put holds mtx between linking its
                   \* block and counting it, or 0
          wr,      \* the nvmBlockOutputStream of each attempt
          commit,  \* the attempt whose MapStatus Spark accepted, or 0
          in       \* the reducer's nvmInputStream

svars == <<throttle, store, total, adding, wr, commit, in>>

\* Fields of the two output streams.  bb is the part of byteBuffer up to its
\* position; rem and fl are bufferRemainingSize and bufferFlushedSize; arr is
\* recordsArray.  made, the bytes serialized so far, is an observer.
NewStream ==
  [st |-> "new", ser |-> <<>>, bb |-> <<>>, rem |-> 0, fl |-> 0, size |-> 0,
   records |-> 0, recordsPerBlock |-> 0, arr |-> <<>>, made |-> 0]

NewInput == [st |-> "none", info |-> <<>>, index |-> 0, available |-> 0,
             buf |-> <<>>, got |-> <<>>]

SInit == /\ throttle \in SpillThrottles
         /\ store = <<>>
         /\ total = 0
         /\ adding = 0
         /\ wr = [a \in Attempts |-> NewStream]
         /\ commit = 0
         /\ in = NewInput

-----------------------------------------------------------------------------
\* nvmOutputStream.write(bytes, off, len); BufferOverflowException if not Room.
Room(x, s) == Len(x.bb) + Len(s) <= BufCap
Emit(x, s) == [x EXCEPT !.bb = @ \o s, !.rem = @ + Len(s)]

\* nvmOutputStream.flush: setPartition stores rem bytes from the start of the
\* buffer, whatever its position is.
Stored(x) == IF x.rem > 0 THEN <<SubSeq(x.bb, 1, x.rem)>> ELSE <<>>
Flushed(x) == [x EXCEPT !.fl = @ + x.rem, !.rem = 0]

\* setPartition for the stream x of attempt a, in the store: update_meta waits
\* for mtx; the first block of a key becomes visible with its size, a later
\* one is on the list before total_size counts it.  What the caller does to
\* its own counters afterwards is no one else's business and not delayed.
PutBlock(a, x) ==
  /\ x.rem > 0 => adding = 0
  /\ store' = store \o Stored(x)
  /\ total' = IF store = <<>> THEN x.rem ELSE total
  /\ adding' = IF x.rem > 0 /\ store # <<>> THEN a ELSE adding

PutNothing == UNCHANGED <<store, total, adding>>

\* nvmOutputStream.reset
ResetCounters(x) == [x EXCEPT !.rem = 0, !.fl = 0]   \* mutant: no clear()
Reset(x) == [x EXCEPT !.rem = 0, !.fl = 0, !.bb = <<>>]

\* The body of maybeSpill after the flush.
AccountKeep(x) ==   \* mutant: recordsPerBlock is not set back
  IF x.fl = 0 THEN x
  ELSE Reset([x EXCEPT !.arr = Append(@, x.recordsPerBlock),
                       !.size = @ + x.fl])
Account(x) ==
  IF x.fl = 0 THEN x
  ELSE Reset([x EXCEPT !.arr = Append(@, x.recordsPerBlock),
                       !.recordsPerBlock = 0, !.size = @ + x.fl])

\* The throttle is reached.
FullLate(x) == throttle # -1 /\ x.rem > throttle + 1   \* mutant
Full(x) == throttle # -1 /\ x.rem >= throttle

\* A task attempt starts: nvmShuffleWriter.write creates its streams.
Start(a) ==
  /\ wr[a].st = "new"
  /\ commit = 0
  /\ \A b \in Attempts : b < a => wr[b].st \in
       (IF Speculation THEN {"run", "flushed", "dead"} ELSE {"dead"})
  /\ wr' = [wr EXCEPT ![a].st = "run"]
  /\ PutNothing
  /\ UNCHANGED <<throttle, commit, in>>

\* write(key, value) with a record of k bytes, of which and of what was kept
\* back before the serializer hands on d bytes; then maybeSpill().
WriteRecord(a, k) ==
  LET x == wr[a]
      all == x.ser \o [i \in 1 .. k |-> <<a, x.made + i>>]
  IN  /\ x.st = "run"
      /\ x.made + k <= MaxBytes[a]
      /\ \E d \in 0 .. Len(all) :
           LET y == [Emit(x, SubSeq(all, 1, d)) EXCEPT
                       !.ser = SubSeq(all, d + 1, Len(all)),
                       !.made = @ + k, !.records = @ + 1,
                       !.recordsPerBlock = @ + 1]
               fits == Room(x, SubSeq(all, 1, d))
           IN  /\ Len(all) - d <= SerCap
               /\ \/ /\ ~fits
                     /\ wr' = [wr EXCEPT ![a].st = "overflow"]
                     /\ PutNothing
                  \/ /\ fits
                     /\ Full(y)
                     /\ PutBlock(a, y)
                     /\ wr' = [wr EXCEPT ![a] = Account(Flushed(y))]
                  \/ /\ fits
                     /\ ~Full(y)
                     /\ wr' = [wr EXCEPT ![a] = y]
                     /\ PutNothing
      /\ UNCHANGED <<throttle, commit, in>>

\* maybeSpill(force = true): objStream.flush() hands on what was kept back and
\* flushes nvmOutputStream, so that the flush that follows finds nothing.  The
\* map-side sorter does it at the end of every spill and goes on with the same
\* stream (next = "run"); the writer does it once, after the last record.
ForceSpill(a, next) ==
  LET x == wr[a]
      y == [Emit(x, x.ser) EXCEPT !.ser = <<>>, !.st = next]
  IN  /\ x.st = "run"
      /\ \/ /\ ~Room(x, x.ser)
            /\ wr' = [wr EXCEPT ![a].st = "overflow"]
            /\ PutNothing
         \/ /\ Room(x, x.ser)
            /\ PutBlock(a, y)
            /\ wr' = [wr EXCEPT ![a] = Account(Flushed(y))]
      /\ UNCHANGED <<throttle, commit, in>>

\* close() (nvmOutputStream.close flushes and resets) and the MapStatus, of
\* which Spark keeps the first.
Close(a) ==
  /\ wr[a].st = "flushed"
  /\ PutBlock(a, wr[a])
  /\ wr' = [wr EXCEPT ![a] = [Reset(@) EXCEPT !.st = "done"]]
  /\ commit' = IF commit = 0 THEN a ELSE commit
  /\ UNCHANGED <<throttle, in>>

\* The attempt fails or is killed, which does not interrupt a native call;
\* nobody closes its streams, and nothing is taken back from the store.
Fail(a) ==
  /\ wr[a].st \in {"run", "flushed", "overflow"}
  /\ wr' = [wr EXCEPT ![a].st = "dead"]
  /\ PutNothing
  /\ UNCHANGED <<throttle, commit, in>>

\* The put counts its block and leaves update_meta.
PutTotal(a) ==
  /\ adding = a
  /\ total' = total + Len(store[Len(store)])
  /\ adding' = 0
  /\ UNCHANGED <<throttle, store, wr, commit, in>>

\* What the task does next, once its last put has returned.
WriterStep(a) ==
  /\ adding # a
  /\ \/ Start(a) \/ Close(a) \/ Fail(a)
     \/ \E next \in {"run", "flushed"} : ForceSpill(a, next)
     \/ \E k \in 1 .. MaxRecord : WriteRecord(a, k)

-----------------------------------------------------------------------------
\* new nvmInputStream: blockInfo = getPartitionBlockInfo(blockId), all blocks
\* on the list.  One that is not counted yet is beyond the array get_meta was
\* given, since length is set after total_size: PmemKV's meta_overrun.  The
\* outcome here is the one in which the stray write does no further harm ...
OpenInfo ==
  /\ commit # 0
  /\ in.st = "none"
  /\ in' = [in EXCEPT !.st = "info", !.info = store]
  /\ UNCHANGED <<throttle, store, total, adding, wr, commit>>

\* ... then available_bytes = getPartitionSize(blockId), a second call, which
\* returns total_size, and load(available_bytes): blocks are loaded until that
\* many bytes are there.
LoadFirst(info, len) == IF info = <<>> THEN 0 ELSE 1   \* mutant
LoadCount(info, len) ==
  LET Enough(n) == n = Len(info) \/ (n > 0 /\ Len(FlattenSeq(SubSeq(info, 1, n))) >= len)
  IN  CHOOSE n \in 0 .. Len(info) :
        Enough(n) /\ \A m \in 0 .. n - 1 : ~Enough(m)

OpenSize ==
  LET n == LoadCount(in.info, total)
  IN  /\ in.st = "info"
      /\ in' = [in EXCEPT !.st = "open", !.available = total, !.index = n,
                          !.buf = FlattenSeq(SubSeq(in.info, 1, n))]
      /\ UNCHANGED <<throttle, store, total, adding, wr, commit>>

\* The first n bytes of the buffer are read.
Take(x, n) == [x EXCEPT !.got = @ \o SubSeq(x.buf, 1, n),
                        !.buf = SubSeq(x.buf, n + 1, Len(x.buf)),
                        !.available = @ - n]

\* read(bytes, off, len): -1 when nothing is loaded; it never loads a block.
ReadBytes(len) ==
  /\ in.st = "open"
  /\ in' = IF in.buf = <<>>
             THEN [in EXCEPT !.st = "eof"]
             ELSE Take(in, IF len < Len(in.buf) THEN len ELSE Len(in.buf))
  /\ UNCHANGED <<throttle, store, total, adding, wr, commit>>

\* read(): loads the next block when the buffer is empty.
ReadByte ==
  /\ in.st = "open"
  /\ in' = IF in.buf # <<>> THEN Take(in, 1)
           ELSE IF in.index >= Len(in.info) THEN [in EXCEPT !.st = "eof"]
           ELSE Take([in EXCEPT !.buf = in.info[in.index + 1],
                                !.index = @ + 1], 1)
  /\ UNCHANGED <<throttle, store, total, adding, wr, commit>>

SNext ==
  \/ \E a \in Attempts : WriterStep(a) \/ PutTotal(a)
  \/ OpenInfo \/ OpenSize
  \/ \E len \in 1 .. MaxRecord : ReadBytes(len)
  \/ ReadByte

SSpec == SInit /\ [][SNext]_svars

-----------------------------------------------------------------------------
\* The bytes of attempt a among the first n of s, and among all of them.
OfFirst(a, s, n) ==
  LET mine[i \in 0 .. Len(s)] ==
        IF i = 0 THEN <<>>
        ELSE IF s[i][1] = a THEN Append(mine[i - 1], s[i]) ELSE mine[i - 1]
  IN  mine[n]
Of(a, s) == OfFirst(a, s, Len(s))
Produced(a) == [i \in 1 .. wr[a].made |-> <<a, i>>]

\* Between two calls every byte an attempt has serialized is in exactly one
\* place (stored, in byteBuffer, or kept back by the serializer), in order,
\* however the bytes were cut into blocks and other attempts got in between.
NothingLost ==
  \A a \in Attempts :
    Of(a, FlattenSeq(store)) \o SubSeq(wr[a].bb, 1, wr[a].rem) \o wr[a].ser
      = Produced(a)

BlocksOf(a, s) == {i \in DOMAIN s : s[i][1][1] = a}

\* When an attempt has finished, the length it reports in its MapStatus is
\* what it stored, and recordsArray, which getPartitionMeta indexes with the
\* blocks of the key, accounts for all records and all its blocks.
ReportMatchesStore ==
  \A a \in Attempts :
    wr[a].st = "done" =>
      /\ wr[a].size = Len(Of(a, FlattenSeq(store)))
      /\ SumFirst(wr[a].arr, Len(wr[a].arr)) = wr[a].records
      /\ Len(wr[a].arr) = Cardinality(BlocksOf(a, store))

\* The 6 MB buffer of nvmOutputStream never overflows, whatever was spilled
\* when, if a throttle above 0 is set and what the serializer may keep back
\* and one more record fit above it.
NoOverflow ==
  throttle > 0 /\ throttle + SerCap + MaxRecord <= BufCap + 1 =>
    \A a \in Attempts : wr[a].st # "overflow"

\* A reader that sees the end of the stream has read whole blocks, in order
\* from the first on: all that it found when it was opened, or all but the last
\* and then at least the bytes that getPartitionSize announced.  Bulk reads
\* never load a block, a late attempt may append between the two calls of the
\* constructor, and the size may not count the last block found yet.
ReadsWholeBlocks ==
  in.st = "eof" =>
    \/ in.got = FlattenSeq(in.info)
    \/ /\ in.got = FlattenSeq(Front(in.info))
       /\ in.available <= 0

\* Among the bytes a reducer gets, those of the committed attempt are complete,
\* in order and there once, whatever other attempts left under the same name
\* and whichever block the size did not count.
CommittedBytesRead ==
  in.st = "eof" => Of(commit, in.got) = Produced(commit)

\* "we can do that once since pmdk supports transaction" (nvmShuffleWriter):
\* what a reducer reads is the output of the attempt that was committed.
ReadsCommittedAttempt ==
  in.st = "eof" => in.got = Produced(commit)
=============================================================================
