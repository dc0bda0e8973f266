-------------------------- MODULE ShuffleExecutor --------------------------
(***************************************************************************)
(* One executor: the singleton PersistentMemoryHandler that its tasks       *)
(* share, attempts of a map task that run nvmShuffleWriter.write, the       *)
(* shuffle manager that stops the handler, and the fetch of one block       *)
(* through nvmShuffleBlockResolver, nvmManagedBuffer, nvmInputStream and    *)
(* its PmemBuffer (module PmemBuffer, whose variables are that buffer).     *)
(*                                                                         *)
(* A handler is a number, 0 is null; handler n owns the n-th pmemkv, of     *)
(* which only the index is left: for each partition of the map output the   *)
(* blocks, and the total, which update_meta changes one step later.         *)
(* Allocation succeeds (PmemKV has the failures).  A record is one byte,    *)
(* and byte i of a key is the number i.  Calls on a deleted pmemkv are      *)
(* undefined; dead ends the behaviour there.                                *)
(***************************************************************************)
EXTENDS PmemBuffer, SequencesExt, PrefixSums

CONSTANTS Attempts,       \* 1 .. n, attempts of one map task
          NumPartitions,  \* dep.partitioner.numPartitions
          Throttle,       \* nvmConf.spill_throttle
          MaxRecords,     \* bound: records of one attempt
          MaxHandlers,    \* bound: PersistentMemoryHandler objects
          MaxStops        \* bound: calls of stop()

ASSUME ExecutorAssumption ==
  /\ Attempts \subseteq Nat \ {0}
  /\ NumPartitions \in Nat \ {0}
  /\ Throttle \in Nat \ {0}
  /\ MaxRecords \in Nat /\ MaxHandlers \in Nat /\ MaxStops \in Nat

VARIABLES monitor,  \* who is inside a synchronized method of the object
          handler,  \* persistentMemoryHandler
          stopped,
          made,     \* handlers created
          closes,   \* closes[h]: nativeCloseDevice calls of handler h
          kv,       \* kv[h][p]: the block list of partition p in pmemkv h
          wr,       \* the nvmShuffleWriter of each attempt
          commit,   \* the attempt whose MapStatus Spark accepted, or 0
          sp,       \* the thread in stop(): where it is, calls made
          fe,       \* the fetch of one block
          dead      \* a deleted pmemkv was used

objVars == <<monitor, handler, stopped, made, closes>>
evars == <<objVars, kv, wr, commit, sp, fe, dead, bvars>>

Partitions == 1 .. NumPartitions
Handlers == 1 .. MaxHandlers
Nobody == 0
Stopper == -1

\* The fields of nvmShuffleWriter and, by partition, of its output streams:
\* hnd is persistentMemoryWriter, buf the bytes not flushed, size the bytes
\* flushed.  p counts partitions, at and ret belong to the running flush; out,
\* the bytes written in all, is an observer.
Zeros == [p \in Partitions |-> 0]
NewWriter == [pc |-> "new", p |-> 1, hnd |-> Zeros, buf |-> Zeros,
              size |-> Zeros, out |-> Zeros, partitionLengths |-> Zeros,
              at |-> 1, ret |-> "write"]

\* nvmManagedBuffer and its nvmInputStream, before the fetch.
NewFetch == [pc |-> "idle", kind |-> "none", h |-> 0, p |-> 1,
             total_size |-> -1, refCount |-> 1, byteBuffer |-> "null",
             inputStream |-> FALSE, blockInfo |-> <<>>, index |-> 0,
             remaining |-> 0, available |-> 0, closed |-> FALSE,
             served |-> <<>>]

EInit ==
  /\ monitor = Nobody /\ handler = 0 /\ stopped = FALSE /\ made = 0
  /\ closes = [h \in Handlers |-> 0]
  /\ kv = [h \in Handlers |-> [p \in Partitions |-> [list |-> <<>>, total |-> 0]]]
  /\ wr = [a \in Attempts |-> NewWriter]
  /\ commit = 0
  /\ sp = [pc |-> "idle", stops |-> 0]
  /\ fe = NewFetch
  /\ dead = FALSE
  /\ BInit /\ cap = 0

\* A synchronized method may be entered.
MonitorIgnored == TRUE   \* mutant: not synchronized
MonitorFree == monitor = Nobody

Deleted(h) == closes[h] > 0

\* The native call on store h that the thread is about to make finds the
\* pmemkv deleted.
CallDeleted(h) ==
  /\ Deleted(h)
  /\ dead' = TRUE
  /\ UNCHANGED <<objVars, kv, wr, commit, sp, fe, bvars>>

-----------------------------------------------------------------------------
(***************************************************************************)
(* nvmShuffleWriter.write and stop                                         *)
(***************************************************************************)
Writing(a, pc) == wr[a].pc = pc

\* An attempt is launched: getWriter, then write.
StartTask(a) ==
  /\ Writing(a, "new")
  /\ commit = 0
  /\ wr' = [wr EXCEPT ![a].pc = "open"]
  /\ UNCHANGED <<objVars, kv, commit, sp, fe, dead, bvars>>

\* The stream of partition wr[a].p is constructed with handler h.
StreamMade(a, h) ==
  [wr EXCEPT ![a].hnd[wr[a].p] = h,
             ![a].pc = IF wr[a].p = NumPartitions THEN "write" ELSE "open",
             ![a].p = @ + 1]

\* getPersistentMemoryHandler(nvmconf, ...) when there is one.
GetHandler(a) ==
  /\ Writing(a, "open")
  /\ MonitorFree
  /\ handler # 0
  /\ wr' = StreamMade(a, handler)
  /\ UNCHANGED <<objVars, kv, commit, sp, fe, dead, bvars>>

\* When there is none: new PersistentMemoryHandler, whose pool opens a pmemkv
\* in nativeOpenDevice ...
CreateHandler(a) ==
  /\ Writing(a, "open")
  /\ MonitorFree
  /\ handler = 0
  /\ made < MaxHandlers
  /\ made' = made + 1
  /\ monitor' = a
  /\ wr' = [wr EXCEPT ![a].pc = "create"]
  /\ UNCHANGED <<handler, stopped, closes, kv, commit, sp, fe, dead, bvars>>

\* ... then the assignments, and the method returns.
AssignHandler(a) ==
  /\ Writing(a, "create")
  /\ handler' = made
  /\ stopped' = FALSE
  /\ monitor' = Nobody
  /\ wr' = StreamMade(a, made)
  /\ UNCHANGED <<made, closes, kv, commit, sp, fe, dead, bvars>>

\* maybeSpill calls nvmOutputStream.flush for partition p.
Flushing(w, a, p) == [w EXCEPT ![a].pc = "put", ![a].at = p]

\* One record for partition p; the stream spills at the throttle.
WriteRecordTo(a, p) ==
  /\ Writing(a, "write")
  /\ FoldFunction(+, 0, wr[a].out) < MaxRecords
  /\ wr' = LET w == [wr EXCEPT ![a].buf[p] = @ + 1, ![a].out[p] = @ + 1]
           IN  IF w[a].buf[p] >= Throttle THEN Flushing(w, a, p) ELSE w
  /\ UNCHANGED <<objVars, kv, commit, sp, fe, dead, bvars>>

\* records.hasNext is false: maybeSpill(force = true) for every partition.
EndRecords(a) ==
  /\ Writing(a, "write")
  /\ wr' = [wr EXCEPT ![a].pc = "spill", ![a].ret = "spill", ![a].p = 1]
  /\ UNCHANGED <<objVars, kv, commit, sp, fe, dead, bvars>>

ButLast == NumPartitions - 1   \* mutant: 0 until numPartitions - 1
LastPartition == NumPartitions

SpillPartition(a) ==
  LET p == wr[a].p
  IN  /\ Writing(a, "spill")
      /\ p <= LastPartition
      /\ wr' = LET w == [wr EXCEPT ![a].p = @ + 1]
               IN  IF w[a].buf[p] > 0 THEN Flushing(w, a, p) ELSE w
      /\ UNCHANGED <<objVars, kv, commit, sp, fe, dead, bvars>>

\* nvmOutputStream.flush has stored the bytes, and maybeSpill accounts for them.
Accounted(a) ==
  LET p == wr[a].at
  IN  [wr EXCEPT ![a].pc = wr[a].ret, ![a].at = 1, ![a].buf[p] = 0,
                 ![a].size[p] = @ + wr[a].buf[p]]

\* pmemkv::put takes mtx.  The first block of a key enters the index with its
\* total, any other one is linked first ...
IndexFree(h) == \A b \in Attempts : Writing(b, "total") => wr[b].hnd[wr[b].at] # h

PutBlock(a) ==
  LET p == wr[a].at
      h == wr[a].hnd[p]
      n == wr[a].buf[p]
      first == kv[h][p].list = <<>>
  IN  /\ Writing(a, "put")
      /\ \/ CallDeleted(h)
         \/ /\ ~Deleted(h)
            /\ IndexFree(h)
            /\ kv' = [kv EXCEPT ![h][p].list = Append(@, [by |-> a, size |-> n]),
                                ![h][p].total = IF first THEN n ELSE @]
            /\ wr' = IF first THEN Accounted(a)
                              ELSE [wr EXCEPT ![a].pc = "total"]
            /\ UNCHANGED <<objVars, commit, sp, fe, dead, bvars>>

\* ... and counted in total_size afterwards.
PutTotal(a) ==
  LET p == wr[a].at
  IN  /\ Writing(a, "total")
      /\ kv' = [kv EXCEPT ![wr[a].hnd[p]][p].total = @ + wr[a].buf[p]]
      /\ wr' = Accounted(a)
      /\ UNCHANGED <<objVars, commit, sp, fe, dead, bvars>>

\* partitionLengths of the partitions that spilled; the streams are closed,
\* which finds nothing to flush; the MapStatus is made.
ReportLengths(a) ==
  /\ Writing(a, "spill")
  /\ wr[a].p > LastPartition
  /\ wr' = [wr EXCEPT ![a].pc = "written", ![a].partitionLengths = wr[a].size]
  /\ UNCHANGED <<objVars, kv, commit, sp, fe, dead, bvars>>

\* stop(success = true); Spark keeps the first MapStatus of a map task.
StopWriter(a) ==
  /\ Writing(a, "written")
  /\ wr' = [wr EXCEPT ![a].pc = "done"]
  /\ commit' = IF commit = 0 THEN a ELSE commit
  /\ UNCHANGED <<objVars, kv, sp, fe, dead, bvars>>

\* The attempt fails or is killed, between two native calls: stop(success =
\* false).  Its streams are not closed; nobody refers to them any more.
FailTask(a) ==
  /\ wr[a].pc \in {"open", "write", "spill", "put", "written"}
  /\ wr' = [wr EXCEPT ![a] = [NewWriter EXCEPT !.pc = "failed"]]
  /\ UNCHANGED <<objVars, kv, commit, sp, fe, dead, bvars>>

-----------------------------------------------------------------------------
(***************************************************************************)
(* nvmShuffleManager.stop, nvmShuffleBlockResolver.stop and                *)
(* PersistentMemoryHandler.stop, when the executor or the context ends;    *)
(* Spark does not wait for running tasks.                                  *)
(***************************************************************************)
EnterStop ==
  /\ sp.pc = "idle"
  /\ sp.stops < MaxStops
  /\ MonitorFree
  /\ \/ /\ ~stopped /\ handler # 0
        /\ monitor' = Stopper
        /\ sp' = [pc |-> "close", stops |-> sp.stops + 1]
     \/ /\ stopped \/ handler = 0
        /\ sp' = [sp EXCEPT !.stops = @ + 1]
        /\ UNCHANGED monitor
  /\ UNCHANGED <<handler, stopped, made, closes, kv, wr, commit, fe, dead, bvars>>

\* close(): free_all, which waits for mtx, and delete.
CloseDevice ==
  /\ sp.pc = "close"
  /\ IndexFree(handler)
  /\ closes' = [closes EXCEPT ![handler] = @ + 1]
  /\ dead' = Deleted(handler)
  /\ sp' = [sp EXCEPT !.pc = "leave"]
  /\ UNCHANGED <<monitor, handler, stopped, made, kv, wr, commit, fe, bvars>>

\* Mutant of LeaveStop: the monitor is not released.
LeaveStopHolding ==
  /\ sp.pc = "leave"
  /\ handler' = 0
  /\ stopped' = TRUE
  /\ sp' = [sp EXCEPT !.pc = "idle"]
  /\ UNCHANGED <<monitor, made, closes, kv, wr, commit, fe, dead, bvars>>

LeaveStop ==
  /\ sp.pc = "leave"
  /\ handler' = 0
  /\ stopped' = TRUE
  /\ monitor' = Nobody
  /\ sp' = [sp EXCEPT !.pc = "idle"]
  /\ UNCHANGED <<made, closes, kv, wr, commit, fe, dead, bvars>>

-----------------------------------------------------------------------------
(***************************************************************************)
(* The fetch of the committed block of partition p.  "remote": the block   *)
(* server sends it (size, convertToNetty, release); "nio": a client of     *)
(* nioByteBuffer; "local": ShuffleBlockFetcherIterator, which asks for the *)
(* size, retains the buffer, reads the stream, closes it and releases.     *)
(***************************************************************************)
Fetching(pc) == fe.pc = pc
FetchOnly == UNCHANGED <<objVars, kv, wr, commit, sp, dead>>

\* Spark asks only for blocks with a length in the MapStatus.
AskBlock(p, kind) ==
  /\ Fetching("idle")
  /\ commit # 0
  /\ wr[commit].partitionLengths[p] > 0
  /\ fe' = [fe EXCEPT !.pc = "ask", !.p = p, !.kind = kind]
  /\ FetchOnly /\ UNCHANGED bvars

\* getBlockData: a NullPointerException when there is no handler.
GetBlockData ==
  /\ Fetching("ask")
  /\ MonitorFree
  /\ fe' = [fe EXCEPT !.pc = IF handler = 0 THEN "failed" ELSE "got",
                      !.h = handler]
  /\ FetchOnly /\ UNCHANGED bvars

\* size(), which is the total of the key, 0 for an absent one; retain().
GetSize ==
  /\ Fetching("got")
  /\ \/ CallDeleted(fe.h)
     \/ /\ ~Deleted(fe.h)
        /\ fe' = [fe EXCEPT !.pc = "sized", !.total_size = kv[fe.h][fe.p].total,
                    !.refCount = IF fe.kind = "local" THEN @ + 1 ELSE @]
        /\ FetchOnly /\ UNCHANGED bvars

\* The sizes of the blocks l.
Sizes(l) == [i \in DOMAIN l |-> l[i].size]

\* createInputStream, first the block list.  For an absent key the length of
\* the array is whatever malloc left there.
GetBlockInfo ==
  /\ Fetching("sized")
  /\ \/ CallDeleted(fe.h)
     \/ /\ ~Deleted(fe.h)
        /\ LET l == kv[fe.h][fe.p].list
           IN  fe' = [fe EXCEPT !.pc = IF l = <<>> THEN "absent" ELSE "listed",
                                !.blockInfo = Sizes(l)]
        /\ FetchOnly /\ UNCHANGED bvars

\* ... then available_bytes and a PmemBuffer of that size ...
NewPmemBuffer(n) ==
  /\ cap' = n
  /\ data' = Malloc(n)
  /\ pos' = 0 /\ remaining' = 0 /\ pos_dirty' = 0 /\ remaining_dirty' = 0
  /\ sent' = 0 /\ got' = <<>> /\ flushed' = <<>>

GetAvailable ==
  /\ Fetching("listed")
  /\ \/ CallDeleted(fe.h)
     \/ /\ ~Deleted(fe.h)
        /\ LET n == kv[fe.h][fe.p].total
           IN  /\ NewPmemBuffer(n)
               /\ fe' = [fe EXCEPT !.pc = "load", !.available = n,
                                   !.inputStream = TRUE]
        /\ FetchOnly

\* loadNextStream, when there is a next block.
HasNext(x) == x.index < Len(x.blockInfo)
NextBlock(x) == x.blockInfo[x.index + 1]
Loaded(x) == [x EXCEPT !.index = @ + 1, !.remaining = @ + NextBlock(x)]

\* ... and load(available_bytes).
LoadOne(x) == x.remaining = 0   \* mutant: loads the first block only
LoadMore(x) == \/ x.remaining > 0 /\ x.remaining < x.available
               \/ x.remaining = 0

LoadBlocks ==
  /\ Fetching("load")
  /\ \/ /\ LoadMore(fe) /\ HasNext(fe)
        /\ LoadBytes(NextBlock(fe))
        /\ fe' = Loaded(fe)
     \/ /\ ~(LoadMore(fe) /\ HasNext(fe))
        /\ fe' = [fe EXCEPT !.pc = IF fe.kind = "local" THEN "open" ELSE "ready"]
        /\ UNCHANGED bvars
  /\ FetchOnly

\* n bytes are taken out of the buffer.
TakeBytes(n) ==
  /\ Read(n)
  /\ fe' = [fe EXCEPT !.pc = "open", !.remaining = @ - n, !.available = @ - n,
                      !.served = @ \o got']
  /\ FetchOnly

\* read(): loads the next block when everything loaded has been read.
AlmostRead(x) ==   \* mutant: reads ahead
  x.remaining = 0 \/ (x.remaining = 1 /\ HasNext(x))
AllRead(x) == x.remaining = 0

ReadOne ==
  /\ Fetching("open")
  /\ \/ ~AllRead(fe) /\ TakeBytes(1)
     \/ /\ AllRead(fe) /\ HasNext(fe)
        /\ LoadBytes(NextBlock(fe))
        /\ fe' = [Loaded(fe) EXCEPT !.pc = "loaded"]
        /\ FetchOnly
     \/ /\ AllRead(fe) /\ ~HasNext(fe)
        /\ fe' = [fe EXCEPT !.pc = "eof"]
        /\ FetchOnly /\ UNCHANGED bvars

ReadLoaded == Fetching("loaded") /\ TakeBytes(1)

\* read(bytes, off, len): -1 when everything loaded has been read.
LesserOf(m, n) == IF m < n THEN m ELSE n

ReadArray(len) ==
  /\ Fetching("open")
  /\ \/ fe.remaining > 0 /\ TakeBytes(LesserOf(len, fe.remaining))
     \/ /\ fe.remaining = 0
        /\ fe' = [fe EXCEPT !.pc = "eof"]
        /\ FetchOnly /\ UNCHANGED bvars

\* convertToNetty: total_size bytes from the start of the buffer are sent.
SendNetty ==
  /\ Fetching("ready") /\ fe.kind = "remote"
  /\ fe' = [fe EXCEPT !.pc = "served",
              !.served = [i \in 1 .. fe.total_size |->
                            IF i <= cap THEN data[i - 1] ELSE 0]]
  /\ FetchOnly /\ UNCHANGED bvars

\* nioByteBuffer: one read into an array of total_size bytes.
CopyNio ==
  LET n == LesserOf(fe.total_size, fe.remaining)
  IN  /\ Fetching("ready") /\ fe.kind = "nio"
      /\ Read(n)
      /\ fe' = [fe EXCEPT !.pc = "served", !.byteBuffer = "held",
                  !.remaining = @ - n, !.available = @ - n,
                  !.served = got']
      /\ FetchOnly

\* nvmInputStream.close and the idempotent PmemBuffer.close
Closed(x) == [x EXCEPT !.closed = x.inputStream]

\* release()
ReleasedOpen(x) ==   \* mutant: the stream is not closed
  IF x.refCount = 1
    THEN [x EXCEPT !.refCount = 0,
            !.byteBuffer = IF @ = "held" THEN "cleaned" ELSE @]
    ELSE [x EXCEPT !.refCount = @ - 1]
Released(x) ==
  IF x.refCount = 1
    THEN Closed([x EXCEPT !.refCount = 0,
                   !.byteBuffer = IF @ = "held" THEN "cleaned" ELSE @])
    ELSE [x EXCEPT !.refCount = @ - 1]

FinishFetch ==
  /\ \/ Fetching("served") /\ fe' = [Released(fe) EXCEPT !.pc = "done"]
     \/ Fetching("eof") /\ fe' = [Released(Closed(fe)) EXCEPT !.pc = "done"]
  /\ FetchOnly /\ UNCHANGED bvars

\* The connection is lost, or the reducer is killed: Spark releases the buffer.
AbortFetch ==
  /\ \/ fe.pc \in {"sized", "open", "ready"}
     \/ fe.pc = "got" /\ fe.kind # "local"
  /\ fe' = [Released(fe) EXCEPT !.pc = "aborted"]
  /\ FetchOnly /\ UNCHANGED bvars

FetchStep == \/ GetBlockData \/ GetSize \/ GetBlockInfo \/ GetAvailable
             \/ LoadBlocks \/ ReadOne \/ ReadLoaded
             \/ \E len \in 1 .. MaxLen : ReadArray(len)
             \/ SendNetty \/ CopyNio \/ FinishFetch

StopStep == CloseDevice \/ LeaveStop

WriterStep(a) ==
  \/ StartTask(a) \/ GetHandler(a) \/ CreateHandler(a) \/ AssignHandler(a)
  \/ \E p \in Partitions : WriteRecordTo(a, p)
  \/ EndRecords(a) \/ SpillPartition(a) \/ PutBlock(a) \/ PutTotal(a)
  \/ ReportLengths(a) \/ StopWriter(a) \/ FailTask(a)

ENext ==
  /\ ~dead
  /\ \/ \E a \in Attempts : WriterStep(a)
     \/ EnterStop \/ StopStep
     \/ \E p \in Partitions, kind \in {"remote", "nio", "local"} :
          AskBlock(p, kind)
     \/ FetchStep \/ AbortFetch

ESpec == EInit /\ [][ENext]_evars

\* Threads inside a synchronized method or a native call, and the thread that
\* fetches, are scheduled; nobody has to start, to write or to stop.
FairESpec ==
  /\ ESpec
  /\ WF_evars(~dead /\ FetchStep)
  /\ WF_evars(~dead /\ StopStep)
  /\ \A a \in Attempts : WF_evars(~dead /\ (AssignHandler(a) \/ PutTotal(a)))

-----------------------------------------------------------------------------
\* However gets and stops interleave, when no synchronized method is running
\* the executor has the store of its handler and no other one open, and
\* nativeCloseDevice has been called at most once for each.
OneStore ==
  /\ MonitorFree =>
       {h \in 1 .. made : ~Deleted(h)} = {handler} \ {0}
  /\ \A h \in Handlers : closes[h] <= 1

\* The bytes of attempt a among the blocks l.
BytesBy(a, l) ==
  SumFirst([i \in DOMAIN l |-> IF l[i].by = a THEN l[i].size ELSE 0], Len(l))

\* The lengths in the accepted MapStatus are the bytes the attempt wrote, all
\* of them are in the store, and a reducer finds the key: the missing key, for
\* which nativeGetBlockIndex uses an unwritten length, needs a store that was
\* closed since.
CommittedStored ==
  commit # 0 =>
    /\ \A p \in Partitions :
         LET h == wr[commit].hnd[p]
         IN  /\ wr[commit].partitionLengths[p] = wr[commit].out[p]
             /\ ~Deleted(h) => BytesBy(commit, kv[h][p].list) = wr[commit].out[p]
    /\ Fetching("absent") => Deleted(wr[commit].hnd[fe.p])

\* What a fetch serves is the content of the key from its start, no byte
\* missing, repeated or read from memory nobody wrote, although PmemBuffer.load
\* puts bytes in the wrong place when part of the loaded ones has been read.
ServedInOrder == \A i \in DOMAIN fe.served : fe.served[i] = i

\* Where block i of the blocks l ends.
EndOf(l, i) == SumFirst(Sizes(l), i)

\* A fetch that ends has served every byte of the committed attempt, although
\* size, block list and size again come from three calls while other attempts
\* append under the same name, and bulk reads never load another block.
ServedComplete ==
  fe.pc \in {"served", "eof", "done"} /\ fe.h = wr[commit].hnd[fe.p] =>
    LET l == kv[fe.h][fe.p].list
    IN  \A i \in DOMAIN l : l[i].by = commit => EndOf(l, i) <= Len(fe.served)

\* The native buffer, and the direct buffer of nioByteBuffer, are freed when
\* the fetch has ended, and by the release of a fetch that was given up; only a
\* retained buffer (local) is left to the stream's reader.
BufferReleased ==
  /\ Fetching("done") => fe.closed /\ fe.byteBuffer # "held"
  /\ Fetching("aborted") /\ fe.kind # "local" => fe.closed = fe.inputStream

\* A block that was asked for is served, or the reducer gets an error: stop()
\* and the gets of other tasks do not leave it waiting for the monitor.
FetchEnds ==
  Fetching("ask") ~>
    \/ fe.pc \in {"done", "failed", "aborted", "absent"}
    \/ dead
=============================================================================
