# A verification project for SparkNVM

SparkNVM is a shuffle plugin for Apache Spark that keeps shuffle data in
non-volatile memory: map tasks append blocks to a native key-value store
(`src/native/src/pmemkv.h`, through JNI), reduce tasks read them back. This
directory holds TLA+ models of its parts, the TLC configurations that check
them, and TLAPS proofs of the properties that matter most. `PROJECT.json` maps
every definition to the lines it models.

## 1. The system

| Component | State | Operations | Shared with |
|---|---|---|---|
| `pmemkv` (`pmemkv.h`) | block list in non-volatile memory (`base`, `block_entry`), index in DRAM (`index_map`, `block_meta_list`), `bytes_allocated`, `mtx` | `put`, `get`, `get_meta`, `get_meta_size`, `get_value_size`, `free_all`, `free_meta`, create, destroy | all task threads of an executor |
| JNI bridge (`lib_jni_pmdk.cpp`) | none | `nativeOpenDevice`, `nativeSetBlock`, `nativeGetBlockIndex`, `nativeGetBlockSize`, `nativeCloseDevice`, buffer functions | Java and C++ |
| memory interface (`memory_interface.h`) | the device | `TBPAlloc`, `TBPLoad`, `TBPStore` (binary library) | `pmemkv` |
| `PmemBuffer` (`PmemBuffer.h`, `PmemBuffer.java`) | buffer, read window, dirty window, `buffer_mtx` | `load`, `write`, `read`, `getDataForFlush`, `clean` | one input stream |
| output streams (`nvmBlockOutputStream`, `nvmOutputStream`) | 6 MB direct buffer, counters, `recordsArray` | `write`, `maybeSpill`, `flush`, `reset`, `close` | serializer above, store below |
| `nvmInputStream`, `nvmManagedBuffer` | block list, `PmemBuffer`, `available_bytes`; reference count, remembered size | construction, two `read`s, `close`; `size`, `retain`, `release`, `nioByteBuffer`, `convertToNetty` | store; the block server and local readers |
| `nvmExternalSorter`, `nvmBlockInputStream` | collection, spill streams, readers | insert, spill, `forceSpillToPmem`, `partitionedIterator`, merges | streams |
| `PersistentMemoryMetaHandler` | two SQLite tables, a lock file | `insertRecord`, `getShuffleDevice`, `getUnusedDevice`, `remove` | all executors of a node |
| `PersistentMemoryHandler`, `PersistentMemoryPool` | a singleton, the native handle, `stopped` | get, `stop`, forwarding calls | all tasks |
| `nvmShuffleWriter` | one output stream per partition, `partitionLengths`, `mapStatus` | `write`, `stop` | one task attempt |
| `nvmShuffleManager`, `nvmShuffleBlockResolver`, `BaseShuffleReader`, `nvmConf` | none that the store sees | glue to Spark: `getWriter`, `getBlockData`, `stop` | everything |

A map task creates one `nvmBlockOutputStream` per partition, writes its records
through a serializer into `nvmOutputStream`, whose flush calls
`PersistentMemoryHandler.setPartition`, `nativeSetBlock` and `pmemkv::put`. With
map-side combine the records go through `nvmExternalSorter` first. A reduce task
opens an `nvmInputStream` per block, which asks the store for addresses
(`get_meta`) and the size (`get_value_size`) and copies the blocks into a
`PmemBuffer`; a reducer that sorts uses `nvmExternalSorter` again and spills to
the store under temporary names.

What is hard here, and where:

* `put` updates the list in non-volatile memory without a lock, in single
  loads and stores, from many threads; only the index has a mutex;
* readers take no lock, and use two calls where one answer must fit the other;
* closing frees everything while calls may be running, and takes the mutex twice;
* allocation can fail half way through a call whose result nobody looks at;
* the process can die between any two stores to non-volatile memory;
* task attempts fail, are retried and overlap, all under one block name;
* the handler is a singleton that tasks create, and that the shuffle manager
  closes without waiting for them;
* a fetch asks the store three times for what must fit together, and its native
  buffer has to be freed by a reference count that not every client brings to 0;
* the output stream has counters that must be set back together with its buffer;
* merging spilled data depends on orders and read-ahead items;
* executors share tables through a lock file and may exit holding it.

`PROJECT.json` lists these under "hazards" line by line. What makes each
component correct is stated as the properties in section 3.

## 2. Modules

| Module | Models |
|---|---|
| `PmemKV` | `pmemkv` under the JNI calls; one action per access to shared memory |
| `AppendStore` | what the store promises: each key holds a sequence of values, `put` appends at one instant |
| `PmemKVRefinement` | the refinement mapping from `PmemKV` to `AppendStore` |
| `PmemKVProof` | proofs about the list in non-volatile memory |
| `PmemKVIndexProof` | proofs about the index: who holds `mtx`, what running puts have stored, the counters, what lock-free readers find; the step simulation of `AppendStore`; the heap accounting; stores whose puts do not overlap |
| `PmemBuffer`, `ByteQueue`, `PmemBufferProof` | the buffer, the queue it implements, proofs |
| `BlockStream` | one shuffle block through `nvmBlockOutputStream`, `nvmOutputStream`, an append store and `nvmInputStream`, with attempts that fail or overlap |
| `BlockStreamProof` | proofs about `BlockStream` |
| `ShuffleExecutor` | one executor: the singleton handler, `nvmShuffleWriter`, `stop()`, and a fetch through `nvmManagedBuffer`, `nvmInputStream` and `PmemBuffer` (which it extends) |
| `ShuffleExecutorProof` | proofs about the handler, the stored lengths, and what a fetch serves and frees |
| `NvmSorter`, `NvmSorterProof` | `nvmExternalSorter` with its spill readers, proofs |
| `MetaHandler`, `MetaHandlerProof` | `PersistentMemoryMetaHandler` used by several executors, proofs |
| `PrefixSums` | sums over the start of a sequence, used by properties of `BlockStream` and by `ShuffleExecutor` |
| `DataLemmas` | facts about naturals, sequences, recursive functions and sums that several proofs use |
| `MCPmemKV`, `MCBlockStream`, `MCNvmSorter`, `MCMetaHandler` | constants for TLC |

How the models read:

**PmemKV.** `base`, `ent` and `pm` are non-volatile: root, entries, data blocks.
`pc[t]` and `loc[t]` are a running `put`; `rd[r]` a running
`nativeGetBlockIndex`, or a client of `get_value_size` and `get`; `fa` a running
`nativeCloseDevice`. The labels follow the code: `fill` (147-151), `readTail`
(154), `setHead` (156), `loadTail` and `link` (159, where `bp->tail` is read a
second time), `setTail` (161), `loadBytes` and `storeBytes` (162), then
`update_meta` under `mtx`. Lines 147-151 write an entry that nobody else can
reach yet and are one step, as is an insertion into the index, whose
`block_meta_list` is private until `index_map.insert`. Appending is three steps
because readers do not take `mtx`. A key is its 64-bit hash. `fault` records how
the process dies: a failed assertion (the Makefile does not define `NDEBUG`), a
null or dangling pointer, an uninitialised length, an overrun; after a fault
there are no steps. `depth` is an auxiliary variable for the proof: how many
links an entry was from the head when it was linked.

A crash is not an action: `EntriesComplete` and `IndexOnList` speak about the
non-volatile variables in every reachable state, that is, at every point where a
crash could happen. Stores are taken to become durable in program order, as
`TBPStore` returns; its implementation is a binary.

**PmemBuffer.** Each method runs under `buffer_mtx` and is one action. Bytes are
numbered as they arrive, 0 is a byte nobody wrote. `LoadBytes` is the method
`load`; `Load` adds what its caller keeps to, that unread bytes start at 0.

**BlockStream.** `bb` is the byte buffer up to its position, `rem` and `fl` the
two counters of `nvmOutputStream`, `ser` what the serializer keeps back. A byte
is the pair of its attempt and its number. The serializer hands on any number of
bytes during a record and everything on `flush`, and calls
`nvmOutputStream.flush` only then, like Spark's `JavaSerializer`. A forced spill
ends the stream in the writer; in the map-side sorter records follow it, as many
times as it spills. The store is the sequence of blocks under one key, which
`PmemKVRefinement` justifies, and beside it `total`, its `total_size`: as in
`update_meta`, the first block appears with its size, any later one is linked by
`PutBlock` and counted by `PutTotal`, and in between `mtx` is held (`adding`). A
reader can thus find a block on the list that the size does not count. At that
moment `length` does not count it either, and `get_meta` writes behind its array
(`meta_overrun` of `PmemKV`); `BlockStream` goes on with the outcome in which that
write does no further harm.

**ShuffleExecutor.** The composition. `monitor`, `handler` and `stopped` are the
companion object of `PersistentMemoryHandler`; `made` and `closes` count native
stores opened and closed. `wr[a]` is an attempt of a map task in
`nvmShuffleWriter.write`: it gets a handler for every stream, writes records,
flushes every partition, reports the lengths and stops. A flush appends a block
to the index of the handler it holds; as in `update_meta`, the first block of a
key appears with its total, any other is linked one step before it is counted.
`sp` is the thread in `stop()`. `fe` is one fetch of a reported block: through
the block server (`remote`), `nioByteBuffer` (`nio`) or a stream (`local`), with
the order of calls that Spark uses. The variables of `PmemBuffer` are the buffer
of that fetch. Each native call is a step. A call on a deleted store is
undefined and ends the behaviour (`dead`); loads are not such calls, because
`free_all` gives no non-volatile memory back. A missing key ends the fetch in
`absent`, since `nativeGetBlockIndex` then uses an unwritten length.

**NvmSorter.** A record is a key with the set of input numbers combined into it.
A sorted iterator of Spark's collections returns the records in any order that
respects partition and comparator. Spilling is atomic because one task does it;
the byte level of the streams is `BlockStream`. The cases with aggregation in
`partitionedIterator`, and with several partitions, are the interface of the
class: `BaseShuffleReader` itself uses one partition and an ordering, and
`nvmShuffleWriter` uses `forceSpillToPmem`.

**MetaHandler.** A call of an executor takes the file lock, runs its one or two
statements, releases and returns; it may fail to lock, or its process may exit
at any step. The class is complete, but the code that calls it is commented out
at present (`PersistentMemoryHandler.scala`, 24-54).

## 3. Runs

The bounds are the smallest ones at which two actors can meet in every order
that matters; each property is violated under the same bounds by the mutant of
the code given for it in `PROJECT.json`.

| Run | Bounds | Shows |
|---|---|---|
| `kv_seq` | 1 putting thread, 1 reader, 2 keys, 3 blocks, 2 opens, closing after the last call | the index agrees with the list (`IndexOnList`); `get` fills the buffer that `get_value_size` asked for (`GetFillsBuffer`); nothing dangling is followed (`NoWildAccess`); `free_all`'s assertion holds without concurrent puts |
| `kv_conc` | 2 threads, 2 keys, 3 blocks, `malloc` may fail | the list stays acyclic and complete under racing puts (`ListAcyclic`, `EntriesComplete`); the totals of the index are right (`MetaCounts`); the store is an append store that skips a put whose `malloc` failed (`ImplementsAppendStore`) |
| `kv_close_race` | 1 put, 1 reader, closing at any time, 2 blocks, `TBPAlloc` may fail, fair | closing and putting end (`CloseReturns`, `PutReturns`); the heap accounting is exact; still an append store, in which a block may be lost |
| `buf_any` | `DEFAULT_BUFSIZE` 3, calls of up to 3 bytes, 8 bytes | windows inside the buffer, only written bytes flushed, reads see a queue (`ImplementsQueue`) |
| `stream_attempts` | 2 attempts that overlap and die, 4 and 2 bytes, buffer 3, throttle 1, 2 or none; 1.25 million states | nothing is lost inside an attempt, also when the buffer overflows (`NothingLost`); reports match the store; no overflow when a record and the kept-back bytes fit above a throttle that is not 0; a reader sees whole blocks from the first on, all it found or all but one that the size did not count (`ReadsWholeBlocks`), and every committed byte once (`CommittedBytesRead`) |
| `executor` | 2 attempts of 2 records, 2 partitions, throttle 2, 2 handlers, 1 stop, 1 fetch, fair | `OneStore`; the accepted lengths are what was written and stored, and a reported key is missing only from a store made after a stop (`CommittedStored`); what is served is a prefix of the key without holes (`ServedInOrder`) that has every committed byte (`ServedComplete`); buffers are freed (`BufferReleased`); no fetch waits forever (`FetchEnds`) |
| `sort` | 5 records, 3 keys, spill every 2, fair; five modes: reduce with ordering, with aggregator, with both, with neither, and map-side combine | no record lost or doubled, each key once, sorted output, streams of one partition, the merge ends |
| `meta` | 2 executors, 2 devices, 3 calls each, failures, fair | counts balanced and exact; no two calls are told different devices for one shuffle (`DevicesAgreed`); every call returns or its process ends |

`kv_conc` uses the symmetry of threads and of keys, neither of which is compared
with anything but itself; it has no liveness property.

Three keys suffice in the sorter (two that collide, one that does not); two
threads suffice for the races on the tail, since each step of `put` uses what
one other put can have changed; the third block lets a race happen on a
non-empty list. In `executor` two attempts make every race for the monitor and put
a second block under a key, before, behind or half appended during a fetch; the
second handler is the one made after a stop. The bound `MaxBytes` of its buffer is
never reached by the blocks it loads. `W` is 1000 in place of 2^64: the counters
stay below it except where a subtraction wraps, which is the point of keeping them modular. Deadlock
is not checked where the system may stop: calls are bounded and nobody has to
make one. `PmemBuffer` never stops. In `stream_attempts` a buffer of 3 bytes overflows
without a throttle, is exactly large enough for throttle 1 and too small for 2; the
first attempt stores up to four blocks, so that a list has blocks before and behind
those of the second, and the size can lag behind each of them but the first.

**Disagreements.** Four runs are expected to fail:

| Run | What happens | What the repository says |
|---|---|---|
| `kv_bytes_written` | two puts overlap, `bytes_written` or a list entry is lost, `free_all` aborts | its own assertion (`pmemkv.h:292`), and the test with 20 threads |
| `kv_reopen` | a reopened store is empty | "rebuild index map when opening pmemkv" (`pmemkv.h:89`), test "test open and close" |
| `buf_flush_twice` | a write that moves the buffer makes old bytes dirty again | test "do getDataForFlush twice check if only get same data once" |
| `stream_retry` | the reducer reads the bytes of a failed attempt and of its retry | "pmdk supports transaction" (`nvmShuffleWriter.scala:48`) |

Other faults that the model reaches, but that no text of the repository rules
out, are in the hazards with a note: `get_meta` writing behind the array that
`get_meta_size` sized, everything that follows from closing the store under
running calls, and the native buffer that a killed local reader leaves behind. A
failing second `malloc` in `update_meta` leaves `bytes_allocated` too high, so
that the assertion of `free_meta` fails later; `kv_close_race` checks that
assertion without such a failure.

**Fairness.** `FairSpec` has weak fairness for the steps of a running call of
each thread and of the closing thread: native threads are scheduled
preemptively. Nobody is obliged to start a call. `mtx` needs no strong fairness
because the calls that compete for it are finitely many. `FairSorterSpec` says
that a task runs its iterator to the end; `FairMetaSpec` that an executor's
call goes on when it can. `FairESpec` lets threads inside a synchronized method or
a native call, and the thread of the fetch, go on; nobody has to write or stop.
Failures are never fair, and never the way out of a
wait: `LockFails` is outside the fair steps.

## 4. Proofs

All theorems hold for every value of the constants that satisfies the named
assumptions, which TLC evaluates too. Four hypotheses occur in theorems about
`PmemKV` and are named there: `~CloseConcurrent` (the store is closed only between
calls, as the unit tests do), `~AllocMayFail` (`TBPAlloc` does not fail),
`~MallocMayFail` (`malloc` does not fail) and `[]OneAtATime` (puts do not overlap:
one task thread, or several that take turns). Each is needed: section 3 names
the fault or the run that shows what happens without it.

**The list (`PmemKVProof`).**

* `TypeCorrect`: `Spec => []TypeOK`. The type invariant is inductive because
  `PutWellFormed` is part of it: a running put has an entry whose key, from
  `readTail` on, is a hash under which `update_meta` can file it.
* `StructureInvariant`, `AcyclicList`, `CrashConsistent`. Neither acyclicity nor
  completeness is inductive. The strengthening says that an entry between
  `TBPAlloc` and the store that links it is owned by one put and nothing points
  to it; that every linked entry, and every tail a put remembers, is complete
  and has a positive `depth`; that `depth` grows by one along every `next` field; and
  that it is bounded. Two puts may link to one tail
  and one of them may win, but each link goes from a smaller depth to a larger one,
  so that in any set of entries one with the greatest depth leaves the set. The
  theorems include failing allocations, closing at any time and reopening.

**The index (`PmemKVIndexProof`).** `IndexInvariant` proves the conjunction of

* `MutexInv`: the thread between lock and unlock in `update_meta`, and only it,
  holds `mtx`; likewise `free_meta`;
* `PutEntry`: a running put has stored its header and data, and no other put
  writes to its entry; past the store that links it, the entry has a depth;
* `IndexFilled`, `DeletedEmpty`: what is filed under a key is a linked entry, or
  the null pointer of a failed `TBPAlloc`; a deleted store has an empty index;
* `CountsInv`: the counters of a list are exact, except that while a put holds
  `mtx` for its key they are behind by exactly what that put has still to add.

`CountsNeverAhead` (`MetaCounts`) follows. For readers, `QuietInv` adds
`ClosedQuietly` (nobody is in a call while the store is closed, and a put that
found a tail still has one) and `ReaderFacts`: the list a
reader was told of is still there, the size it was given is that of a prefix, and
what `get` has copied adds up to that size. It is kept because lists only grow
while a reader runs (`ListsGrow`). From it come `BufferFilled` (`GetFillsBuffer`, with
`~CloseConcurrent`) and `PointersValid` (`NoWildAccess`, with `~AllocMayFail` too).

**The refinement (`PmemKVIndexProof`).** `Refinement` is
`Spec => ImplementsAppendStore`. The append of the abstract store is the step that
links the block into `block_meta_list` (or inserts the list). The main lemma,
`DataStays`, says that a step stores only into data of an entry nobody has
linked, so that the value of a filed block never changes; `PutEntry` gives the
value that the append adds. Failing allocations map to the abstract steps that
skip a put or append a block without data.

**The heap of the index (`PmemKVIndexProof`).** `HeapCounted` and `AllocatedFreed`
(`BytesAllocatedAssert`), with `~MallocMayFail` and whatever the puts, the readers
and closing do. The invariant `AllocInv` counts the index from outside: a cell for
every block under every key and a list for every key in use, 24 and 32 bytes, are
`bytes_allocated` modulo `W`. An update of the index adds one cell, and perhaps one
list; freeing a key removes a row of cells and one list; both sides change by the
same amount. When the table is empty the counter is a multiple of `W` below `W`,
which is 0. So the assertion holds for a counter that has wrapped around as well.

**Puts that do not overlap (`PmemKVIndexProof`).** `SequentialInvariant` says where
list, counter and index stand at every label of the one put that may be running:

* the `next` fields lead from the head through consecutive addresses to the last
  linked entry, which is the tail except before `setTail`;
* `bytes_written` is congruent, modulo `W`, to the bytes of these entries, less the
  size of the entry that is linked and not yet counted;
* the list of a key in the index is that of the entries with that key (`Collected`),
  without the entry that is linked and not yet filed;
* while `free_all` walks, what it has not visited is still such a chain, and
  `bytes_written` is congruent to its bytes; at the end of the walk it is 0.

`WrittenFreed` (`BytesWrittenAssert`) follows, and, since a walk over a chain finds
what `Collected` says (`RebuiltCollects`), `DurableFirst` (`IndexOnList`, with
`~MallocMayFail`). The invariant is false for puts that overlap: `kv_bytes_written`
shows two that read the same tail or the same counter.

**The buffer (`PmemBufferProof`).** `BufferInBounds` (`WindowsInside`) needs
`MaxLen <= Bufsize`: `write` grows the buffer once. `BufferInvariant` adds
`BytesInv`: every byte in the read window, and every byte handed out for flushing,
is one that arrived. `remaining_dirty` has no lower bound: it is negative after a
flush, a write that moves the buffer and a long read (`PmemBuffer.h:113`), and then
`getDataForFlush` hands out nothing; `WindowsInside` bounds the dirty window from
above only. `FlushedBytesWritten` follows, and
`BufferIsQueue` (`ImplementsQueue`), for clients that load only when the unread
bytes start at 0 and if `malloc` succeeds: `load` and `write`, in each of their cases of
growing, moving and starting anew, satisfy one description of what arrived
(`Arrived`), from which the step of the queue follows.

**The streams (`BlockStreamProof`).** `BlockStreamInv` has three parts. `WriterInv`
numbers the bytes of each attempt through the store, the byte buffer and the
serializer without a gap, and ties `rem`, `fl`, the reported size, `records` and
`recordsArray` to the attempt's bytes and blocks in the store, also when blocks of
other attempts lie between them. `CountInv` says that `total` is the sum of the
blocks, or that sum without the last one, which then belongs to `adding`, an attempt
that has not finished. `InputInv` says that a reader holds a prefix of
the blocks, which has every byte of the committed attempt, and that what it has
got and what is loaded make up that prefix, or all of it but a last block of another
attempt, and then at least the size it was given. From them follow `NoByteLost`,
`ReportCorrect`, `BufferNeverOverflows`, `WholeBlocksRead` (`ReadsWholeBlocks`) and
`CommittedAttemptRead`. The last two are where the lag matters: the committed
attempt has left `update_meta`, so that a block the size misses is never one of its
own, and `load` stops at a block boundary. The proof of `NoOverflow` showed that the bound
`throttle + SerCap + MaxRecord <= BufCap + 1` is enough only for a throttle above
0: a throttle of n leaves at most n - 1 bytes in the buffer between records, but
one of 0 leaves 0 and not -1. The property says `throttle > 0`.

**The meta handler (`MetaHandlerProof`).** `DevicesBalanced`: `Balanced` is inductive together with `LockHeld` (only the
owner of the file lock is between `lock()` and `release()`) and `SnapFresh` (what
`getUnusedDevice` read is still in the table when it writes). `EveryMountCounted`
(`MountsCounted`) uses the same invariant: one update raises the sum of the counts
by one, also when a device is listed twice. `ExecutorsAgree` (`DevicesAgreed`): what
has been returned for a shuffle, and what a call that has read the table is about to
return, is the row of the table, and a row never changes (`RowsStay`).

**The executor (`ShuffleExecutorProof`).** `ExecutorInvariant` proves four
invariants together.

* `ExecutorInv`: `OneStore` speaks about moments at which no synchronized method
  runs; `MonitorInv` says who holds the monitor at every point of
  `getPersistentMemoryHandler` and `stop`, and which stores are open there: the
  new one alone between its creation and the assignment, none between closing and
  the assignment of null. (`SingleStore`.)
* `FetchInv`: how many references the buffer of the fetch has at each stage and
  whether a stream exists. (`BuffersFreed`.)
* `StoreInv`: under every key of every store, the bytes of an attempt are exactly
  what its writer has flushed there; `total_size` is the sum of the list, or that
  sum without the last block while one put, and only one per store, is between
  linking and counting. (`CommitStored`.)
* `ServingInv`: the fetch asks for a block of the committed attempt, in the store
  it was written to unless that one was closed; the size it was given covers
  the committed blocks, and the block list covers the size; what is
  served is the content from its start, and the buffer goes on where the served
  bytes end. (`FetchInOrder`, `FetchComplete`.)

Every other actor is handled by one rely condition: while the fetch waits, keys
grow only by blocks of attempts other than the committed one, and totals do not
fall (`Undisturbed`). The buffer's steps are those of `PmemBuffer`, so the lemmas
of `PmemBufferProof` are used unchanged.

**The sorter (`NvmSorterProof`).** `SorterInvariant` proves `SorterInv`, for any
keys, hash, partitioner, mode and number of spills, of which the parts are

* `Conserved`: the numbers of the input are distributed over the records in all
  places (collection, streams behind their readers, memory, group, output), each
  number once and under its key. A step is shown to conserve them by giving the
  function that takes each record to its new place (`Carries`), at which records
  of one key may be combined;
* `PhaseInv`: every stream is of one partition, a spill of the reducer is sorted,
  and a map task has one stream per partition; with an aggregator the collection
  has each key once;
* `ReadInv`: every reader goes on where what it has given ends, read-ahead item
  included, and `MergeOk`: what still waits in each reader is sorted, none of it
  comes before what was put out or belongs to an earlier partition, the group
  being collected is before all of it, and with an aggregator no key of the output
  waits anywhere.

`RecordsKept`, `SortedOutput`, `KeysOnce` and `StreamsSorted` follow; they state
`RecordsConserved`, `OutputSorted`, `OneRecordPerKey` and `StreamsWellFormed`.

**Recursion.** `SumFirst`, `BytesOf`, `FlattenSeq`, the sum of mounts, the walk in
`Rebuilt` and the spill loop of the sorter are recursive functions. `DataLemmas` proves the induction it needs for a set of
numbers instead of a predicate (`LeastNat`, `UpTo`), and from it that a function
defined by such an equation exists and is unique (`RecExists`, `RecUnique`).

**Only model-checked.** Every invariant and every action property that a passing run
checks is also stated by a theorem. What stays with TLC is liveness, which needs
ENABLED: `CloseReturns`, `PutReturns`, `FetchEnds`, and the termination of the
sorter and of the meta handler's calls. For these the invariants above give
the safety part (the list that `free_all` walks is acyclic, the holder of `mtx` is
at a label from which it goes on); the rest is fairness.

## 5. Not modelled

* The implementation of `TBPAlloc`, `TBPLoad`, `TBPStore` (binary), SQLite, file
  locks, Spark's collections and serializers: taken from their use.
* `nvmOutputStream.write(Int)`, which puts four bytes for one: the serializers
  use the array form. Sizes are `Int` on the Scala side; more than 2 GB under one
  key would wrap.
* `PersistentMemoryMetaHandler.remove`, which deletes a file named by the JDBC
  URL, that is, none; the POSIX rule that a process loses its
  lock when it closes another descriptor of the file (the monitors make calls of
  one process sequential).
* `nvmConf`, metrics, logging; `BaseShuffleWriter` and `registerShuffle` /
  `unregisterShuffle`, which serve the ordinary Spark shuffle.
  `nativeDeleteBlock` is declared in Java and not implemented; blocks leave the
  index only when the store is closed, and never leave non-volatile memory.
* In `ShuffleExecutor`: map-side combine (it ends in the same forced flush, see
  `NvmSorter`) and several map tasks, which use different keys.
* `catch.hpp` and `xxhash.hpp`, 17 600 of the 18 600 lines under
  `src/native/src`, are copies of a test framework and of a hash function. The
  framework has no part in the system; of the hash the store uses one call, and
  the models take its value as the key. Of the native code that belongs to this
  repository (`pmemkv.h`, `PmemBuffer.h`, `lib_jni_pmdk.cpp`) every function with
  an effect on the store or the buffer is modelled. What is left of these files
  is printing, includes, declarations and commented-out code.

## 6. Plan

Done: `PmemKV` with its abstraction, `PmemBuffer`, `BlockStream`, `NvmSorter`,
`MetaHandler`, in this order, which follows the data from the store upwards, and
`ShuffleExecutor`, which puts them together; the proofs of every safety invariant
of these modules and of both refinements. Two extensions are worth while if the
code changes:

1. If `put` is given a lock around the list (the tests with 20 threads need one),
   `OneAtATime` becomes a fact about the labels between lock and unlock, and
   the last theorems about `PmemKV` lose that hypothesis.
2. If the constructor of `pmemkv` comes to rebuild the index, `RebuildOnOpen` should
   pass, and `RebuiltCollects` is the lemma for its proof.
