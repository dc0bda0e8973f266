----------------------------- MODULE NvmSorter -----------------------------
(***************************************************************************)
(* nvmExternalSorter: the sorter behind map-side combine (stage "map", see  *)
(* nvmShuffleWriter) and behind sorting in the reducer (stage "reduce", see *)
(* BaseShuffleReader).  Records go into an in-memory collection that is     *)
(* spilled now and then to streams in non-volatile memory; the reducer      *)
(* merges the streams with what is still in memory.                         *)
(*                                                                         *)
(* The collection itself, its sorted iterators and the loop of insertAll    *)
(* belong to Spark's ExternalSorter and are external.  The value of record  *)
(* number i is the set {i}; mergeCombiners is set union, so that the value  *)
(* of a combined record tells which records went into it.                   *)
(***************************************************************************)
EXTENDS Integers, Sequences, SequencesExt, FiniteSets

CONSTANTS Keys,           \* natural numbers, in their order
          HashCode,       \* HashCode[k], the order without an Ordering
          Partitioner,    \* Partitioner[n][k], the partition of k among n
          Modes,          \* the ways in which the sorter is used
          SpillEvery,     \* 32 in the code
          MaxRecords      \* bound: records inserted

ASSUME SorterAssumption ==
  /\ Keys \subseteq Nat
  /\ HashCode \in [Keys -> Nat]
  /\ \A m \in Modes :
       /\ m.stage \in {"map", "reduce"}
       /\ m.ordering \in BOOLEAN /\ m.aggregate \in BOOLEAN
       /\ m.partitions \in Nat \ {0}
       /\ Partitioner[m.partitions] \in [Keys -> 0 .. m.partitions - 1]
  /\ SpillEvery \in Nat \ {0} /\ MaxRecords \in Nat

VARIABLES mode,    \* the arguments of the constructor, and mapStage
          phase,   \* "insert", then "stored" (map) or "read", "finished"
          input,   \* observer: the keys inserted so far
          coll,    \* the records in map or buffer
          outs,    \* pmemBlockOutputStreamArray: the records of each stream
          rd,      \* the SpillReader of each stream
          mem,     \* the in-memory iterator: records not yet taken
          part,    \* the partition being merged
          group,   \* keys and combiners of mergeWithAggregation
          out      \* the records the result iterator has returned

svars == <<mode, phase, input, coll, outs, rd, mem, part, group, out>>

\* mapStage, ordering.isDefined, aggregator.isDefined, numPartitions
Stage == mode.stage
Ordering == mode.ordering
Aggregate == mode.aggregate
NumPartitions == mode.partitions

\* getPartition
PartitionOf(k) == IF NumPartitions > 1 THEN Partitioner[NumPartitions][k] ELSE 0

\* keyComparator: the ordering, or the hash codes, which different keys share.
Rank(k) == IF Ordering THEN k ELSE HashCode[k]

\* comparator.isDefined
Comparing == Ordering \/ Aggregate

\* The order of the collection's sorted iterators: by partition, then by key
\* if there is a comparator.
NotAfter(x, y, cmp) ==
  \/ PartitionOf(x.key) < PartitionOf(y.key)
  \/ /\ PartitionOf(x.key) = PartitionOf(y.key)
     /\ cmp => Rank(x.key) <= Rank(y.key)

\* The orders in which a sorted iterator over c may return the records.
SortedIterators(c, cmp) ==
  {s \in SetToSeqs(c) :
     \A i, j \in 1 .. Len(s) : i < j => NotAfter(s[i], s[j], cmp)}

\* The map combines a record with the one it has for the key; the buffer
\* keeps both.
InsertInto(c, r) ==
  IF Aggregate /\ \E x \in c : x.key = r.key
    THEN {IF x.key = r.key THEN [x EXCEPT !.ids = @ \cup r.ids] ELSE x :
            x \in c}
    ELSE c \cup {r}

\* One turn of the loop of spillMemoryIteratorToPmem: a record goes to the
\* stream of its partition (map stage) or to the stream that was opened when
\* the partition changed (getPartitionByteBufferArray).
WriteNextTogether(o, s, n) ==     \* mutant: the stream is never changed
  LET p == PartitionOf(s[1].key)
  IN  IF Stage = "map" THEN [o EXCEPT ![p + 1] = Append(@, s[n])]
      ELSE IF n = 1 THEN Append(o, <<s[n]>>)
      ELSE [o EXCEPT ![Len(o)] = Append(@, s[n])]
WriteNextOver(o, s, n) ==         \* mutant: a record replaces those before it
  LET p == PartitionOf(s[n].key)
      changed == n = 1 \/ PartitionOf(s[n - 1].key) # p
  IN  IF Stage = "map" THEN [o EXCEPT ![p + 1] = <<s[n]>>]
      ELSE IF changed THEN Append(o, <<s[n]>>)
      ELSE [o EXCEPT ![Len(o)] = <<s[n]>>]
WriteNext(o, s, n) ==
  LET p == PartitionOf(s[n].key)
      changed == n = 1 \/ PartitionOf(s[n - 1].key) # p
  IN  IF Stage = "map" THEN [o EXCEPT ![p + 1] = Append(@, s[n])]
      ELSE IF changed THEN Append(o, <<s[n]>>)
      ELSE [o EXCEPT ![Len(o)] = Append(@, s[n])]

\* spillMemoryIteratorToPmem: the streams when all of s is written.
Spilled(s) ==
  LET after[n \in 0 .. Len(s)] ==
        IF n = 0 THEN outs ELSE WriteNext(after[n - 1], s, n)
  IN  after[Len(s)]

SorterInit ==
  /\ mode \in Modes
  /\ phase = "insert"
  /\ input = <<>>
  /\ coll = {}
  /\ outs = IF Stage = "map" THEN [i \in 1 .. NumPartitions |-> <<>>] ELSE <<>>
  /\ rd = <<>> /\ mem = <<>> /\ part = 0 /\ group = <<>> /\ out = <<>>

\* One turn of insertAll's loop, with maybeSpill.  The size estimate is
\* Spark's: every SpillEvery-th record it may have reached the threshold.  A
\* spilled collection is replaced by an empty one.
Insert(k) ==
  LET n == Len(input) + 1
      c == InsertInto(coll, [key |-> k, ids |-> {n}])
  IN  /\ phase = "insert"
      /\ n <= MaxRecords
      /\ input' = Append(input, k)
      /\ \/ /\ coll' = c
            /\ UNCHANGED outs
         \/ /\ n % SpillEvery = 0
            /\ \E s \in SortedIterators(c, Comparing) : outs' = Spilled(s)
            /\ coll' = {}
      /\ UNCHANGED <<mode, phase, rd, mem, part, group, out>>

\* forceSpillToPmem, called by nvmShuffleWriter after insertAll.
ForceSpillToPmem ==
  /\ phase = "insert"
  /\ Stage = "map"
  /\ \E s \in SortedIterators(coll, Comparing) : outs' = Spilled(s)
  /\ coll' = {}
  /\ phase' = "stored"
  /\ UNCHANGED <<mode, input, rd, mem, part, group, out>>

-----------------------------------------------------------------------------
\* nvmBlockInputStream.readNextItem, through SpillReader.hasNext, for stream i:
\* keeps an item ready unless the stream has been read to the end.
PullShort(i, r) ==     \* mutant: the last record is left in the stream
  IF r.next # <<>> \/ r.closing \/ r.indexInBatch + 1 >= Len(outs[i]) THEN r
  ELSE [next |-> <<outs[i][r.indexInBatch + 1]>>,
        indexInBatch |-> r.indexInBatch + 1,
        closing |-> FALSE]
Pull(i, r) ==
  IF r.next # <<>> \/ r.closing THEN r
  ELSE [next |-> <<outs[i][r.indexInBatch + 1]>>,
        indexInBatch |-> r.indexInBatch + 1,
        closing |-> r.indexInBatch + 1 >= Len(outs[i])]

NewReader == [next |-> <<>>, indexInBatch |-> 0, closing |-> FALSE]

\* partitionedIterator.  With nothing spilled and no ordering the records are
\* sorted by partition only.
PartitionedIterator ==
  /\ phase = "insert"
  /\ Stage = "reduce"
  /\ mem' \in SortedIterators(coll, IF outs = <<>> THEN Ordering ELSE Comparing)
  /\ coll' = {}
  /\ rd' = [i \in DOMAIN outs |-> Pull(i, NewReader)]
  /\ phase' = "read"
  /\ UNCHANGED <<mode, input, outs, part, group, out>>

\* The iterators that merge puts together: the readers, then the memory.
Iterators == 1 .. Len(rd) + 1

\* The item an iterator has ready for the current partition, if any.
Item(i) == LET s == IF i <= Len(rd) THEN rd[i].next ELSE mem
           IN  IF s # <<>> /\ PartitionOf(s[1].key) = part THEN <<s[1]>> ELSE <<>>

NonEmptyIterators == {i \in Iterators : Item(i) # <<>>}

\* The iterators that may be asked for the next item: one with a least key
\* (the heap of mergeSort), or the first one (flatten).
TurnOfMax(i) ==     \* mutant: the order of the heap is not reversed
  \A j \in NonEmptyIterators : Rank(Item(j)[1].key) <= Rank(Item(i)[1].key)
TurnOf(i) ==
  IF Comparing /\ outs # <<>>
    THEN \A j \in NonEmptyIterators :
           Rank(Item(i)[1].key) <= Rank(Item(j)[1].key)
    ELSE \A j \in NonEmptyIterators : i <= j

\* One item leaves iterator i, which makes the next one ready.
Consume(i) ==
  IF i <= Len(rd)
    THEN /\ rd' = [rd EXCEPT ![i] = Pull(i, [@ EXCEPT !.next = <<>>])]
         /\ UNCHANGED mem
    ELSE /\ mem' = Tail(mem)
         /\ UNCHANGED rd

\* mergeWithAggregation is only used when there is something to merge.
Grouping == Aggregate /\ outs # <<>>

\* keys and combiners with one more record.  With a total order there is one
\* key; with hash codes the array is searched for the key.
JoinedNeighbour(g, r) ==     \* mutant: only the last key is compared
  IF g # <<>> /\ g[Len(g)].key = r.key
    THEN [g EXCEPT ![Len(g)].ids = @ \cup r.ids]
    ELSE Append(g, r)
Joined(g, r) ==
  IF \E i \in DOMAIN g : g[i].key = r.key
    THEN [i \in DOMAIN g |-> IF g[i].key = r.key
                               THEN [g[i] EXCEPT !.ids = @ \cup r.ids]
                               ELSE g[i]]
    ELSE Append(g, r)

\* The item belongs to the group that is being collected.
SameGroup(r) == \A i \in DOMAIN group : Rank(group[i].key) = Rank(r.key)

\* next() of the result iterator without aggregation.
NextItem(i) ==
  /\ phase = "read"
  /\ ~Grouping
  /\ i \in NonEmptyIterators
  /\ TurnOf(i)
  /\ Consume(i)
  /\ out' = Append(out, Item(i)[1])
  /\ UNCHANGED <<mode, phase, input, coll, outs, part, group>>

\* The loop of next() with aggregation takes one more item of the group ...
Collect(i) ==
  /\ phase = "read"
  /\ Grouping
  /\ i \in NonEmptyIterators
  /\ TurnOf(i)
  /\ SameGroup(Item(i)[1])
  /\ Consume(i)
  /\ group' = Joined(group, Item(i)[1])
  /\ UNCHANGED <<mode, phase, input, coll, outs, part, out>>

\* ... and ends when the next item has another key, or there is none.
ReturnGroup ==
  /\ phase = "read"
  /\ group # <<>>
  /\ \A i \in NonEmptyIterators : TurnOf(i) => ~SameGroup(Item(i)[1])
  /\ out' = out \o group
  /\ group' = <<>>
  /\ UNCHANGED <<mode, phase, input, coll, outs, rd, mem, part>>

\* The iterator of a partition is exhausted.
NextPartition ==
  /\ phase = "read"
  /\ NonEmptyIterators = {}
  /\ group = <<>>
  /\ IF part + 1 < NumPartitions
       THEN part' = part + 1 /\ UNCHANGED phase
       ELSE phase' = "finished" /\ UNCHANGED part
  /\ UNCHANGED <<mode, input, coll, outs, rd, mem, group, out>>

SorterNext ==
  \/ \E k \in Keys : Insert(k)
  \/ ForceSpillToPmem
  \/ PartitionedIterator
  \/ \E i \in Iterators : NextItem(i) \/ Collect(i)
  \/ ReturnGroup
  \/ NextPartition

SorterSpec == SorterInit /\ [][SorterNext]_svars

\* A task runs its iterator until it is exhausted.
FairSorterSpec == SorterSpec /\ WF_svars(SorterNext)

-----------------------------------------------------------------------------
\* The records of stream i that have not been read.
Unread(i) == IF phase \in {"insert", "stored"} THEN outs[i]
             ELSE rd[i].next \o
                    SubSeq(outs[i], rd[i].indexInBatch + 1, Len(outs[i]))

\* The places of the records of a sequence, each with its record.
At(name, i, s) == {<<name, i, j, s[j]>> : j \in DOMAIN s}

\* Every place that holds a record, with the record.
Everywhere ==
  {<<"coll", 0, 0, r>> : r \in coll}
    \cup (UNION {At("stream", i, Unread(i)) : i \in DOMAIN outs})
    \cup At("mem", 0, mem) \cup At("group", 0, group) \cup At("out", 0, out)

\* No record is lost, duplicated or filed under another key between the
\* collection, the spill streams and the merge, at any moment: every input
\* record is in exactly one place.
RecordsConserved ==
  \A n \in 1 .. Len(input) :
    \E x \in Everywhere :
      /\ n \in x[4].ids /\ x[4].key = input[n]
      /\ \A y \in Everywhere : n \in y[4].ids => y = x

\* The reducer gets its records partition by partition and, with an ordering,
\* by key, whatever was spilled when.
OutputSorted ==
  \A i, j \in 1 .. Len(out) :
    i < j => NotAfter(out[i], out[j], Ordering)

\* With an aggregator every key is returned once, also when keys that share a
\* hash code alternate in the merged streams ("we still merge them by doing
\* equality tests for all keys that compare as equal").
OneRecordPerKey ==
  Aggregate =>
    \A i, j \in 1 .. Len(out) : out[i].key = out[j].key => i = j

\* A map output stream holds records of its own partition only, and a spill of
\* the reducer is sorted: mergeSort and readPartitionIter depend on it.
StreamsWellFormed ==
  \A i \in DOMAIN outs :
    /\ Stage = "map" => \A n \in DOMAIN outs[i] :
                          PartitionOf(outs[i][n].key) = i - 1
    /\ Stage = "reduce" =>
         /\ outs[i] # <<>>
         /\ \A m, n \in DOMAIN outs[i] :
              /\ PartitionOf(outs[i][m].key) = PartitionOf(outs[i][n].key)
              /\ m < n => NotAfter(outs[i][m], outs[i][n], Ordering \/ Aggregate)

\* The merge comes to an end, and then nothing is left behind in a stream or
\* in memory.
MergeFinishes ==
  phase = "read" ~> /\ phase = "finished"
                    /\ mem = <<>> /\ group = <<>>
                    /\ \A i \in DOMAIN rd : rd[i].next = <<>> /\ rd[i].closing
=============================================================================
