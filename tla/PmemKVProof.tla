---------------------------- MODULE PmemKVProof ----------------------------
(***************************************************************************)
(* Proofs about PmemKV, for every number of threads, readers, keys, values  *)
(* and entries.  The inductive invariant ListStructure is about the         *)
(* auxiliary variable depth: 0 for an entry that is still private to its    *)
(* put, and otherwise one more than the depth of the entry it was linked    *)
(* behind.                                                                  *)
(***************************************************************************)
EXTENDS PmemKV, DataLemmas

\* A remainder of a division by W is a uint64_t.
LEMMA ModW == \A x \in Int : x % W \in Counter
  BY ConstantsAssumption DEF Counter

\* Storing into one field of a block_meta_list keeps its type.
LEMMA MetaListFields ==
  ASSUME NEW m \in MetaList
  PROVE  /\ \A x \in Seq(Meta) : [m EXCEPT !.list = x] \in MetaList
         /\ \A n \in Nat : [m EXCEPT !.total_size = n] \in MetaList
         /\ \A n \in Nat : [m EXCEPT !.length = n] \in MetaList
         /\ m.list \in Seq(Meta) /\ m.total_size \in Nat /\ m.length \in Nat
  BY DEF MetaList

\* The sums and differences of TBPAdd and TBPSub are uint64_t again.
LEMMA CounterArith ==
  ASSUME NEW x \in Counter, NEW y \in Nat
  PROVE  Add64(x, y) \in Counter /\ Sub64(x, y) \in Counter
<1>1. x + y \in Int /\ x - y \in Int  BY ConstantsAssumption DEF Counter
<1> QED  BY <1>1, ModW DEF Add64, Sub64

\* The store that create() sets up is well typed.
LEMMA InitType == Init => TypeOK
<1> SUFFICES ASSUME Init PROVE TypeOK  OBVIOUS
<1> USE ConstantsAssumption DEF Init
<1>1. NvmType
  BY DEF NvmType, Base, Entry, EmptyBase, BlankEntry, Addrs, Pointer, Counter
<1>2. IndexType  BY DEF IndexType, MetaList, EmptyList, Counter
<1>3. PutType  BY DEF PutType, Locals, IdleLoc, Pointer, Counter, PutLabels
<1>4. ReaderType  BY DEF ReaderType, ReaderLocals, IdleReader, ReaderLabels
<1>5. CloserType  BY DEF CloserType, CloserLocals, IdleCloser, Pointer, Counter, CloserLabels
<1>6. LifeType  BY DEF LifeType, Faults
<1>7. PutWellFormed  BY DEF PutWellFormed
<1> QED  BY <1>1, <1>2, <1>3, <1>4, <1>5, <1>6, <1>7 DEF TypeOK

\* The entry of a running put is one TBPAlloc has handed out.
LEMMA BepInAddrs ==
  ASSUME TypeOK, NEW t \in Threads, pc[t] # "idle"
  PROVE  loc[t].bep \in Addrs
  BY ConstantsAssumption
  DEF TypeOK, PutType, PutWellFormed, Locals, Addrs, Pointer

\* PutWellFormed survives a step of put t that keeps the keys of all entries.
LEMMA KeepWellFormed ==
  ASSUME TypeOK, NEW t \in Threads, pc[t] \notin {"idle", "fill"},
         \A a \in Addrs : ent'[a].key = ent[a].key,
         \A u \in Threads : u # t => pc'[u] = pc[u] /\ loc'[u] = loc[u],
         /\ loc'[t].bep = loc[t].bep
         /\ loc'[t].hash = loc[t].hash
         /\ loc'[t].val = loc[t].val
  PROVE  PutWellFormed'
  BY BepInAddrs DEF TypeOK, PutWellFormed

\* put allocates its entry, or dies on a null one.
LEMMA PutAllocType ==
  ASSUME TypeOK, NEW t \in Threads, NEW h \in Hashes, NEW v \in Vals,
         PutAlloc(t, h, v)
  PROVE  TypeOK'
<1> USE ConstantsAssumption
    DEF TypeOK, PutAlloc, Goto, dramVars, Pointer
<1>1. NvmType' /\ IndexType' /\ ReaderType' /\ CloserType'
  BY DEF NvmType, IndexType, ReaderType, CloserType
<1>2. PutType'
  <2>1. alloc < MaxEntries =>
          [hash |-> h, val |-> v, bep |-> alloc + 1, tl |-> 0, tmp |-> 0]
            \in Locals
    BY DEF Locals, NvmType, Counter
  <2> QED  BY <2>1 DEF PutType, PutLabels
<1>3. LifeType'  BY DEF LifeType, Faults
<1>4. PutWellFormed'  BY DEF PutWellFormed, PutType, NvmType
<1> QED  BY <1>1, <1>2, <1>3, <1>4

\* put stores the data and the header of its entry.
LEMMA PutFillType ==
  ASSUME TypeOK, NEW t \in Threads, PutFill(t)
  PROVE  TypeOK'
<1> USE DEF TypeOK, PutFill, Goto, dramVars, lifeVars
<1>1. loc[t].bep \in Addrs /\ loc[t].bep \in Pointer /\ 0 \in Pointer
  BY BepInAddrs, ConstantsAssumption DEF Addrs, Pointer
<1>2. \A b \in Pointer : Header(t, b) \in Entry /\ Header(t, b).key \in Hashes
  BY ConstantsAssumption DEF PutWellFormed, Header, Entry, Pointer
<1>3. NvmType'  BY <1>1, <1>2 DEF NvmType, PutWellFormed
<1>4. IndexType' /\ ReaderType' /\ CloserType' /\ LifeType'
  BY DEF IndexType, ReaderType, CloserType, LifeType
<1>5. PutType'  BY DEF PutType, PutLabels
<1>6. \A a \in Addrs :
        IF a = loc[t].bep THEN ent'[a].key \in Hashes
                          ELSE ent'[a].key = ent[a].key
  BY <1>1, <1>2 DEF NvmType
<1>7. PutWellFormed'
  BY <1>1, <1>6, BepInAddrs DEF PutWellFormed, PutType
<1> QED  BY <1>3, <1>4, <1>5, <1>7

\* The steps of a put on the list.
LEMMA PutListType ==
  ASSUME TypeOK, NEW t \in Threads,
         \/ PutReadTail(t) \/ PutSetHead(t) \/ PutLoadTail(t) \/ PutLink(t)
         \/ PutSetTail(t)
  PROVE  TypeOK'
<1> USE DEF TypeOK, Goto, nvmVars, dramVars, lifeVars
<1>b. pc[t] \notin {"idle", "fill"} /\ loc[t] \in Locals /\ base \in Base
  BY DEF PutReadTail, PutSetHead, PutLoadTail, PutLink, PutSetTail, PutType,
         NvmType
<1>c. loc[t].bep \in Addrs /\ loc[t].bep \in Pointer /\ loc[t].tl \in Pointer
  BY <1>b, BepInAddrs DEF Locals
<1>d. IndexType' /\ ReaderType' /\ CloserType'
  BY DEF IndexType, ReaderType, CloserType, PutReadTail, PutSetHead,
         PutLoadTail, PutLink, PutSetTail
<1>1. CASE PutReadTail(t)
  <2> USE <1>1 DEF PutReadTail
  <2>1. NvmType' /\ LifeType'  BY DEF NvmType, LifeType
  <2>2. PutType'  BY DEF PutType, PutLabels
  <2>3. PutWellFormed'  BY <1>b, KeepWellFormed DEF PutType
  <2> QED  BY <1>d, <2>1, <2>2, <2>3
<1>2. CASE PutSetHead(t)
  <2> USE <1>2 DEF PutSetHead
  <2>1. base' \in Base  BY <1>b, <1>c DEF Base
  <2>2. NvmType' /\ LifeType'  BY <2>1, <1>c DEF NvmType, LifeType
  <2>3. PutType'  BY DEF PutType, PutLabels
  <2>4. PutWellFormed'  BY <1>b, KeepWellFormed DEF PutType
  <2> QED  BY <1>d, <2>2, <2>3, <2>4
<1>3. CASE PutLoadTail(t)
  <2> USE <1>3 DEF PutLoadTail
  <2>1. NvmType' /\ LifeType'  BY DEF NvmType, LifeType
  <2>2. [loc[t] EXCEPT !.tl = base.tail] \in Locals
    BY <1>b DEF Locals, Base
  <2>3. PutType'  BY <2>2 DEF PutType, PutLabels
  <2>4. PutWellFormed'
    BY <1>b, KeepWellFormed DEF PutType, Locals
  <2> QED  BY <1>d, <2>1, <2>3, <2>4
<1>4. CASE PutLink(t)
  <2> USE <1>4 DEF PutLink
  <2>1. CASE loc[t].tl = 0
    <3>1. NvmType' /\ PutType' /\ PutWellFormed'
      BY <2>1 DEF NvmType, PutType, PutWellFormed
    <3>2. LifeType'  BY <2>1 DEF LifeType, Faults
    <3> QED  BY <1>d, <3>1, <3>2
  <2>2. CASE loc[t].tl # 0
    <3>1. loc[t].tl \in Addrs
      BY <1>c, <2>2, ConstantsAssumption DEF Addrs, Pointer
    <3>2. [ent[loc[t].tl] EXCEPT !.next = loc[t].bep] \in Entry
      BY <1>c, <3>1 DEF NvmType, Entry
    <3>3. NvmType'  BY <2>2, <3>1, <3>2, <1>c DEF NvmType
    <3>4. PutType' /\ LifeType'
      BY <2>2 DEF PutType, PutLabels, LifeType
    <3>5. \A a \in Addrs : ent'[a].key = ent[a].key
      BY <2>2, <3>1 DEF NvmType, Entry
    <3>6. PutWellFormed'
      BY <1>b, <2>2, <3>5, KeepWellFormed DEF PutType
    <3> QED  BY <1>d, <3>3, <3>4, <3>6
  <2> QED  BY <2>1, <2>2
<1>5. CASE PutSetTail(t)
  <2> USE <1>5 DEF PutSetTail
  <2>1. base' \in Base  BY <1>b, <1>c DEF Base
  <2>2. NvmType' /\ LifeType'  BY <2>1, <1>c DEF NvmType, LifeType
  <2>3. PutType'  BY DEF PutType, PutLabels
  <2>4. PutWellFormed'  BY <1>b, KeepWellFormed DEF PutType
  <2> QED  BY <1>d, <2>2, <2>3, <2>4
<1> QED  BY <1>1, <1>2, <1>3, <1>4, <1>5

\* The update of bytes_written and of the index, and the return.
LEMMA PutMetaType ==
  ASSUME TypeOK, NEW t \in Threads,
         \/ PutLoadBytes(t) \/ PutStoreBytes(t) \/ UpdateMeta(t)
         \/ UpdateTotal(t) \/ UpdateLength(t) \/ PutReturn(t)
  PROVE  TypeOK'
<1> USE DEF TypeOK, Goto, nvmVars, dramVars, lifeVars
<1>b. pc[t] \notin {"idle", "fill"} /\ loc[t] \in Locals /\ base \in Base
  BY DEF PutLoadBytes, PutStoreBytes, UpdateMeta, UpdateTotal, UpdateLength,
         PutReturn, PutType, NvmType
<1>c. /\ loc[t].bep \in Addrs
      /\ ent[loc[t].bep] \in Entry
      /\ ent[loc[t].bep].key \in Hashes
  BY <1>b, BepInAddrs DEF NvmType, PutWellFormed
<1>d. ReaderType' /\ CloserType' /\ LifeType'
  BY DEF ReaderType, CloserType, LifeType, PutLoadBytes, PutStoreBytes,
         UpdateMeta, UpdateTotal, UpdateLength, PutReturn
<1>1. CASE PutLoadBytes(t)
  <2> USE <1>1 DEF PutLoadBytes
  <2>1. NvmType' /\ IndexType'  BY DEF NvmType, IndexType
  <2>2. [loc[t] EXCEPT !.tmp = base.bytes_written] \in Locals
    BY <1>b DEF Locals, Base
  <2>3. PutType'  BY <2>2 DEF PutType, PutLabels
  <2>4. PutWellFormed'  BY <1>b, KeepWellFormed DEF PutType, Locals
  <2> QED  BY <1>d, <2>1, <2>3, <2>4
<1>2. CASE PutStoreBytes(t)
  <2> USE <1>2 DEF PutStoreBytes
  <2>1. Add64(loc[t].tmp, SizeOf[loc[t].val]) \in Counter
    BY <1>b, CounterArith, ConstantsAssumption DEF Locals, PutWellFormed
  <2>2. base' \in Base  BY <1>b, <2>1 DEF Base
  <2>3. NvmType' /\ IndexType'  BY <2>2 DEF NvmType, IndexType
  <2>4. PutType'  BY DEF PutType, PutLabels
  <2>5. PutWellFormed'  BY <1>b, KeepWellFormed DEF PutType
  <2> QED  BY <1>d, <2>3, <2>4, <2>5
<1>3. CASE UpdateMeta(t)
  <2> USE <1>3 DEF UpdateMeta
  <2> DEFINE b == loc[t].bep
             h == ent[b].key
  <2>1. NvmType'  BY DEF NvmType
  <2>2. BlockMeta(b) \in Meta
    BY <1>c DEF BlockMeta, Meta, Entry, Pointer
  <2>3. /\ Add64(bytes_allocated, SizeofBlockMeta) \in Counter
        /\ Add64(bytes_allocated, SizeofBlockMeta + SizeofBlockMetaList)
             \in Counter
    BY CounterArith DEF IndexType, SizeofBlockMeta, SizeofBlockMetaList
  <2>4. IndexType' /\ PutType'
    <3>1. CASE InsertMeta(t)
      <4>1. NewList(b) \in MetaList
        BY <1>c, <2>2 DEF NewList, MetaList, Entry
      <4> QED
        BY <3>1, <4>1, <2>3, <1>c
        DEF InsertMeta, IndexType, PutType, PutLabels
    <3>2. CASE AppendMeta(t)
      <4>1. index[h] \in MetaList  BY <1>c DEF IndexType
      <4>2. Append(index[h].list, BlockMeta(b)) \in Seq(Meta)
        BY <2>2, <4>1, MetaListFields
      <4> DEFINE l == Append(index[h].list, BlockMeta(b))
                 m == [index[h] EXCEPT !.list = l]
      <4>3. m \in MetaList  BY <4>1, <4>2, MetaListFields
      <4>4. \/ index' = [index EXCEPT ![h] = m]
            \/ index' = index
        BY <3>2 DEF AppendMeta, Link, dramVars
      <4> HIDE DEF m
      <4>5. index' \in [Hashes -> MetaList]
        BY <1>c, <4>3, <4>4 DEF IndexType
      <4>6. mtx' \in Threads \cup {Closer, Nobody} /\ bytes_allocated' \in Counter
        BY <3>2, <2>3, <1>c DEF AppendMeta, IndexType, dramVars
      <4>7. PutType'  BY <3>2, <1>c DEF AppendMeta, PutType, PutLabels
      <4> QED  BY <4>5, <4>6, <4>7 DEF IndexType
    <3> QED  BY <3>1, <3>2
  <2>5. PutWellFormed'
    BY <1>b, KeepWellFormed DEF PutType, InsertMeta, AppendMeta
  <2> QED  BY <1>d, <2>1, <2>4, <2>5
<1>4. CASE UpdateTotal(t)
  <2> USE <1>4 DEF UpdateTotal
  <2> DEFINE b == loc[t].bep
             h == ent[b].key
  <2>0. index[h] \in MetaList /\ ent[b].size \in Nat
    BY <1>c DEF IndexType, Entry
  <2>1. [index[h] EXCEPT !.total_size = @ + ent[b].size] \in MetaList
    <3>1. index[h].total_size + ent[b].size \in Nat
      BY <2>0, MetaListFields
    <3> QED  BY <2>0, <3>1, MetaListFields
  <2>2. NvmType' /\ IndexType'  BY <1>c, <2>1 DEF NvmType, IndexType
  <2>3. PutType'  BY DEF PutType, PutLabels
  <2>4. PutWellFormed'  BY <1>b, KeepWellFormed DEF PutType
  <2> QED  BY <1>d, <2>2, <2>3, <2>4
<1>5. CASE UpdateLength(t)
  <2> USE <1>5 DEF UpdateLength
  <2> DEFINE h == ent[loc[t].bep].key
  <2>0. index[h] \in MetaList  BY <1>c DEF IndexType
  <2>1. [index[h] EXCEPT !.length = @ + 1] \in MetaList
    <3>1. index[h].length + 1 \in Nat  BY <2>0, MetaListFields
    <3> QED  BY <2>0, <3>1, MetaListFields
  <2>2. NvmType' /\ IndexType'  BY <1>c, <2>1 DEF NvmType, IndexType
  <2>3. PutType'  BY DEF PutType, PutLabels
  <2>4. PutWellFormed'  BY <1>b, KeepWellFormed DEF PutType
  <2> QED  BY <1>d, <2>2, <2>3, <2>4
<1>6. CASE PutReturn(t)
  <2> USE <1>6 DEF PutReturn
  <2>1. NvmType' /\ IndexType'  BY DEF NvmType, IndexType
  <2>2. IdleLoc \in Locals
    BY ConstantsAssumption DEF IdleLoc, Locals, Pointer, Counter
  <2>3. PutType'  BY <2>2 DEF PutType, PutLabels
  <2>4. PutWellFormed'  BY DEF PutWellFormed, PutType
  <2> QED  BY <1>d, <2>1, <2>3, <2>4
<1> QED  BY <1>1, <1>2, <1>3, <1>4, <1>5, <1>6

\* The steps of a reader change only its own locals, or kill the process.
LEMMA ReaderTypes ==
  ASSUME TypeOK, NEW r \in Readers,
         \/ \E h \in Hashes, want \in {"length", "total_size"} :
              SizeContains(r, h, want)
         \/ ReaderStep(r)
  PROVE  TypeOK'
<1> USE DEF TypeOK, nvmVars, dramVars, lifeVars, ReaderGoto, Die
<1>a. NvmType' /\ IndexType' /\ PutType' /\ CloserType' /\ PutWellFormed'
  BY DEF NvmType, IndexType, PutType, CloserType, PutWellFormed, ReaderStep,
         SizeContains, SizeFind, GetMeta, Get, ListFind, GetMetaWalk, GetCopy,
         GetReturn
<1>b. LifeType'
  BY DEF LifeType, Faults, ReaderStep, SizeContains, SizeFind, GetMeta, Get,
         ListFind, GetMetaWalk, GetCopy, GetReturn
<1>c. SUFFICES ReaderType'  BY <1>a, <1>b
<1>d. \A q \in Readers : rd[q] \in ReaderLocals  BY DEF ReaderType
<1>e. \A h \in Hashes : index[h] \in MetaList  BY DEF IndexType
<1>1. ASSUME NEW h \in Hashes, NEW want \in {"length", "total_size"},
             SizeContains(r, h, want)
      PROVE  ReaderType'
  <2>1. [pc |-> AfterContains(h, want), hash |-> h, size |-> 0,
         snap |-> <<>>] \in ReaderLocals
    BY DEF AfterContains, ReaderLocals, ReaderLabels
  <2> QED  BY <1>1, <2>1 DEF SizeContains, ReaderType
<1>2. CASE SizeFind(r)
  <2>1. CASE UNCHANGED rd  BY <2>1 DEF ReaderType
  <2>2. CASE Contains(rd[r].hash)
    <3>1. rd[r].hash \in Hashes  BY <1>2 DEF SizeFind, ReaderType
    <3>2. index[rd[r].hash].length \in Nat /\ index[rd[r].hash].total_size \in Nat
      BY <3>1, <1>e DEF MetaList
    <3>3. rd'[r] \in ReaderLocals /\ rd'[r].hash = rd[r].hash
      BY <1>2, <2>2, <3>2, <1>d
      DEF SizeFind, ReaderLocals, ReaderLabels, ReaderType
    <3> QED  BY <1>2, <2>2, <3>1, <3>3 DEF SizeFind, ReaderType
  <2> QED  BY <1>2, <2>1, <2>2 DEF SizeFind
<1>3. ASSUME NEW label \in ReaderLabels, rd[r].pc # "idle",
             ReaderGoto(r, label)
      PROVE  ReaderType'
  <2>1. [rd[r] EXCEPT !.pc = label] \in ReaderLocals
    BY <1>d DEF ReaderLocals
  <2> QED  BY <1>3, <2>1, <1>d DEF ReaderType, ReaderLocals
<1>4. CASE GetMeta(r) \/ Get(r) \/ ListFind(r) \/ GetReturn(r)
  <2>1. \/ UNCHANGED rd
        \/ \E label \in ReaderLabels : ReaderGoto(r, label)
    BY <1>4 DEF GetMeta, Get, ListFind, GetReturn, ReaderLabels
  <2>2. rd[r].pc # "idle"
    BY <1>4 DEF GetMeta, Get, ListFind, GetReturn
  <2>3. UNCHANGED rd => ReaderType'  BY DEF ReaderType
  <2> QED  BY <2>1, <2>2, <2>3, <1>3
<1>5. ASSUME rd[r].pc # "idle",
             NEW s \in Seq(Meta), NEW label \in ReaderLabels,
             rd' = [rd EXCEPT ![r].snap = s, ![r].pc = label]
      PROVE  ReaderType'
  <2>1. [rd[r] EXCEPT !.snap = s, !.pc = label] \in ReaderLocals
    BY <1>d DEF ReaderLocals
  <2>2. rd' = [rd EXCEPT ![r] = [rd[r] EXCEPT !.snap = s, !.pc = label]]
    BY <1>5, <1>d DEF ReaderType, ReaderLocals
  <2> QED  BY <1>5, <2>1, <2>2, <1>d DEF ReaderType, ReaderLocals
<1>6. CASE GetMetaWalk(r) \/ GetCopy(r)
  <2>1. rd[r].pc # "idle" /\ rd[r].hash \in Hashes
    BY <1>6 DEF GetMetaWalk, GetCopy, ReaderType
  <2> DEFINE l == index[rd[r].hash].list
  <2>2. l \in Seq(Meta)  BY <2>1, <1>e DEF MetaList
  <2>3. \A n \in Fit(l, rd[r].size) : SubSeq(l, 1, n) \in Seq(Meta)
    BY <2>2 DEF Fit
  <2>4. CASE UNCHANGED rd  BY <2>4 DEF ReaderType
  <2>5. CASE GetMetaWalk(r)
    BY <2>1, <2>2, <2>4, <2>5, <1>5 DEF GetMetaWalk, ReaderLabels
  <2>6. CASE GetCopy(r)
    BY <2>1, <2>3, <2>4, <2>6, <1>5 DEF GetCopy, ReaderLabels
  <2> QED  BY <1>6, <2>5, <2>6
<1> QED  BY <1>1, <1>2, <1>4, <1>6 DEF ReaderStep

\* The steps of nativeCloseDevice, the deletion and the next open.
LEMMA CloserTypes ==
  ASSUME TypeOK,
         FaStart \/ StartDelete \/ CloserStep \/ UseAfterFree \/ Open
  PROVE  TypeOK'
<1> USE DEF TypeOK, nvmVars, dramVars, procVars, lifeVars, Die
<1>a. PutType' /\ ReaderType'
  BY DEF PutType, ReaderType, FaStart, StartDelete, CloserStep, UseAfterFree,
         Open, FaVisit, FaSubLoad, FaSubStore, FaClearHead, FaClearTail,
         FaAssert, FreeMetaLock, FreeMetaList, FreeMetaDone
<1>b. PutWellFormed'
  BY DEF PutWellFormed, FaStart, StartDelete, CloserStep, UseAfterFree,
         Open, FaVisit, FaSubLoad, FaSubStore, FaClearHead, FaClearTail,
         FaAssert, FreeMetaLock, FreeMetaList, FreeMetaDone
<1>c. LifeType'
  BY DEF LifeType, Faults, FaStart, StartDelete, CloserStep, UseAfterFree,
         Open, FaVisit, FaSubLoad, FaSubStore, FaClearHead, FaClearTail,
         FaAssert, FreeMetaLock, FreeMetaList, FreeMetaDone
<1>d. base \in Base /\ fa \in CloserLocals  BY DEF NvmType, CloserType
<1>e. 0 \in Pointer /\ 0 \in Counter /\ IdleCloser \in CloserLocals
      /\ EmptyBase \in Base /\ EmptyList \in MetaList
  BY ConstantsAssumption
  DEF Pointer, Counter, IdleCloser, CloserLocals, CloserLabels, EmptyBase,
      Base, EmptyList, MetaList
<1>f. SUFFICES NvmType' /\ IndexType' /\ CloserType'  BY <1>a, <1>b, <1>c
<1>1. CASE FaStart \/ StartDelete
  <2>0. UNCHANGED <<nvmVars, dramVars>>
    BY <1>1 DEF FaStart, StartDelete
  <2>1. NvmType' /\ IndexType'
    BY <2>0 DEF NvmType, IndexType
  <2>2. fa' \in CloserLocals
    BY <1>1, <1>d, <1>e
    DEF FaStart, StartDelete, NvmType, Base, CloserLocals, CloserLabels
  <2>3. CloserType'
    BY <1>1, <2>2 DEF FaStart, StartDelete, CloserType
  <2> QED  BY <2>1, <2>3
<1>2. CASE FaVisit
  <2>1. fa.cur \in Addrs
    BY <1>2, <1>d, ConstantsAssumption
    DEF FaVisit, CloserLocals, Addrs, Pointer
  <2>2. ent[fa.cur] \in Entry  BY <2>1 DEF NvmType
  <2> QED
    BY <1>2, <2>2, <1>d
    DEF FaVisit, NvmType, IndexType, CloserType, CloserLocals, CloserLabels,
        Entry
<1>3. CASE FaSubLoad
  BY <1>3, <1>d
  DEF FaSubLoad, NvmType, IndexType, CloserType, Base, CloserLocals,
      CloserLabels
<1>4. CASE FaSubStore
  <2>1. Sub64(fa.tmp, fa.size) \in Counter
    BY <1>d, CounterArith DEF CloserLocals
  <2> QED
    BY <1>4, <1>d, <2>1
    DEF FaSubStore, NvmType, IndexType, CloserType, Base, CloserLocals,
        CloserLabels
<1>5. CASE FaClearHead \/ FaClearTail
  BY <1>5, <1>d, <1>e
  DEF FaClearHead, FaClearTail, NvmType, IndexType, CloserType, Base,
      CloserLocals, CloserLabels
<1>6. CASE FaAssert
  BY <1>6, <1>d
  DEF FaAssert, NvmType, IndexType, CloserType, CloserLocals, CloserLabels
<1>7. CASE FreeMetaLock
  BY <1>7, <1>d
  DEF FreeMetaLock, NvmType, IndexType, CloserType, CloserLocals,
      CloserLabels
<1>8. ASSUME NEW h \in Hashes, FreeMetaList(h)
      PROVE  NvmType' /\ IndexType' /\ CloserType'
  <2>1. MetaBytes(index[h].list) \in Nat
    BY DEF MetaBytes, IndexType, MetaList, SizeofBlockMeta,
           SizeofBlockMetaList
  <2>2. bytes_allocated' \in Counter
    BY <1>8, <2>1, CounterArith DEF FreeMetaList, IndexType
  <2> QED
    BY <1>8, <2>2, <1>e DEF FreeMetaList, NvmType, IndexType, CloserType
<1>9. CASE FreeMetaDone
  BY <1>9, <1>d, <1>e
  DEF FreeMetaDone, NvmType, IndexType, CloserType, CloserLocals,
      CloserLabels
<1>10. CASE UseAfterFree
  BY <1>10 DEF UseAfterFree, NvmType, IndexType, CloserType
<1>11. CASE Open
  BY <1>11, <1>e DEF Open, NvmType, IndexType, CloserType
<1> QED
  BY <1>1, <1>2, <1>3, <1>4, <1>5, <1>6, <1>7, <1>8, <1>9, <1>10, <1>11
  DEF CloserStep

\* Type correctness is kept by every step.
LEMMA NextType ==
  ASSUME TypeOK, [Next]_vars
  PROVE  TypeOK'
<1>1. CASE UNCHANGED vars
  BY <1>1
  DEF vars, TypeOK, NvmType, IndexType, PutType, ReaderType, CloserType,
      LifeType, PutWellFormed
<1>2. CASE Next
  BY <1>2, PutAllocType, PutFillType, PutListType, PutMetaType, ReaderTypes,
     CloserTypes
  DEF Next, PutStep
<1> QED  BY <1>1, <1>2

\* Every state of the store is well typed: pointers stay inside the heap,
\* counters inside 64 bits, and a put only ever files entries that have a key.
THEOREM TypeCorrect == Spec => []TypeOK
<1>1. Init => TypeOK  BY InitType
<1>2. TypeOK /\ [Next]_vars => TypeOK'  BY NextType
<1> QED  BY <1>1, <1>2, PTL DEF Spec

(***************************************************************************)
(* The list in non-volatile memory.                                        *)
(***************************************************************************)

\* The put has its entry to itself: nothing in memory points to it yet.
Private(t) == pc[t] \in {"fill", "readTail", "setHead", "loadTail", "link"}

\* Depth grows by one along every next field, and only private and unused
\* entries have depth 0.
DepthOfLinks ==
  /\ base.head # 0 => depth[base.head] > 0
  /\ base.tail # 0 => depth[base.tail] > 0
  /\ \A a \in Addrs : ent[a].next # 0 =>
       depth[a] > 0 /\ depth[ent[a].next] = depth[a] + 1
  /\ \A a \in Addrs : a > alloc => depth[a] = 0

\* What each running put knows of its entry and of the tail it has loaded.
DepthOfPuts ==
  /\ \A t \in Threads : pc[t] # "idle" => loc[t].bep <= alloc
  /\ \A t \in Threads : Private(t) => depth[loc[t].bep] = 0
  /\ \A t \in Threads : pc[t] = "setTail" => depth[loc[t].bep] > 0
  /\ \A t \in Threads :
       pc[t] = "link" /\ loc[t].tl # 0 => depth[loc[t].tl] > 0
  /\ \A t, u \in Threads :
       t # u /\ Private(t) /\ Private(u) => loc[t].bep # loc[u].bep

\* Data blocks belong to one entry; linked entries, and private ones whose
\* header is stored, are complete.
LinkedComplete ==
  /\ \A a \in Addrs : ent[a].data \in {0, a}
  /\ \A a \in Addrs : depth[a] > 0 => Complete(a)
  /\ \A t \in Threads :
       Private(t) /\ pc[t] # "fill" => Complete(loc[t].bep)

DepthBounded == \E n \in Nat : \A a \in Addrs : depth[a] <= n

ListStructure == DepthOfLinks /\ DepthOfPuts /\ LinkedComplete

\* Depth rises along next, so a set closed under next would have no element of
\* greatest depth.
LEMMA StructureAcyclic ==
  ASSUME TypeOK, ListStructure, DepthBounded
  PROVE  ListAcyclic
<1> SUFFICES ASSUME NEW S \in SUBSET Addrs, S # {},
                    \A a \in S : ent[a].next \in S
             PROVE  FALSE
  BY DEF ListAcyclic
<1>1. PICK n \in Nat : \A a \in Addrs : depth[a] <= n  BY DEF DepthBounded
<1>2. \A a \in Addrs : depth[a] \in Nat  BY DEF TypeOK, NvmType
<1> DEFINE T == {n - depth[a] : a \in S}
<1>3. T \in SUBSET Nat /\ T # {}  BY <1>1, <1>2
<1>4. PICK m \in T : \A k \in T : m <= k  BY <1>3, LeastNat
<1>5. PICK a \in S : m = n - depth[a]  BY <1>4
<1>6. ent[a].next \in S /\ ent[a].next # 0  BY DEF Addrs
<1>7. depth[ent[a].next] = depth[a] + 1
  BY <1>6 DEF ListStructure, DepthOfLinks
<1>8. m <= n - depth[ent[a].next]  BY <1>4, <1>6
<1> QED  BY <1>2, <1>5, <1>6, <1>7, <1>8

\* What is linked has been filled in: the structure invariant implies crash
\* consistency.
LEMMA StructureComplete ==
  ASSUME TypeOK, ListStructure
  PROVE  EntriesComplete
<1>1. base \in Base /\ \A a \in Addrs : ent[a] \in Entry
  BY DEF TypeOK, NvmType
<1>2. \A p \in Pointer : p # 0 => p \in Addrs
  BY ConstantsAssumption DEF Pointer, Addrs
<1>3. /\ base.head # 0 => base.head \in Addrs
      /\ base.tail # 0 => base.tail \in Addrs
      /\ \A a \in Addrs : ent[a].next # 0 => ent[a].next \in Addrs
  BY <1>1, <1>2 DEF Base, Entry
<1>4. \A a \in Addrs : ent[a].next # 0 => depth[ent[a].next] > 0
  BY DEF ListStructure, DepthOfLinks, TypeOK, NvmType
<1> QED
  BY <1>3, <1>4
  DEF EntriesComplete, ListStructure, DepthOfLinks, LinkedComplete

\* An empty list has the structure invariant.
LEMMA InitStructure ==
  ASSUME Init PROVE ListStructure /\ DepthBounded
<1>1. DepthOfLinks
  BY DEF Init, DepthOfLinks, EmptyBase, BlankEntry
<1>2. DepthOfPuts  BY DEF Init, DepthOfPuts, Private
<1>3. LinkedComplete
  BY DEF Init, LinkedComplete, Private, BlankEntry
<1>4. DepthBounded  BY DEF Init, DepthBounded
<1> QED  BY <1>1, <1>2, <1>3, <1>4 DEF ListStructure

\* A step that leaves the entries and the puts alone, and moves head and tail
\* to null if it moves them at all.
LEMMA KeepStructure ==
  ASSUME ListStructure, DepthBounded,
         UNCHANGED <<ent, pm, alloc, depth, pc, loc>>,
         base'.head \in {base.head, 0}, base'.tail \in {base.tail, 0}
  PROVE  ListStructure' /\ DepthBounded'
  BY DEF ListStructure, DepthBounded, DepthOfLinks, DepthOfPuts,
         LinkedComplete, Private, Complete

\* A step of put t past setTail, which no longer touches the list.
LEMMA LateStructure ==
  ASSUME TypeOK, ListStructure, DepthBounded, NEW t \in Threads,
         UNCHANGED <<ent, pm, alloc, depth>>,
         base'.head = base.head, base'.tail = base.tail,
         \A u \in Threads : u # t => pc'[u] = pc[u] /\ loc'[u] = loc[u],
         pc[t] # "idle",
         pc'[t] \notin {"fill", "readTail", "setHead", "loadTail", "link",
                        "setTail"},
         pc'[t] # "idle" => loc'[t].bep = loc[t].bep
  PROVE  ListStructure' /\ DepthBounded'
<1>1. DepthOfLinks'  BY DEF ListStructure, DepthOfLinks
<1>2. DepthOfPuts'  BY DEF ListStructure, DepthOfPuts, Private
<1>3. LinkedComplete'  BY DEF ListStructure, LinkedComplete, Private, Complete
<1>4. DepthBounded'  BY DEF DepthBounded
<1> QED  BY <1>1, <1>2, <1>3, <1>4 DEF ListStructure

\* A new entry has depth 0: nothing points to it yet.
LEMMA PutAllocStructure ==
  ASSUME TypeOK, ListStructure, DepthBounded,
         NEW t \in Threads, NEW h \in Hashes, NEW v \in Vals,
         PutAlloc(t, h, v)
  PROVE  ListStructure' /\ DepthBounded'
<1> USE DEF PutAlloc, Goto
<1>a. alloc \in Nat /\ DepthBounded'
  BY ConstantsAssumption DEF TypeOK, NvmType, Pointer, DepthBounded
<1>1. CASE UNCHANGED <<alloc, loc, pc>>
  BY <1>1, KeepStructure
<1>2. CASE alloc' = alloc + 1
  <2>0. /\ alloc < MaxEntries /\ loc'[t].bep = alloc + 1 /\ pc'[t] = "fill"
        /\ \A u \in Threads : u # t => pc'[u] = pc[u] /\ loc'[u] = loc[u]
    BY <1>a, <1>2 DEF TypeOK, PutType
  <2>b. alloc + 1 \in Addrs
    BY <1>a, <2>0, ConstantsAssumption DEF Addrs
  <2>c. \A u \in Threads : pc[u] # "idle" => loc[u].bep \in Addrs
    BY BepInAddrs
  <2>1. DepthOfLinks'
    BY <1>2, <1>a DEF ListStructure, DepthOfLinks, Addrs
  <2>2. DepthOfPuts'
    BY <1>2, <1>a, <2>0, <2>b, <2>c
    DEF ListStructure, DepthOfPuts, DepthOfLinks, Private, Addrs
  <2>3. LinkedComplete'
    BY <1>2, <2>0 DEF ListStructure, LinkedComplete, Private, Complete
  <2> QED  BY <1>a, <2>1, <2>2, <2>3 DEF ListStructure
<1> QED  BY <1>1, <1>2

\* Nothing points to an entry of depth 0, and it points nowhere.
LEMMA LinksAvoidPrivate ==
  ASSUME TypeOK, ListStructure, NEW b \in Addrs, depth[b] = 0,
         NEW a \in Addrs, ent[a].next # 0
  PROVE  a # b /\ ent[a].next # b /\ ent[a].next \in Addrs
<1>1. depth[a] > 0 /\ depth[ent[a].next] = depth[a] + 1
  BY DEF ListStructure, DepthOfLinks
<1>2. ent[a].next \in Addrs
  <2>1. ent[a].next \in Pointer  BY DEF TypeOK, NvmType, Entry
  <2> QED  BY <2>1, ConstantsAssumption DEF Pointer, Addrs
<1>3. depth[a] \in Nat  BY DEF TypeOK, NvmType
<1> QED  BY <1>1, <1>2, <1>3

\* put fills in an entry that only it can reach.
LEMMA PutFillStructure ==
  ASSUME TypeOK, ListStructure, DepthBounded, NEW t \in Threads, PutFill(t)
  PROVE  ListStructure' /\ DepthBounded'
<1> USE DEF PutFill, Goto
<1> DEFINE b == loc[t].bep
<1>1. b \in Addrs /\ b # 0 /\ loc[t].hash \in Hashes /\ loc[t].val \in Vals
  BY BepInAddrs DEF TypeOK, PutWellFormed
<1>2. depth[b] = 0 /\ pc'[t] = "readTail"
      /\ \A u \in Threads : u # t => pc'[u] = pc[u] /\ loc'[u] = loc[u]
  BY DEF ListStructure, DepthOfPuts, Private, TypeOK, PutType
<1>3. /\ \A a \in Addrs \ {b} : ent'[a] = ent[a] /\ pm'[a] = pm[a]
      /\ \/ ent'[b] = Header(t, b) /\ pm'[b] = loc[t].val
         \/ ent'[b] = Header(t, 0)
  BY <1>1 DEF TypeOK, NvmType
<1>4. DepthOfLinks'
  BY <1>1, <1>2, <1>3 DEF ListStructure, DepthOfLinks, Header, TypeOK, NvmType
<1>5. DepthOfPuts'
  BY <1>2 DEF ListStructure, DepthOfPuts, Private
<1>6. Complete(b)'
  BY <1>1, <1>3 DEF Complete, Header
<1>7. \A a \in Addrs \ {b} :
        ent[a].data \in {0, a} /\ Complete(a) => Complete(a)'
  BY <1>3 DEF Complete
<1>8. LinkedComplete'
  <2>1. \A a \in Addrs : ent'[a].data \in {0, a}
    BY <1>3 DEF ListStructure, LinkedComplete, Header
  <2>2. \A a \in Addrs : depth'[a] > 0 => Complete(a)'
    BY <1>6, <1>7 DEF ListStructure, LinkedComplete
  <2>3. ASSUME NEW u \in Threads, Private(u)', pc'[u] # "fill"
        PROVE  Complete(loc[u].bep)'
    BY <2>3, <1>1, <1>2, <1>6, <1>7, BepInAddrs
    DEF ListStructure, LinkedComplete, DepthOfPuts, Private
  <2> QED  BY <2>1, <2>2, <2>3 DEF LinkedComplete
<1> QED  BY <1>4, <1>5, <1>8 DEF ListStructure, DepthBounded

\* A step of put t that loads a tail or decides where to go.
LEMMA PutLoadStructure ==
  ASSUME TypeOK, ListStructure, DepthBounded, NEW t \in Threads,
         PutReadTail(t) \/ PutLoadTail(t)
  PROVE  ListStructure' /\ DepthBounded'
<1> USE DEF PutReadTail, PutLoadTail, Goto, nvmVars
<1>1. /\ Private(t) /\ pc[t] # "fill" /\ Private(t)'
      /\ pc'[t] # "fill" /\ loc'[t].bep = loc[t].bep
      /\ pc'[t] = "link" => loc'[t].tl = base.tail
      /\ \A u \in Threads : u # t => pc'[u] = pc[u] /\ loc'[u] = loc[u]
  BY DEF Private, TypeOK, PutType, Locals
<1>2. DepthOfLinks' /\ DepthBounded'
  BY DEF ListStructure, DepthOfLinks, DepthBounded
<1>3. DepthOfPuts'
  BY <1>1 DEF ListStructure, DepthOfPuts, DepthOfLinks, Private
<1>4. LinkedComplete'
  BY <1>1 DEF ListStructure, LinkedComplete, Private, Complete
<1> QED  BY <1>2, <1>3, <1>4 DEF ListStructure

\* The store that publishes the entry: into bp->head ...
LEMMA PutSetHeadStructure ==
  ASSUME TypeOK, ListStructure, DepthBounded, NEW t \in Threads,
         PutSetHead(t)
  PROVE  ListStructure' /\ DepthBounded'
<1> USE DEF PutSetHead, Goto
<1> DEFINE b == loc[t].bep
<1>1. b \in Addrs /\ depth[b] = 0 /\ Complete(b) /\ b <= alloc
  BY BepInAddrs DEF ListStructure, DepthOfPuts, LinkedComplete, Private
<1>2. /\ base'.head = b /\ base'.tail = base.tail /\ pc'[t] = "setTail"
      /\ \A u \in Threads : u # t => pc'[u] = pc[u]
      /\ depth'[b] = 1 /\ \A a \in Addrs \ {b} : depth'[a] = depth[a]
  BY <1>1 DEF TypeOK, PutType, NvmType, Base
<1>3. DepthOfLinks'
  <2>1. \A a \in Addrs : ent[a].next # 0 =>
          a # b /\ ent[a].next # b /\ ent[a].next \in Addrs
    BY <1>1, LinksAvoidPrivate
  <2>2. base.tail # 0 => base.tail \in Addrs
    BY ConstantsAssumption DEF TypeOK, NvmType, Base, Addrs, Pointer
  <2>3. alloc \in Nat /\ b \in Nat
    BY <1>1, ConstantsAssumption DEF TypeOK, NvmType, Pointer, Addrs
  <2> QED  BY <1>1, <1>2, <2>1, <2>2, <2>3 DEF ListStructure, DepthOfLinks, Addrs
<1>4. DepthOfPuts'
  <2>1. \A u \in Threads : u # t /\ Private(u) => loc[u].bep # b
    BY DEF ListStructure, DepthOfPuts, Private
  <2>2. \A u \in Threads : loc[u].tl # 0 => loc[u].tl \in Addrs
    BY ConstantsAssumption DEF TypeOK, PutType, Locals, Addrs, Pointer
  <2> QED
    BY <1>1, <1>2, <2>1, <2>2, BepInAddrs DEF ListStructure, DepthOfPuts, Private
<1>5. LinkedComplete'
  BY <1>1, <1>2 DEF ListStructure, LinkedComplete, Private, Complete
<1>6. DepthBounded'
  <2>1. PICK n \in Nat : \A a \in Addrs : depth[a] <= n  BY DEF DepthBounded
  <2>2. \A a \in Addrs : depth'[a] <= n + 1
    BY <1>2, <2>1 DEF TypeOK, NvmType
  <2> QED  BY <2>2 DEF DepthBounded
<1> QED  BY <1>3, <1>4, <1>5, <1>6 DEF ListStructure

\* ... or into the next field of the tail that was loaded.
LEMMA PutLinkStructure ==
  ASSUME TypeOK, ListStructure, DepthBounded, NEW t \in Threads, PutLink(t)
  PROVE  ListStructure' /\ DepthBounded'
<1> USE DEF PutLink, Goto
<1> DEFINE b == loc[t].bep
           tl == loc[t].tl
<1>0. CASE tl = 0  BY <1>0, KeepStructure
<1>a. CASE tl # 0
  <2>1. b \in Addrs /\ depth[b] = 0 /\ Complete(b) /\ b <= alloc /\ b # 0
    BY BepInAddrs
    DEF ListStructure, DepthOfPuts, LinkedComplete, Private, TypeOK,
        PutWellFormed
  <2>2. tl \in Addrs /\ depth[tl] > 0 /\ tl # b /\ depth[tl] \in Nat
    <3>1. tl \in Pointer  BY DEF TypeOK, PutType, Locals
    <3>2. tl \in Addrs  BY <3>1, <1>a, ConstantsAssumption DEF Pointer, Addrs
    <3>3. depth[tl] > 0  BY <1>a DEF ListStructure, DepthOfPuts
    <3> QED  BY <2>1, <3>2, <3>3 DEF TypeOK, NvmType
  <2>3. /\ pc'[t] = "setTail" /\ loc' = loc /\ base' = base
        /\ \A u \in Threads : u # t => pc'[u] = pc[u]
        /\ alloc' = alloc /\ pm' = pm
    BY <1>a DEF TypeOK, PutType
  <2>4. /\ depth'[b] = depth[tl] + 1
        /\ \A a \in Addrs \ {b} : depth'[a] = depth[a]
    BY <1>a, <2>1 DEF TypeOK, NvmType
  <2>5. /\ ent'[tl].next = b
        /\ \A a \in Addrs \ {tl} : ent'[a] = ent[a]
        /\ \A a \in Addrs : /\ ent'[a].key = ent[a].key
                            /\ ent'[a].size = ent[a].size
                            /\ ent'[a].data = ent[a].data
    BY <1>a, <2>2 DEF TypeOK, NvmType, Entry
  <2>6. DepthOfLinks'
    <3>1. ASSUME NEW a \in Addrs, ent'[a].next # 0
          PROVE  depth'[a] > 0 /\ depth'[ent'[a].next] = depth'[a] + 1
      <4>1. CASE a = tl  BY <4>1, <2>2, <2>4, <2>5
      <4>2. CASE a # tl
        <5>1. ent'[a].next = ent[a].next /\ ent[a].next # 0
          BY <3>1, <4>2, <2>5
        <5>2. a # b /\ ent[a].next # b /\ ent[a].next \in Addrs
          BY <5>1, <2>1, LinksAvoidPrivate
        <5>3. depth[a] > 0 /\ depth[ent[a].next] = depth[a] + 1
          BY <5>1 DEF ListStructure, DepthOfLinks
        <5> QED  BY <5>1, <5>2, <5>3, <2>4
      <4> QED  BY <4>1, <4>2
    <3>2. \A p \in Pointer : p # 0 => p \in Addrs
      BY ConstantsAssumption DEF Pointer, Addrs
    <3>3. /\ base.head # 0 => depth'[base.head] > 0
          /\ base.tail # 0 => depth'[base.tail] > 0
      BY <3>2, <2>2, <2>4
      DEF ListStructure, DepthOfLinks, TypeOK, NvmType, Base
    <3>4. \A a \in Addrs : a > alloc => depth'[a] = 0
      <4>1. alloc \in Nat /\ b \in Nat
        BY <2>1, ConstantsAssumption DEF TypeOK, NvmType, Pointer, Addrs
      <4>2. \A a \in Addrs : a > alloc => a # b  BY <4>1, <2>1 DEF Addrs
      <4> QED  BY <4>2, <2>4 DEF ListStructure, DepthOfLinks
    <3> QED  BY <3>1, <3>3, <3>4, <2>3 DEF DepthOfLinks
  <2>7. DepthOfPuts'
    <3>1. \A u \in Threads : u # t /\ Private(u) => loc[u].bep # b
      BY DEF ListStructure, DepthOfPuts, Private
    <3>2. \A u \in Threads : loc[u].tl # 0 => loc[u].tl \in Addrs
      BY ConstantsAssumption DEF TypeOK, PutType, Locals, Addrs, Pointer
    <3> QED
      BY <2>1, <2>2, <2>3, <2>4, <3>1, <3>2, BepInAddrs
      DEF ListStructure, DepthOfPuts, Private
  <2>8. LinkedComplete'
    <3>1. \A a \in Addrs : Complete(a)' <=> Complete(a)
      BY <2>3, <2>5 DEF Complete
    <3>2. \A a \in Addrs : depth'[a] > 0 => a = b \/ depth[a] > 0
      BY <2>4
    <3> QED
      BY <2>1, <2>3, <2>5, <3>1, <3>2, BepInAddrs
      DEF ListStructure, LinkedComplete, Private
  <2>9. DepthBounded'
    <3>1. PICK n \in Nat : \A a \in Addrs : depth[a] <= n
      BY DEF DepthBounded
    <3>2. \A a \in Addrs : depth'[a] <= n + 1
      BY <2>2, <2>4, <3>1 DEF TypeOK, NvmType
    <3> QED  BY <3>2 DEF DepthBounded
  <2> QED  BY <2>6, <2>7, <2>8, <2>9 DEF ListStructure
<1> QED  BY <1>0, <1>a

\* bp->tail moves to an entry that is linked and complete.
LEMMA PutSetTailStructure ==
  ASSUME TypeOK, ListStructure, DepthBounded, NEW t \in Threads,
         PutSetTail(t)
  PROVE  ListStructure' /\ DepthBounded'
<1> USE DEF PutSetTail, Goto
<1>1. /\ base'.head = base.head /\ base'.tail = loc[t].bep
      /\ pc'[t] = "loadBytes"
      /\ \A u \in Threads : u # t => pc'[u] = pc[u]
  BY DEF TypeOK, NvmType, Base, PutType
<1>2. DepthOfLinks'
  BY <1>1 DEF ListStructure, DepthOfLinks, DepthOfPuts
<1>3. DepthOfPuts'  BY <1>1 DEF ListStructure, DepthOfPuts, Private
<1>4. LinkedComplete'
  BY <1>1 DEF ListStructure, LinkedComplete, Private, Complete
<1> QED  BY <1>2, <1>3, <1>4 DEF ListStructure, DepthBounded

\* The counter, update_meta and the return leave the list alone.
LEMMA PutLateStructure ==
  ASSUME TypeOK, ListStructure, DepthBounded, NEW t \in Threads,
         \/ PutLoadBytes(t) \/ PutStoreBytes(t) \/ UpdateMeta(t)
         \/ UpdateTotal(t) \/ UpdateLength(t) \/ PutReturn(t)
  PROVE  ListStructure' /\ DepthBounded'
<1>1. /\ UNCHANGED <<ent, pm, alloc, depth>>
      /\ base'.head = base.head /\ base'.tail = base.tail
      /\ \A u \in Threads : u # t => pc'[u] = pc[u] /\ loc'[u] = loc[u]
      /\ pc[t] # "idle"
      /\ pc'[t] \notin {"fill", "readTail", "setHead", "loadTail", "link",
                        "setTail"}
      /\ pc'[t] # "idle" => loc'[t].bep = loc[t].bep
  BY DEF PutLoadBytes, PutStoreBytes, UpdateMeta, InsertMeta, AppendMeta,
         UpdateTotal, UpdateLength, PutReturn, Goto, nvmVars, TypeOK, NvmType,
         Base, PutType, Locals
<1> QED  BY <1>1, LateStructure

\* The structure invariant is kept by every step.
LEMMA NextStructure ==
  ASSUME TypeOK, ListStructure, DepthBounded, [Next]_vars
  PROVE  ListStructure' /\ DepthBounded'
<1>1. CASE UNCHANGED vars  BY <1>1, KeepStructure DEF vars
<1>2. ASSUME NEW t \in Threads,
             \/ \E h \in Hashes, v \in Vals : PutAlloc(t, h, v)
             \/ PutStep(t)
      PROVE  ListStructure' /\ DepthBounded'
  BY <1>2, PutAllocStructure, PutFillStructure, PutLoadStructure,
     PutSetHeadStructure, PutLinkStructure, PutSetTailStructure,
     PutLateStructure
  DEF PutStep
<1>3. ASSUME NEW r \in Readers,
             \/ \E h \in Hashes, want \in {"length", "total_size"} :
                  SizeContains(r, h, want)
             \/ ReaderStep(r)
      PROVE  ListStructure' /\ DepthBounded'
  <2>1. UNCHANGED <<base, ent, pm, alloc, depth, pc, loc>>
    BY <1>3
    DEF nvmVars, ReaderStep, SizeContains, SizeFind, GetMeta, Get, ListFind,
        GetMetaWalk, GetCopy, GetReturn
  <2> QED  BY <2>1, KeepStructure
<1>4. CASE FaStart \/ StartDelete \/ CloserStep \/ UseAfterFree \/ Open
  <2>1. /\ UNCHANGED <<ent, pm, alloc, depth, pc, loc>>
        /\ base'.head \in {base.head, 0}
        /\ base'.tail \in {base.tail, 0}
    BY <1>4
    DEF nvmVars, procVars, CloserStep, FaStart, StartDelete, UseAfterFree,
        Open, FaVisit, FaSubLoad, FaSubStore, FaClearHead, FaClearTail,
        FaAssert, FreeMetaLock, FreeMetaList, FreeMetaDone, EmptyBase,
        TypeOK, NvmType, Base
  <2> QED  BY <2>1, KeepStructure
<1> QED  BY <1>1, <1>2, <1>3, <1>4 DEF Next

\* The inductive invariant of the list: depth rises along every next field, a
\* put between TBPAlloc and its publishing store is alone with its entry, and
\* everything that is linked is complete.
THEOREM StructureInvariant ==
  Spec => [](TypeOK /\ ListStructure /\ DepthBounded)
<1>1. Init => TypeOK /\ ListStructure /\ DepthBounded
  BY InitType, InitStructure
<1>2. TypeOK /\ ListStructure /\ DepthBounded /\ [Next]_vars =>
        TypeOK' /\ ListStructure' /\ DepthBounded'
  BY NextType, NextStructure
<1> QED  BY <1>1, <1>2, PTL DEF Spec

\* Whatever puts race with each other and with a close, the next fields never
\* form a cycle: the loop of free_all ends.
THEOREM AcyclicList == Spec => []ListAcyclic
<1>1. TypeOK /\ ListStructure /\ DepthBounded => ListAcyclic
  BY StructureAcyclic
<1> QED  BY <1>1, StructureInvariant, PTL

\* A crash at any point leaves no pointer to an entry that is half written.
THEOREM CrashConsistent == Spec => []EntriesComplete
<1>1. TypeOK /\ ListStructure /\ DepthBounded => EntriesComplete
  BY StructureComplete
<1> QED  BY <1>1, StructureInvariant, PTL

=============================================================================
