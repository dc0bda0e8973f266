------------------------------- MODULE PmemKV -------------------------------
(***************************************************************************)
(* The native store of SparkNVM, class pmemkv in native/src/pmemkv.h, as    *)
(* the JNI functions of native/src/lib_jni_pmdk.cpp drive it.               *)
(*                                                                         *)
(* All task threads of an executor share one pmemkv.  put() appends a block *)
(* entry to a singly linked list in non-volatile memory (root: struct base) *)
(* without holding a lock, one TBPLoad or TBPStore at a time, and then      *)
(* appends to a volatile index under the mutex mtx.  Every access to memory *)
(* that another thread can see is an action of its own.                     *)
(*                                                                         *)
(* Addresses are naturals; 0 is the null pointer, as in the code.  A block  *)
(* entry and its data block carry the same number.  A key is identified     *)
(* with its 64-bit xxhash, which is all the store ever looks at.            *)
(***************************************************************************)
EXTENDS Integers, Sequences, FiniteSets

CONSTANTS
  Threads,          \* task threads that call nativeSetBlock
  Readers,          \* threads that call nativeGetBlockIndex
  Hashes,           \* xxhash values of the block names in use
  Vals,             \* contents of the buffers handed to put
  SizeOf,           \* SizeOf[v]: the count argument that goes with v
  MaxEntries,       \* bound: TBPAlloc calls for block entries
  MaxOpens,         \* bound: pmemkv objects created one after the other
  W,                \* 2^64 in the code: the counters are uint64_t
  AllocMayFail,     \* TRUE: TBPAlloc may return 0
  MallocMayFail,    \* TRUE: malloc may return NULL in update_meta
  CloseConcurrent,  \* TRUE: the store may be closed while calls are running
  NoHash, NoVal,    \* contents of memory nobody has written
  Closer, Nobody    \* holders of mtx that are not task threads

Addrs == 1 .. MaxEntries

ASSUME ConstantsAssumption ==
  /\ SizeOf \in [Vals -> Nat]
  /\ MaxEntries \in Nat
  /\ MaxOpens \in Nat
  /\ W \in Nat \ {0}
  /\ AllocMayFail \in BOOLEAN
  /\ MallocMayFail \in BOOLEAN
  /\ CloseConcurrent \in BOOLEAN
  /\ NoHash \notin Hashes
  /\ NoVal \notin Vals
  /\ Closer \notin Threads
  /\ Nobody \notin Threads \cup {Closer}

VARIABLES
  base,             \* struct base, in non-volatile memory
  ent,              \* block entries, in non-volatile memory
  pm,               \* data blocks, in non-volatile memory
  alloc,            \* number of entries TBPAlloc has handed out
  index,            \* index_map: the block_meta_list of each hash
  bytes_allocated,  \* heap bytes of the index, as the code counts them
  mtx,              \* holder of the index mutex
  pc, loc,          \* program counter and locals of each running put
  rd,               \* locals of each reader in nativeGetBlockIndex
  fa,               \* locals of nativeCloseDevice: free_all, then delete
  life,             \* "open" or "deleted"
  opens,            \* pmemkv objects created so far
  fault,            \* "none", or what killed the process
  depth             \* auxiliary: how deep in the list an entry was linked

nvmVars == <<base, ent, pm, alloc, depth>>
dramVars == <<index, bytes_allocated, mtx>>
procVars == <<pc, loc, rd, fa>>
lifeVars == <<life, opens, fault>>
vars == <<base, ent, pm, alloc, index, bytes_allocated, mtx, pc, loc, rd, fa,
          life, opens, fault, depth>>

-----------------------------------------------------------------------------
\* A freshly allocated, still uninitialised block entry.
BlankEntry == [next |-> 0, key |-> NoHash, size |-> 0, data |-> 0]

\* bp = TBPAlloc(sizeof(base)) and the three TBPSet calls of create().
EmptyBase == [head |-> 0, tail |-> 0, bytes_written |-> 0]

\* No block_meta_list is in the map for this hash.
EmptyList == [list |-> <<>>, total_size |-> 0, length |-> 0]

IdleLoc == [hash |-> NoHash, val |-> NoVal, bep |-> 0, tl |-> 0, tmp |-> 0]

IdleReader == [pc |-> "idle", hash |-> NoHash, size |-> 0, snap |-> <<>>]

IdleCloser == [pc |-> "idle", cur |-> 0, next |-> 0, size |-> 0, tmp |-> 0,
               stage |-> "none"]

\* sizeof(block_meta) and sizeof(block_meta_list) on a 64-bit machine.
SizeofBlockMeta == 24
SizeofBlockMetaList == 32

\* uint64_t arithmetic of TBPAdd and TBPSub.
Add64(x, y) == (x + y) % W
Sub64AsAdd(x, y) == (x + y) % W    \* mutant: the body of TBPAdd
Sub64(x, y) == (x - y) % W

Meta == [off : 0 .. MaxEntries, size : Nat]

\* The bytes of the first n blocks of a block_meta list.
BytesOf(l, n) ==
  LET sum[i \in 0 .. Len(l)] == IF i = 0 THEN 0 ELSE sum[i - 1] + l[i].size
  IN  sum[n]

\* index_map.contains(h)
Contains(h) == index[h].list # <<>>

Init ==
  /\ base = EmptyBase
  /\ ent = [a \in Addrs |-> BlankEntry]
  /\ pm = [a \in Addrs |-> NoVal]
  /\ alloc = 0
  /\ index = [h \in Hashes |-> EmptyList]
  /\ bytes_allocated = 0
  /\ mtx = Nobody
  /\ pc = [t \in Threads |-> "idle"]
  /\ loc = [t \in Threads |-> IdleLoc]
  /\ rd = [r \in Readers |-> IdleReader]
  /\ fa = IdleCloser
  /\ life = "open"
  /\ opens = 1
  /\ fault = "none"
  /\ depth = [a \in Addrs |-> 0]

\* The process is alive and the pmemkv object has not been deleted.
Running == fault = "none" /\ life = "open"

\* A new call may be made: Spark does not hold a task back while the store is
\* being closed; the unit tests do (they join their threads first).
MayCall == Running /\ (CloseConcurrent \/ fa.pc = "idle")

Goto(t, label) == pc' = [pc EXCEPT ![t] = label]

-----------------------------------------------------------------------------
(***************************************************************************)
(* put(key, buf, count)                                                    *)
(***************************************************************************)

\* bep = TBPAlloc(sizeof(block_entry)).  A null bep is dereferenced two lines
\* below (bep->data), which is a segmentation fault.
PutAlloc(t, h, v) ==
  /\ MayCall
  /\ pc[t] = "idle"
  /\ \/ /\ alloc < MaxEntries
        /\ alloc' = alloc + 1
        /\ loc' = [loc EXCEPT ![t] =
                     [hash |-> h, val |-> v, bep |-> alloc + 1,
                      tl |-> 0, tmp |-> 0]]
        /\ Goto(t, "fill")
        /\ UNCHANGED fault
     \/ /\ AllocMayFail
        /\ fault' = "segv"
        /\ UNCHANGED <<alloc, loc, pc>>
  /\ UNCHANGED <<base, ent, pm, depth, dramVars, rd, fa, life, opens>>

\* The header that put stores, with a data block at off.
HeaderNoKey(t, off) ==    \* mutant: hdr.key is not stored
  [next |-> 0, key |-> NoHash, size |-> SizeOf[loc[t].val], data |-> off]
HeaderNoSize(t, off) ==   \* mutant: hdr.size is not stored
  [next |-> 0, key |-> loc[t].hash, size |-> 0, data |-> off]
Header(t, off) ==
  [next |-> 0, key |-> loc[t].hash, size |-> SizeOf[loc[t].val],
   data |-> off]

\* The data block is allocated and stored and the header is filled in.  When
\* TBPAlloc(count) returns 0 the store of the data fails and nobody looks at
\* the result: the entry goes on with a null data pointer.
PutFill(t) ==
  /\ Running
  /\ pc[t] = "fill"
  /\ LET b == loc[t].bep
     IN  \/ /\ ent' = [ent EXCEPT ![b] = Header(t, b)]
            /\ pm' = [pm EXCEPT ![b] = loc[t].val]
         \/ /\ AllocMayFail
            /\ ent' = [ent EXCEPT ![b] = Header(t, 0)]
            /\ UNCHANGED pm
  /\ Goto(t, "readTail")
  /\ UNCHANGED <<base, alloc, depth, dramVars, loc, rd, fa, lifeVars>>

\* Mutant of PutReadTail: the tail is updated before the old tail is linked.
PutReadTailFirst(t) ==
  /\ Running
  /\ pc[t] = "readTail"
  /\ Goto(t, IF base.tail = 0 THEN "setHead" ELSE "loadTail")
  /\ base' = [base EXCEPT !.tail = loc[t].bep]
  /\ UNCHANGED <<ent, pm, alloc, depth, dramVars, loc, rd, fa, lifeVars>>

\* if (TBPGet(&bp->tail) == 0)
PutReadTail(t) ==
  /\ Running
  /\ pc[t] = "readTail"
  /\ Goto(t, IF base.tail = 0 THEN "setHead" ELSE "loadTail")
  /\ UNCHANGED <<nvmVars, dramVars, loc, rd, fa, lifeVars>>

\* TBPSet(&bp->head, bep)
PutSetHead(t) ==
  /\ Running
  /\ pc[t] = "setHead"
  /\ base' = [base EXCEPT !.head = loc[t].bep]
  /\ depth' = [depth EXCEPT ![loc[t].bep] = 1]
  /\ Goto(t, "setTail")
  /\ UNCHANGED <<ent, pm, alloc, dramVars, loc, rd, fa, lifeVars>>

\* bp->tail is read a second time, to compute &bp->tail->hdr.next.
PutLoadTail(t) ==
  /\ Running
  /\ pc[t] = "loadTail"
  /\ loc' = [loc EXCEPT ![t].tl = base.tail]
  /\ Goto(t, "link")
  /\ UNCHANGED <<nvmVars, dramVars, rd, fa, lifeVars>>

\* TBPSet(&bp->tail->hdr.next, bep): a store through null if free_all has
\* cleared the tail since readTail.
PutLink(t) ==
  /\ Running
  /\ pc[t] = "link"
  /\ LET l == loc[t]
     IN  \/ /\ l.tl # 0
            /\ ent' = [ent EXCEPT ![l.tl].next = l.bep]
            /\ depth' = [depth EXCEPT ![l.bep] = depth[l.tl] + 1]
            /\ Goto(t, "setTail")
            /\ UNCHANGED fault
         \/ /\ l.tl = 0
            /\ fault' = "segv"
            /\ UNCHANGED <<ent, depth, pc>>
  /\ UNCHANGED <<base, pm, alloc, dramVars, loc, rd, fa, life, opens>>

\* TBPSet(&bp->tail, bep)
PutSetTail(t) ==
  /\ Running
  /\ pc[t] = "setTail"
  /\ base' = [base EXCEPT !.tail = loc[t].bep]
  /\ Goto(t, "loadBytes")
  /\ UNCHANGED <<ent, pm, alloc, depth, dramVars, loc, rd, fa, lifeVars>>

\* TBPAdd(&bp->bytes_written, count): the TBPLoad ...
PutLoadBytes(t) ==
  /\ Running
  /\ pc[t] = "loadBytes"
  /\ loc' = [loc EXCEPT ![t].tmp = base.bytes_written]
  /\ Goto(t, "storeBytes")
  /\ UNCHANGED <<nvmVars, dramVars, rd, fa, lifeVars>>

\* ... and the TBPStore of the sum.
PutStoreBytes(t) ==
  /\ Running
  /\ pc[t] = "storeBytes"
  /\ base' = [base EXCEPT !.bytes_written =
                Add64(loc[t].tmp, SizeOf[loc[t].val])]
  /\ Goto(t, "meta")
  /\ UNCHANGED <<ent, pm, alloc, depth, dramVars, loc, rd, fa, lifeVars>>

-----------------------------------------------------------------------------
(***************************************************************************)
(* update_meta(bep), under mtx.  Its return value reaches nobody: put       *)
(* returns it to nativeSetBlock, a void function.                           *)
(***************************************************************************)

\* The block_meta that update_meta builds from the entry it is given.
BlockMetaOfTail(b) ==     \* mutant: the data of bp->tail instead of bep
  [off |-> ent[base.tail].data, size |-> ent[b].size]
BlockMeta(b) == [off |-> ent[b].data, size |-> ent[b].size]

\* The block_meta_list of a hash with one block.
NewListZero(b) ==         \* mutant: total_size stays 0
  [list |-> <<BlockMeta(b)>>, total_size |-> 0, length |-> 1]
NewList(b) ==
  [list |-> <<BlockMeta(b)>>, total_size |-> ent[b].size, length |-> 1]

\* bml->tail->next = bm; bml->tail = bm
LinkAtHead(l, m) == <<m>> \o l    \* mutant
Link(l, m) == Append(l, m)

\* Mutant of InsertMeta: mtx is not released.
InsertMetaHolds(t) ==
  LET b == loc[t].bep
  IN  /\ ~Contains(ent[b].key)
      /\ index' = [index EXCEPT ![ent[b].key] = NewList(b)]
      /\ bytes_allocated' = Add64(bytes_allocated,
                                SizeofBlockMeta + SizeofBlockMetaList)
      /\ mtx' = t
      /\ Goto(t, "done")

\* The first block of a hash: block_meta and block_meta_list are built in
\* private memory and published by one index_map.insert.  When the second
\* malloc fails the block_meta is neither freed nor subtracted.
InsertMeta(t) ==
  LET b == loc[t].bep
      h == ent[b].key
  IN  /\ ~Contains(h)
      /\ \/ /\ index' = [index EXCEPT ![h] = NewList(b)]
            /\ bytes_allocated' = Add64(bytes_allocated,
                                    SizeofBlockMeta + SizeofBlockMetaList)
            /\ Goto(t, "done")
         \/ /\ MallocMayFail
            /\ bytes_allocated' \in
                 {bytes_allocated, Add64(bytes_allocated, SizeofBlockMeta)}
            /\ Goto(t, "failed")
            /\ UNCHANGED index
      /\ UNCHANGED mtx

\* A further block of a hash: bml->tail->next = bm makes it visible to readers,
\* which take no lock; total_size and length follow.
AppendMeta(t) ==
  LET b == loc[t].bep
      h == ent[b].key
  IN  /\ Contains(h)
      /\ \/ /\ index' = [index EXCEPT ![h].list = Link(@, BlockMeta(b))]
            /\ bytes_allocated' = Add64(bytes_allocated, SizeofBlockMeta)
            /\ mtx' = t
            /\ Goto(t, "total")
         \/ /\ MallocMayFail
            /\ Goto(t, "failed")
            /\ UNCHANGED dramVars

UpdateMeta(t) ==
  /\ Running
  /\ pc[t] = "meta"
  /\ mtx = Nobody
  /\ InsertMeta(t) \/ AppendMeta(t)
  /\ UNCHANGED <<nvmVars, loc, rd, fa, lifeVars>>

\* bml->total_size += bm->size
UpdateTotal(t) ==
  /\ Running
  /\ pc[t] = "total"
  /\ LET b == loc[t].bep
     IN  index' = [index EXCEPT ![ent[b].key].total_size = @ + ent[b].size]
  /\ Goto(t, "length")
  /\ UNCHANGED <<nvmVars, bytes_allocated, mtx, loc, rd, fa, lifeVars>>

\* Mutant of UpdateLength: mtx is not released.
UpdateLengthHolds(t) ==
  /\ Running
  /\ pc[t] = "length"
  /\ index' = [index EXCEPT ![ent[loc[t].bep].key].length = @ + 1]
  /\ Goto(t, "done")
  /\ UNCHANGED <<nvmVars, bytes_allocated, mtx, loc, rd, fa, lifeVars>>

\* bml->length += 1, and the lock_guard releases mtx.
UpdateLength(t) ==
  /\ Running
  /\ pc[t] = "length"
  /\ index' = [index EXCEPT ![ent[loc[t].bep].key].length = @ + 1]
  /\ mtx' = Nobody
  /\ Goto(t, "done")
  /\ UNCHANGED <<nvmVars, bytes_allocated, loc, rd, fa, lifeVars>>

\* put and nativeSetBlock return; "failed" looks like "done" to the caller.
PutReturn(t) ==
  /\ Running
  /\ pc[t] \in {"done", "failed"}
  /\ Goto(t, "idle")
  /\ loc' = [loc EXCEPT ![t] = IdleLoc]
  /\ UNCHANGED <<nvmVars, dramVars, rd, fa, lifeVars>>

-----------------------------------------------------------------------------
(***************************************************************************)
(* Readers: nativeGetBlockIndex (get_meta_size, then get_meta) and a client *)
(* that sizes its buffer with get_value_size and fills it with get.  They   *)
(* take no mutex; index_map.contains and index_map.find wait only while     *)
(* free_meta holds the table with lock_table().                             *)
(***************************************************************************)
TableFree == mtx # Closer

\* A reader steps from one label to another, keeping the rest of its locals.
ReaderGoto(r, label) == rd' = [rd EXCEPT ![r].pc = label]

\* The process is killed, or does something the C++ standard leaves undefined.
Die(what) == fault' = what

\* Where get_meta_size and get_value_size go after contains.
AfterContainsUnchecked(h, want) ==    \* mutant: contains is ignored
  IF want = "length" THEN "lengthFind" ELSE "valueFind"
AfterContains(h, want) ==
  IF want = "length" THEN IF Contains(h) THEN "lengthFind" ELSE "sized"
                     ELSE IF Contains(h) THEN "valueFind" ELSE "valued"

\* get_meta_size (want = "length") or get_value_size (want = "total_size"):
\* index_map.contains.
SizeContains(r, h, want) ==
  /\ MayCall
  /\ TableFree
  /\ rd[r].pc = "idle"
  /\ rd' = [rd EXCEPT ![r] =
              [pc |-> AfterContains(h, want), hash |-> h, size |-> 0,
               snap |-> <<>>]]
  /\ UNCHANGED <<nvmVars, dramVars, pc, loc, fa, lifeVars>>

\* index_map.find and the load through bml.  If the table was cleared since
\* contains, find leaves bml uninitialised and the load goes anywhere.
SizeFind(r) ==
  /\ Running
  /\ TableFree
  /\ rd[r].pc \in {"lengthFind", "valueFind"}
  /\ LET h == rd[r].hash
     IN  \/ /\ Contains(h)
            /\ rd' = [rd EXCEPT ![r].size = IF rd[r].pc = "lengthFind"
                                              THEN index[h].length
                                              ELSE index[h].total_size,
                                ![r].pc = IF @ = "lengthFind" THEN "sized"
                                                              ELSE "valued"]
            /\ UNCHANGED fault
         \/ /\ ~Contains(h)
            /\ Die("wild_pointer")
            /\ UNCHANGED rd
  /\ UNCHANGED <<nvmVars, dramVars, pc, loc, fa, life, opens>>

\* get_meta: contains.  For an absent key it sets only its own copy of the
\* pointer mm, and nativeGetBlockIndex reads the malloc'ed, unwritten
\* mm->length: zero, by luck, or the size of a wild array.
GetMeta(r) ==
  /\ Running
  /\ TableFree
  /\ rd[r].pc = "sized"
  /\ \/ /\ Contains(rd[r].hash)
        /\ ReaderGoto(r, "metaFind")
        /\ UNCHANGED fault
     \/ /\ ~Contains(rd[r].hash)
        /\ ReaderGoto(r, "idle")
        /\ UNCHANGED fault
     \/ /\ ~Contains(rd[r].hash)
        /\ Die("uninit_length")
        /\ UNCHANGED rd
  /\ UNCHANGED <<nvmVars, dramVars, pc, loc, fa, life, opens>>

\* get: contains, and -1 for an absent key.
Get(r) ==
  /\ Running
  /\ TableFree
  /\ rd[r].pc = "valued"
  /\ ReaderGoto(r, IF Contains(rd[r].hash) THEN "getFind" ELSE "idle")
  /\ UNCHANGED <<nvmVars, dramVars, pc, loc, fa, lifeVars>>

\* index_map.find of get_meta and of get.  get_meta leaves bml uninitialised
\* when the key has gone, get asserts that it has not.
ListFind(r) ==
  /\ Running
  /\ TableFree
  /\ \E here \in {"metaFind", "getFind"} :
       /\ rd[r].pc = here
       /\ \/ /\ Contains(rd[r].hash)
             /\ ReaderGoto(r, IF here = "metaFind" THEN "metaWalk"
                                                   ELSE "getCopy")
             /\ UNCHANGED fault
          \/ /\ ~Contains(rd[r].hash)
             /\ Die(IF here = "metaFind" THEN "wild_pointer" ELSE "assert_bml")
             /\ UNCHANGED rd
  /\ UNCHANGED <<nvmVars, dramVars, pc, loc, fa, life, opens>>

\* The loop of get_meta, up to the null pointer that ends it.  mm->meta has
\* room for the number of blocks get_meta_size returned.
GetMetaWalk(r) ==
  /\ Running
  /\ rd[r].pc = "metaWalk"
  /\ LET l == index[rd[r].hash].list
     IN  \/ /\ l # <<>>
            /\ Len(l) <= rd[r].size
            /\ rd' = [rd EXCEPT ![r].snap = l, ![r].pc = "idle"]
            /\ UNCHANGED fault
         \/ /\ l # <<>>
            /\ Len(l) > rd[r].size
            /\ Die("meta_overrun")
            /\ UNCHANGED rd
         \/ /\ l = <<>>
            /\ Die("use_after_free")
            /\ UNCHANGED rd
  /\ UNCHANGED <<nvmVars, dramVars, pc, loc, fa, life, opens>>

\* The numbers of blocks of l that fit into a buffer.
FitStrict(l, size) ==     \* mutant: < instead of <=
  {0} \cup {k \in 1 .. Len(l) : BytesOf(l, k) < size}
Fit(l, size) == {k \in 0 .. Len(l) : BytesOf(l, k) <= size}

\* The loop of get: whole blocks are copied while they fit in mb->size.
GetCopy(r) ==
  /\ Running
  /\ rd[r].pc = "getCopy"
  /\ LET l == index[rd[r].hash].list
     IN  \/ /\ l # <<>>
            /\ \E n \in Fit(l, rd[r].size) :
                 /\ \A k \in Fit(l, rd[r].size) : k <= n
                 /\ rd' = [rd EXCEPT ![r].snap = SubSeq(l, 1, n),
                                     ![r].pc = "got"]
            /\ UNCHANGED fault
         \/ /\ l = <<>>
            /\ Die("use_after_free")
            /\ UNCHANGED rd
  /\ UNCHANGED <<nvmVars, dramVars, pc, loc, fa, life, opens>>

\* The client is done with the buffer that get filled.
GetReturn(r) ==
  /\ Running
  /\ rd[r].pc = "got"
  /\ ReaderGoto(r, "idle")
  /\ UNCHANGED <<nvmVars, dramVars, pc, loc, fa, lifeVars>>

-----------------------------------------------------------------------------
(***************************************************************************)
(* nativeCloseDevice: free_all, whose last call is free_meta, and delete,   *)
(* whose destructor calls free_meta once more.                              *)
(***************************************************************************)
Quiet == /\ \A t \in Threads : pc[t] = "idle"
         /\ \A r \in Readers : rd[r].pc = "idle"

\* nativeCloseDevice enters free_all, which loads bp->head.
FaStart ==
  /\ Running
  /\ fa.pc = "idle"
  /\ CloseConcurrent \/ Quiet
  /\ fa' = [IdleCloser EXCEPT !.pc = "walk", !.cur = base.head,
                              !.stage = "free_all"]
  /\ UNCHANGED <<nvmVars, dramVars, pc, loc, rd, lifeVars>>

\* delete without free_all, as the unit test "test open and close" does it.
StartDelete ==
  /\ Running
  /\ fa.pc = "idle"
  /\ CloseConcurrent \/ Quiet
  /\ fa' = [IdleCloser EXCEPT !.pc = "metaLock", !.stage = "destroy"]
  /\ UNCHANGED <<nvmVars, dramVars, pc, loc, rd, lifeVars>>

\* The loop of free_all loads size and next of an entry.  (size is constant
\* once the entry is linked, so one step loads both.)
FaVisit ==
  /\ Running
  /\ fa.pc = "walk"
  /\ fa.cur # 0
  /\ fa' = [fa EXCEPT !.pc = "subLoad", !.size = ent[fa.cur].size,
                      !.next = ent[fa.cur].next]
  /\ UNCHANGED <<nvmVars, dramVars, pc, loc, rd, lifeVars>>

\* TBPSub(&bp->bytes_written, data_size): the TBPLoad ...
FaSubLoad ==
  /\ Running
  /\ fa.pc = "subLoad"
  /\ fa' = [fa EXCEPT !.pc = "subStore", !.tmp = base.bytes_written]
  /\ UNCHANGED <<nvmVars, dramVars, pc, loc, rd, lifeVars>>

\* ... and the TBPStore; the loop goes on with the entry loaded before.
FaSubStore ==
  /\ Running
  /\ fa.pc = "subStore"
  /\ base' = [base EXCEPT !.bytes_written = Sub64(fa.tmp, fa.size)]
  /\ fa' = [fa EXCEPT !.pc = "walk", !.cur = fa.next]
  /\ UNCHANGED <<ent, pm, alloc, depth, dramVars, pc, loc, rd, lifeVars>>

\* The loop has ended: TBPSet(&bp->head, 0).
FaClearHead ==
  /\ Running
  /\ fa.pc = "walk"
  /\ fa.cur = 0
  /\ base' = [base EXCEPT !.head = 0]
  /\ fa' = [fa EXCEPT !.pc = "clearTail"]
  /\ UNCHANGED <<ent, pm, alloc, depth, dramVars, pc, loc, rd, lifeVars>>

\* TBPSet(&bp->tail, 0)
FaClearTail ==
  /\ Running
  /\ fa.pc = "clearTail"
  /\ base' = [base EXCEPT !.tail = 0]
  /\ fa' = [fa EXCEPT !.pc = "assert"]
  /\ UNCHANGED <<ent, pm, alloc, depth, dramVars, pc, loc, rd, lifeVars>>

\* assert(TBPGet(&bp->bytes_written) == 0), active in the build: the Makefile
\* does not define NDEBUG.
FaAssert ==
  /\ Running
  /\ fa.pc = "assert"
  /\ \/ /\ base.bytes_written = 0
        /\ fa' = [fa EXCEPT !.pc = "metaLock"]
        /\ UNCHANGED fault
     \/ /\ base.bytes_written # 0
        /\ Die("assert_bytes_written")
        /\ UNCHANGED fa
  /\ UNCHANGED <<nvmVars, dramVars, pc, loc, rd, life, opens>>

\* free_meta: lock_guard on mtx, then lock_table().
FreeMetaLock ==
  /\ Running
  /\ fa.pc = "metaLock"
  /\ mtx = Nobody
  /\ mtx' = Closer
  /\ fa' = [fa EXCEPT !.pc = "freeMeta"]
  /\ UNCHANGED <<nvmVars, index, bytes_allocated, pc, loc, rd, lifeVars>>

\* The heap bytes of a block_meta_list with its blocks.
MetaBytesShort(l) == SizeofBlockMeta * Len(l)    \* mutant: only the blocks
MetaBytes(l) == SizeofBlockMeta * Len(l) + SizeofBlockMetaList

\* The loop of free_meta frees one block_meta_list.
FreeMetaList(h) ==
  /\ Running
  /\ fa.pc = "freeMeta"
  /\ Contains(h)
  /\ bytes_allocated' =
       Sub64(bytes_allocated, MetaBytes(index[h].list))
  /\ index' = [index EXCEPT ![h] = EmptyList]
  /\ UNCHANGED <<nvmVars, mtx, procVars, lifeVars>>

\* clear(), assert(bytes_allocated == 0) and the unlock.  After free_all comes
\* the destructor; after the destructor's free_meta the object is gone.
FreeMetaDone ==
  /\ Running
  /\ fa.pc = "freeMeta"
  /\ \A h \in Hashes : ~Contains(h)
  /\ \/ /\ bytes_allocated = 0
        /\ mtx' = Nobody
        /\ \/ /\ fa.stage = "free_all"
              /\ fa' = [fa EXCEPT !.pc = "metaLock", !.stage = "destroy"]
              /\ UNCHANGED life
           \/ /\ fa.stage = "destroy"
              /\ fa' = IdleCloser
              /\ life' = "deleted"
        /\ UNCHANGED fault
     \/ /\ bytes_allocated # 0
        /\ Die("assert_bytes_allocated")
        /\ UNCHANGED <<mtx, fa, life>>
  /\ UNCHANGED <<nvmVars, index, bytes_allocated, pc, loc, rd, opens>>

\* A call that was running when the object was deleted touches it again.
UseAfterFree ==
  /\ fault = "none"
  /\ life = "deleted"
  /\ ~Quiet
  /\ Die("use_after_free")
  /\ UNCHANGED <<nvmVars, dramVars, procVars, life, opens>>

\* nativeOpenDevice: new pmemkv().  create() allocates a new root; the old one
\* and the entries behind it stay in non-volatile memory, unreferenced.
Open ==
  /\ fault = "none"
  /\ life = "deleted"
  /\ Quiet
  /\ opens < MaxOpens
  /\ opens' = opens + 1
  /\ life' = "open"
  /\ base' = EmptyBase
  /\ index' = [h \in Hashes |-> EmptyList]
  /\ bytes_allocated' = 0
  /\ UNCHANGED <<ent, pm, alloc, depth, mtx, procVars, fault>>

-----------------------------------------------------------------------------
PutStep(t) ==
  \/ PutFill(t) \/ PutReadTail(t) \/ PutSetHead(t) \/ PutLoadTail(t)
  \/ PutLink(t) \/ PutSetTail(t) \/ PutLoadBytes(t) \/ PutStoreBytes(t)
  \/ UpdateMeta(t) \/ UpdateTotal(t) \/ UpdateLength(t) \/ PutReturn(t)

ReaderStep(r) ==
  \/ SizeFind(r) \/ GetMeta(r) \/ Get(r) \/ ListFind(r) \/ GetMetaWalk(r)
  \/ GetCopy(r) \/ GetReturn(r)

CloserStep ==
  \/ FaVisit \/ FaSubLoad \/ FaSubStore \/ FaClearHead \/ FaClearTail
  \/ FaAssert \/ FreeMetaLock \/ (\E h \in Hashes : FreeMetaList(h))
  \/ FreeMetaDone

Next ==
  \/ \E t \in Threads :
       \/ \E h \in Hashes, v \in Vals : PutAlloc(t, h, v)
       \/ PutStep(t)
  \/ \E r \in Readers :
       \/ \E h \in Hashes, want \in {"length", "total_size"} :
            SizeContains(r, h, want)
       \/ ReaderStep(r)
  \/ FaStart
  \/ StartDelete
  \/ CloserStep
  \/ UseAfterFree
  \/ Open

Spec == Init /\ [][Next]_vars

\* Native threads are scheduled preemptively: a call that was started and can
\* go on does go on.  Nobody has to start a call.
FairSpec ==
  /\ Spec
  /\ \A t \in Threads : WF_vars(PutStep(t))
  /\ \A r \in Readers : WF_vars(ReaderStep(r))
  /\ WF_vars(CloserStep)

-----------------------------------------------------------------------------
(***************************************************************************)
(* Properties                                                              *)
(***************************************************************************)
PutLabels ==
  {"idle", "fill", "readTail", "setHead", "loadTail", "link", "setTail",
   "loadBytes", "storeBytes", "meta", "total", "length", "done", "failed"}

ReaderLabels ==
  {"idle", "lengthFind", "valueFind", "sized", "valued", "metaFind",
   "getFind", "metaWalk", "getCopy", "got"}

CloserLabels ==
  {"idle", "walk", "subLoad", "subStore", "clearTail", "assert", "metaLock",
   "freeMeta"}

Faults ==
  {"none", "segv", "wild_pointer", "uninit_length", "assert_bml",
   "meta_overrun", "use_after_free", "assert_bytes_written",
   "assert_bytes_allocated"}

Counter == 0 .. W - 1
Pointer == 0 .. MaxEntries

Base == [head : Pointer, tail : Pointer, bytes_written : Counter]
Entry == [next : Pointer, key : Hashes \cup {NoHash}, size : Nat,
          data : Pointer]
MetaList == [list : Seq(Meta), total_size : Nat, length : Nat]
Locals == [hash : Hashes \cup {NoHash}, val : Vals \cup {NoVal},
           bep : Pointer, tl : Pointer, tmp : Counter]
ReaderLocals == [pc : ReaderLabels, hash : Hashes \cup {NoHash}, size : Nat,
                 snap : Seq(Meta)]
CloserLocals == [pc : CloserLabels, cur : Pointer, next : Pointer,
                 size : Nat, tmp : Counter,
                 stage : {"none", "free_all", "destroy"}]

NvmType ==
  /\ base \in Base
  /\ ent \in [Addrs -> Entry]
  /\ pm \in [Addrs -> Vals \cup {NoVal}]
  /\ alloc \in Pointer
  /\ depth \in [Addrs -> Nat]

IndexType ==
  /\ index \in [Hashes -> MetaList]
  /\ bytes_allocated \in Counter
  /\ mtx \in Threads \cup {Closer, Nobody}

PutType ==
  /\ pc \in [Threads -> PutLabels]
  /\ loc \in [Threads -> Locals]

ReaderType ==
  /\ rd \in [Readers -> ReaderLocals]
  /\ \A r \in Readers : rd[r].pc # "idle" => rd[r].hash \in Hashes

CloserType == fa \in CloserLocals

LifeType ==
  /\ life \in {"open", "deleted"}
  /\ opens \in Nat
  /\ fault \in Faults

\* A put works on an entry of its own, and past the stores of lines 147-151
\* the entry in memory has a key under which update_meta can file it.
PutWellFormed ==
  \A t \in Threads :
    pc[t] # "idle" =>
      /\ loc[t].bep # 0
      /\ loc[t].hash \in Hashes
      /\ loc[t].val \in Vals
      /\ pc[t] # "fill" => ent[loc[t].bep].key \in Hashes

\* Type correctness of the whole state.
TypeOK ==
  /\ NvmType
  /\ IndexType
  /\ PutType
  /\ ReaderType
  /\ CloserType
  /\ LifeType
  /\ PutWellFormed

\* Header and data of an entry have been stored (put, lines 147-151).
Complete(a) ==
  /\ ent[a].key \in Hashes
  /\ ent[a].data # 0 => /\ pm[ent[a].data] \in Vals
                        /\ ent[a].size = SizeOf[pm[ent[a].data]]

\* Crash consistency: whatever the interleaving of the unlocked put calls, a
\* pointer in non-volatile memory (head, tail or a next field) never leads to
\* an entry whose header or data is not stored yet.
EntriesComplete ==
  /\ base.head # 0 => Complete(base.head)
  /\ base.tail # 0 => Complete(base.tail)
  /\ \A a \in Addrs :
       ent[a].next # 0 => Complete(a) /\ Complete(ent[a].next)

\* The next fields never form a cycle, although two put calls may link to the
\* same tail: every set of entries has one whose next leaves the set.  The
\* loops of free_all and dump_all therefore end.
ListAcyclic ==
  \A S \in SUBSET Addrs :
    S # {} => \E a \in S : ent[a].next \notin S

\* One turn of a loop over the list in non-volatile memory that looks for the
\* blocks of h: w.at is the entry it has come to.
Visit(h, w) ==
  IF w.at = 0 THEN w
  ELSE [at |-> ent[w.at].next,
        found |-> IF ent[w.at].key = h THEN Append(w.found, BlockMeta(w.at))
                                       ELSE w.found]

\* The block_meta list of h that a walk over the list would rebuild.
Rebuilt(h) ==
  LET walk[i \in 0 .. MaxEntries] ==
        IF i = 0 THEN [at |-> base.head, found |-> <<>>]
        ELSE Visit(h, walk[i - 1])
  IN  walk[MaxEntries].found

IsInitialSegment(s, u) == Len(s) <= Len(u) /\ s = SubSeq(u, 1, Len(s))

\* Durable before visible: a block that readers can find through the index is
\* already on the list in non-volatile memory, in the same order, so an index
\* rebuilt after a crash would not miss it; between calls the two agree.
IndexOnList ==
  life = "open" /\ fa.pc = "idle" /\ fault = "none" =>
    \A h \in Hashes :
      /\ IsInitialSegment(index[h].list, Rebuilt(h))
      /\ Quiet => index[h].list = Rebuilt(h)

\* length and total_size, which readers load without the lock, never run
\* ahead of the list, and agree with it whenever no update_meta is running.
MetaCounts ==
  \A h \in Hashes :
    LET m == index[h]
        sum == BytesOf(m.list, Len(m.list))
    IN  /\ m.length <= Len(m.list) /\ m.total_size <= sum
        /\ mtx \notin Threads => m.length = Len(m.list) /\ m.total_size = sum

\* A client that sizes its buffer with get_value_size gets it filled to the
\* last byte by get, even if other threads append in between: the total is
\* always the total of a prefix of the list.
GetFillsBuffer ==
  \A r \in Readers :
    rd[r].pc = "got" => BytesOf(rd[r].snap, Len(rd[r].snap)) = rd[r].size

\* assert(bytes_written == 0), line 292: what the puts added is what the walk
\* over the list subtracts.
BytesWrittenAssert == fault # "assert_bytes_written"

\* assert(bytes_allocated == 0), line 344: free_meta frees what update_meta
\* allocated.
BytesAllocatedAssert == fault # "assert_bytes_allocated"

\* When the store is closed only after all calls have returned, no call ever
\* follows a null, dangling or uninitialised pointer into the store.
NoWildAccess ==
  fault \notin {"segv", "wild_pointer", "use_after_free", "assert_bml"}

\* nativeCloseDevice returns: neither the walk over the list nor the second
\* lock of mtx by the destructor holds it forever.
CloseReturns == fa.pc # "idle" ~> (fa.pc = "idle" \/ fault # "none")

\* A put that was called returns, unless the store is deleted under it.
PutReturns ==
  \A t \in Threads :
    pc[t] # "idle" ~> (pc[t] = "idle" \/ ~Running)

\* "rebuild index map when opening pmemkv" (line 89): a new pmemkv finds the
\* blocks that the deleted one left on the list in non-volatile memory.
RebuildOnOpen ==
  [][Open => \A h \in Hashes : index'[h].list = Rebuilt(h)]_vars

=============================================================================
