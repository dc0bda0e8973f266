-------------------------- MODULE PmemKVIndexProof --------------------------
(***************************************************************************)
(* Proofs about the volatile index of pmemkv, for every set of threads,     *)
(* keys and values: what the running puts have stored, where the lists of   *)
(* block_metas and their counts stand, and what a reader without a lock may *)
(* rely on.  What the index promises is AppendStore, which pmemkv is shown  *)
(* to implement, and what it takes up of memory is what the code counts.    *)
(* When puts do not overlap, the index, bytes_written and the list in       *)
(* non-volatile memory agree.                                               *)
(***************************************************************************)
EXTENDS PmemKVRefinement, PmemKVProof, FiniteSetTheorems

-----------------------------------------------------------------------------
(***************************************************************************)
(* The bytes of a list.  Facts about the recursive function in BytesOf are  *)
(* proved by induction over the number of blocks (UpTo).                    *)
(***************************************************************************)
\* What the recursive function inside BytesOf has to satisfy.
IsSum(f, l, n) ==
  f = [i \in 0 .. n |-> IF i = 0 THEN 0 ELSE f[i - 1] + l[i].size]

\* It exists for every list, one block at a time.
LEMMA SumExists ==
  ASSUME NEW l \in Seq(Meta)
  PROVE  \E f : IsSum(f, l, Len(l))
<1> DEFINE Good == {k \in 0 .. Len(l) :
                      \E f : DOMAIN f = 0 .. k /\ IsSum(f, l, k)}
<1>1. 0 \in Good
  <2> DEFINE f == [i \in 0 .. 0 |-> 0]
  <2>1. IsSum(f, l, 0) /\ DOMAIN f = 0 .. 0  BY DEF IsSum
  <2> HIDE DEF f
  <2>2. \E x : DOMAIN x = 0 .. 0 /\ IsSum(x, l, 0)  BY <2>1
  <2> QED  BY <2>2
<1>2. ASSUME NEW k \in 0 .. Len(l), k \in Good, k < Len(l)
      PROVE  k + 1 \in Good
  <2>1. PICK f : DOMAIN f = 0 .. k /\ IsSum(f, l, k)  BY <1>2
  <2> DEFINE g == [i \in 0 .. k + 1 |-> IF i = k + 1 THEN f[k] + l[k + 1].size
                                                     ELSE f[i]]
  <2>2. ASSUME NEW i \in 0 .. k + 1
        PROVE  g[i] = IF i = 0 THEN 0 ELSE g[i - 1] + l[i].size
    <3>1. CASE i = k + 1  BY <3>1
    <3>2. CASE i # k + 1
      <4>1. i \in 0 .. k /\ (i # 0 => i - 1 \in 0 .. k)  BY <3>2
      <4>2. f[i] = IF i = 0 THEN 0 ELSE f[i - 1] + l[i].size
        BY <2>1, <4>1 DEF IsSum
      <4> QED  BY <4>1, <4>2, <3>2
    <3> QED  BY <3>1, <3>2
  <2>3. g = [i \in 0 .. k + 1 |-> IF i = 0 THEN 0 ELSE g[i - 1] + l[i].size]
    BY <2>2
  <2>4. IsSum(g, l, k + 1) /\ DOMAIN g = 0 .. k + 1  BY <2>3 DEF IsSum
  <2> HIDE DEF g
  <2>5. \E x : DOMAIN x = 0 .. k + 1 /\ IsSum(x, l, k + 1)  BY <2>4
  <2> QED  BY <1>2, <2>5
<1>3. Len(l) \in Nat  OBVIOUS
<1> HIDE DEF Good
<1>4. 0 .. Len(l) \subseteq Good  BY <1>1, <1>2, <1>3, UpTo
<1>5. Len(l) \in Good  BY <1>3, <1>4
<1> QED  BY <1>5 DEF Good

\* The bytes of a prefix, one block at a time.
LEMMA BytesOfStep ==
  ASSUME NEW l \in Seq(Meta)
  PROVE  /\ BytesOf(l, 0) = 0
         /\ \A i \in 1 .. Len(l) :
              BytesOf(l, i) = BytesOf(l, i - 1) + l[i].size
<1> DEFINE F == CHOOSE f : f = [i \in 0 .. Len(l) |->
                                  IF i = 0 THEN 0 ELSE f[i - 1] + l[i].size]
<1>1. \A i : BytesOf(l, i) = F[i]  BY DEF BytesOf
<1>2. PICK f : f = [i \in 0 .. Len(l) |->
                      IF i = 0 THEN 0 ELSE f[i - 1] + l[i].size]
  BY SumExists DEF IsSum
<1>3. F = [i \in 0 .. Len(l) |-> IF i = 0 THEN 0 ELSE F[i - 1] + l[i].size]
  BY <1>2
<1> HIDE DEF F
<1>4. Len(l) \in Nat  OBVIOUS
<1>5. F[0] = 0  BY <1>3, <1>4
<1>6. \A i \in 1 .. Len(l) : F[i] = F[i - 1] + l[i].size  BY <1>3, <1>4
<1> HIDE DEF F
<1> QED  BY <1>1, <1>5, <1>6, Zenon

\* Byte counts are naturals ...
LEMMA BytesOfNat ==
  ASSUME NEW l \in Seq(Meta), NEW n \in 0 .. Len(l)
  PROVE  BytesOf(l, n) \in Nat
<1> DEFINE G == {k \in 0 .. Len(l) : BytesOf(l, k) \in Nat}
<1>1. Len(l) \in Nat /\ 0 \in G  BY BytesOfStep
<1>2. ASSUME NEW k \in 0 .. Len(l), k \in G, k < Len(l) PROVE k + 1 \in G
  <2>1. k + 1 \in 1 .. Len(l) /\ (k + 1) - 1 = k  BY <1>1, <1>2
  <2>2. l[k + 1].size \in Nat
    <3>1. l[k + 1] \in Meta  BY <2>1
    <3> QED  BY <3>1 DEF Meta
  <2>3. BytesOf(l, k + 1) = BytesOf(l, k) + l[k + 1].size
    BY <2>1, BytesOfStep
  <2> QED  BY <1>2, <2>1, <2>2, <2>3
<1> HIDE DEF G
<1>3. 0 .. Len(l) \subseteq G  BY <1>1, <1>2, UpTo
<1>4. n \in G  BY <1>3
<1> QED  BY <1>4 DEF G

\* ... and depend only on the blocks counted.
LEMMA BytesOfPrefix ==
  ASSUME NEW l \in Seq(Meta), NEW m \in Seq(Meta), NEW n \in Nat,
         n <= Len(l), n <= Len(m), \A i \in 1 .. n : l[i] = m[i]
  PROVE  BytesOf(l, n) = BytesOf(m, n)
<1> DEFINE G == {k \in 0 .. n : BytesOf(l, k) = BytesOf(m, k)}
<1>1. 0 \in G  BY BytesOfStep
<1>2. ASSUME NEW k \in 0 .. n, k \in G, k < n PROVE k + 1 \in G
  <2>1. /\ k + 1 \in 1 .. n /\ (k + 1) - 1 = k
        /\ k + 1 \in 1 .. Len(l) /\ k + 1 \in 1 .. Len(m)
    BY <1>2
  <2>2. BytesOf(l, k + 1) = BytesOf(l, k) + l[k + 1].size
    BY <2>1, BytesOfStep
  <2>3. BytesOf(m, k + 1) = BytesOf(m, k) + m[k + 1].size
    BY <2>1, BytesOfStep
  <2> QED  BY <1>2, <2>1, <2>2, <2>3
<1> HIDE DEF G
<1>3. 0 .. n \subseteq G  BY <1>1, <1>2, UpTo
<1>4. n \in G  BY <1>3
<1> QED  BY <1>4 DEF G

\* A longer prefix has at least the bytes of a shorter one.
LEMMA BytesOfMonotone ==
  ASSUME NEW l \in Seq(Meta), NEW m \in 0 .. Len(l), NEW n \in m .. Len(l)
  PROVE  BytesOf(l, m) <= BytesOf(l, n)
<1> DEFINE G == {k \in 0 .. Len(l) : m <= k => BytesOf(l, m) <= BytesOf(l, k)}
<1>0. Len(l) \in Nat /\ \A k \in 0 .. Len(l) : BytesOf(l, k) \in Nat
  BY BytesOfNat
<1>1. 0 \in G  BY <1>0
<1>2. ASSUME NEW k \in 0 .. Len(l), k \in G, k < Len(l) PROVE k + 1 \in G
  <2>1. k + 1 \in 1 .. Len(l) /\ (k + 1) - 1 = k /\ k + 1 \in 0 .. Len(l)
    BY <1>0, <1>2
  <2>2. l[k + 1].size \in Nat
    <3>1. l[k + 1] \in Meta  BY <2>1
    <3> QED  BY <3>1 DEF Meta
  <2>3. BytesOf(l, k + 1) = BytesOf(l, k) + l[k + 1].size
    BY <2>1, BytesOfStep
  <2>4. BytesOf(l, k) \in Nat /\ BytesOf(l, m) \in Nat /\ BytesOf(l, k + 1) \in Nat
    BY <1>0, <2>1
  <2>5. CASE m = k + 1  BY <2>1, <2>4, <2>5
  <2>6. CASE m # k + 1  BY <1>2, <2>1, <2>2, <2>3, <2>4, <2>6
  <2> QED  BY <2>5, <2>6
<1> HIDE DEF G
<1>3. 0 .. Len(l) \subseteq G  BY <1>0, <1>1, <1>2, UpTo
<1>4. n \in G  BY <1>0, <1>3
<1> QED  BY <1>4 DEF G

-----------------------------------------------------------------------------
(***************************************************************************)
(* What the steps of readers and of the closer leave alone.                *)
(***************************************************************************)
ReaderNext(r) ==
  \/ \E h \in Hashes, want \in {"length", "total_size"} :
       SizeContains(r, h, want)
  \/ ReaderStep(r)

CloserNext == FaStart \/ StartDelete \/ CloserStep \/ UseAfterFree \/ Open

PutNext(t) ==
  \/ \E h \in Hashes, v \in Vals : PutAlloc(t, h, v)
  \/ PutStep(t)

\* Every step is one of a put, of a reader, of closing and opening, or none.
LEMMA NextSplit ==
  ASSUME [Next]_vars
  PROVE  \/ \E t \in Threads : PutNext(t)
         \/ \E r \in Readers : ReaderNext(r)
         \/ CloserNext
         \/ UNCHANGED vars
  BY DEF Next, PutNext, ReaderNext, CloserNext

\* A reader writes to nothing but its own locals.
LEMMA ReaderFrame ==
  ASSUME NEW r \in Readers, ReaderNext(r)
  PROVE  UNCHANGED <<nvmVars, dramVars, pc, loc, fa, life, opens>>
  BY DEF ReaderNext, ReaderStep, SizeContains, SizeFind, GetMeta, Get,
         ListFind, GetMetaWalk, GetCopy, GetReturn, lifeVars

\* nativeCloseDevice and nativeOpenDevice touch neither entries nor calls.
LEMMA CloserFrame ==
  ASSUME CloserNext
  PROVE  UNCHANGED <<ent, pm, alloc, depth, pc, loc, rd>>
  BY DEF CloserNext, CloserStep, FaStart, StartDelete, UseAfterFree, Open,
         FaVisit, FaSubLoad, FaSubStore, FaClearHead, FaClearTail, FaAssert,
         FreeMetaLock, FreeMetaList, FreeMetaDone, nvmVars, procVars

\* A put moves only its own program counter and locals.
LEMMA PutFrame ==
  ASSUME TypeOK, NEW t \in Threads, PutNext(t)
  PROVE  /\ \A u \in Threads \ {t} : pc'[u] = pc[u] /\ loc'[u] = loc[u]
         /\ UNCHANGED <<rd, fa, life, opens>>
         /\ Running
  BY DEF PutNext, PutStep, PutAlloc, PutFill, PutReadTail, PutSetHead,
         PutLoadTail, PutLink, PutSetTail, PutLoadBytes, PutStoreBytes,
         UpdateMeta, InsertMeta, AppendMeta, UpdateTotal, UpdateLength,
         PutReturn, Goto, lifeVars, TypeOK, PutType, MayCall

\* Before and after update_meta a put does not touch the index.
LEMMA PutIndexFrame ==
  ASSUME NEW t \in Threads, PutNext(t)
  PROVE  \/ UpdateMeta(t) \/ UpdateTotal(t) \/ UpdateLength(t)
         \/ UNCHANGED dramVars
  BY DEF PutNext, PutStep, PutAlloc, PutFill, PutReadTail, PutSetHead,
         PutLoadTail, PutLink, PutSetTail, PutLoadBytes, PutStoreBytes,
         PutReturn, dramVars

-----------------------------------------------------------------------------
(***************************************************************************)
(* The mutex.                                                              *)
(***************************************************************************)
Holding(t) == pc[t] \in {"total", "length"}

\* Whoever is between the lock and the unlock of mtx is its holder.
MutexInv ==
  /\ \A t \in Threads : Holding(t) <=> mtx = t
  /\ fa.pc = "freeMeta" <=> mtx = Closer

\* mtx is taken and released where put and free_meta say so, by nobody else.
LEMMA MutexStep ==
  ASSUME TypeOK, MutexInv, [Next]_vars
  PROVE  MutexInv'
<1> USE ConstantsAssumption DEF Holding
<1>1. ASSUME NEW t \in Threads, PutNext(t) PROVE MutexInv'
  <2>1. /\ \A u \in Threads \ {t} : pc'[u] = pc[u]
        /\ fa' = fa /\ pc \in [Threads -> PutLabels]
    BY <1>1, PutFrame DEF TypeOK, PutType
  <2>2. CASE UpdateMeta(t)
    <3>1. ~Holding(t) /\ mtx = Nobody  BY <2>2 DEF UpdateMeta
    <3>2. CASE InsertMeta(t)
      BY <2>1, <3>1, <3>2 DEF InsertMeta, Goto, MutexInv
    <3>3. CASE AppendMeta(t)
      BY <2>1, <3>1, <3>3 DEF AppendMeta, Goto, dramVars, MutexInv
    <3> QED  BY <2>2, <3>2, <3>3 DEF UpdateMeta
  <2>3. CASE UpdateTotal(t)
    BY <2>1, <2>3 DEF UpdateTotal, Goto, MutexInv
  <2>4. CASE UpdateLength(t)
    BY <2>1, <2>4 DEF UpdateLength, Goto, MutexInv
  <2>5. CASE ~(UpdateMeta(t) \/ UpdateTotal(t) \/ UpdateLength(t))
    <3>1. mtx' = mtx  BY <1>1, <2>5, PutIndexFrame DEF dramVars
    <3>2. ~Holding(t) /\ ~Holding(t)'
      BY <1>1, <2>1, <2>5
      DEF PutNext, PutStep, PutAlloc, PutFill, PutReadTail, PutSetHead,
          PutLoadTail, PutLink, PutSetTail, PutLoadBytes, PutStoreBytes,
          PutReturn, Goto
    <3> QED  BY <2>1, <3>1, <3>2 DEF MutexInv
  <2> QED  BY <2>2, <2>3, <2>4, <2>5
<1>2. ASSUME NEW r \in Readers, ReaderNext(r) PROVE MutexInv'
  BY <1>2, ReaderFrame DEF MutexInv, dramVars
<1>3. CASE CloserNext
  <2>1. pc' = pc /\ fa \in CloserLocals
    BY <1>3, CloserFrame DEF TypeOK, CloserType
  <2>2. CASE FreeMetaLock
    <3>1. mtx = Nobody /\ mtx' = Closer /\ fa'.pc = "freeMeta"
      BY <2>1, <2>2 DEF FreeMetaLock, CloserLocals
    <3>2. \A t \in Threads : ~Holding(t) /\ t # Closer
      BY <3>1 DEF MutexInv
    <3> QED  BY <2>1, <3>1, <3>2 DEF MutexInv
  <2>3. CASE FreeMetaDone
    <3>1. /\ fa.pc = "freeMeta"
          /\ \/ mtx' = mtx /\ fa' = fa
             \/ mtx' = Nobody /\ fa' = IdleCloser
             \/ /\ mtx' = Nobody
                /\ fa' = [fa EXCEPT !.pc = "metaLock", !.stage = "destroy"]
      BY <2>3 DEF FreeMetaDone
    <3>3. IdleCloser.pc = "idle"  BY DEF IdleCloser
    <3>4. [fa EXCEPT !.pc = "metaLock", !.stage = "destroy"].pc = "metaLock"
      BY <2>1 DEF CloserLocals
    <3>2. mtx = Closer /\ \A t \in Threads : ~Holding(t) /\ t # Nobody
      BY <3>1 DEF MutexInv
    <3> QED  BY <2>1, <3>1, <3>2, <3>3, <3>4 DEF MutexInv
  <2>4. CASE ~(FreeMetaLock \/ FreeMetaDone)
    <3>1. mtx' = mtx /\ (fa'.pc = "freeMeta" <=> fa.pc = "freeMeta")
      BY <1>3, <2>1, <2>4
      DEF CloserNext, CloserStep, FaStart, StartDelete, UseAfterFree, Open,
          FaVisit, FaSubLoad, FaSubStore, FaClearHead, FaClearTail, FaAssert,
          FreeMetaList, dramVars, procVars, CloserLocals, IdleCloser
    <3> QED  BY <2>1, <3>1 DEF MutexInv
  <2> QED  BY <2>2, <2>3, <2>4
<1>4. CASE UNCHANGED vars  BY <1>4 DEF vars, MutexInv
<1> QED  BY <1>1, <1>2, <1>3, <1>4, NextSplit

-----------------------------------------------------------------------------
(***************************************************************************)
(* The entry of a running put.                                             *)
(***************************************************************************)
\* The entry of the put is linked into the list.
Linked(t) == pc[t] \in {"setTail", "loadBytes", "storeBytes", "meta", "total",
                        "length", "done", "failed"}

\* Once its header is stored, the entry of put t says what the caller wanted.
EntryOf(t) ==
  LET e == ent[loc[t].bep]
  IN  /\ e.key = loc[t].hash
      /\ e.size = SizeOf[loc[t].val]
      /\ e.data = 0 => AllocMayFail
      /\ e.data # 0 => pm[e.data] = loc[t].val

PutEntry ==
  \A t \in Threads :
    /\ Linked(t) => depth[loc[t].bep] > 0
    /\ pc[t] \notin {"idle", "fill"} => EntryOf(t)

\* Every step keeps what the running puts have stored: no put writes to the
\* entry of another.
LEMMA EntryStep ==
  ASSUME TypeOK, ListStructure, PutEntry, [Next]_vars
  PROVE  PutEntry'
<1> USE ConstantsAssumption DEF Linked
<1>1. ASSUME NEW t \in Threads, PutNext(t) PROVE PutEntry'
  <2>1. /\ \A u \in Threads \ {t} : pc'[u] = pc[u] /\ loc'[u] = loc[u]
        /\ pc \in [Threads -> PutLabels] /\ loc \in [Threads -> Locals]
        /\ ent \in [Addrs -> Entry] /\ depth \in [Addrs -> Nat]
    BY <1>1, PutFrame DEF TypeOK, PutType, NvmType
  <2>b. \A u \in Threads : pc[u] # "idle" => loc[u].bep \in Addrs
    BY BepInAddrs
  <2>2. ASSUME UNCHANGED pm,
               \A a \in Addrs : /\ ent'[a].key = ent[a].key
                                /\ ent'[a].size = ent[a].size
                                /\ ent'[a].data = ent[a].data
                                /\ depth[a] > 0 => depth'[a] > 0,
               pc[t] \notin {"idle", "fill"},
               pc'[t] # "idle" => /\ loc'[t].bep = loc[t].bep
                                  /\ loc'[t].hash = loc[t].hash
                                  /\ loc'[t].val = loc[t].val
                                  /\ Linked(t)' => depth'[loc[t].bep] > 0
        PROVE  PutEntry'
    <3>1. ASSUME NEW u \in Threads \ {t}
          PROVE  /\ Linked(u)' => depth'[loc'[u].bep] > 0
                 /\ pc'[u] \notin {"idle", "fill"} => EntryOf(u)'
      BY <2>1, <2>2, <2>b, <3>1 DEF PutEntry, EntryOf
    <3>2. /\ Linked(t)' => depth'[loc'[t].bep] > 0
          /\ pc'[t] \notin {"idle", "fill"} => EntryOf(t)'
      BY <2>1, <2>2, <2>b DEF PutEntry, EntryOf
    <3> QED  BY <3>1, <3>2 DEF PutEntry
  <2>3. ASSUME NEW h \in Hashes, NEW v \in Vals, PutAlloc(t, h, v)
        PROVE  PutEntry'
    <3>1. \/ pc'[t] = "fill"
          \/ UNCHANGED <<pc, loc>>
      BY <2>1, <2>3 DEF PutAlloc, Goto
    <3>2. UNCHANGED <<ent, pm, depth>>  BY <2>3 DEF PutAlloc
    <3> QED  BY <2>1, <3>1, <3>2 DEF PutEntry, EntryOf
  <2>4. CASE PutFill(t)
    <3> DEFINE b == loc[t].bep
    <3>1. /\ b \in Addrs /\ b # 0 /\ depth[b] = 0
          /\ pc'[t] = "readTail" /\ loc' = loc /\ depth' = depth
      BY <2>1, <2>4, <2>b
      DEF PutFill, Goto, ListStructure, DepthOfPuts, Private, TypeOK,
          PutWellFormed
    <3>2. /\ \A a \in Addrs \ {b} : ent'[a] = ent[a] /\ pm'[a] = pm[a]
          /\ \/ ent'[b] = Header(t, b) /\ pm'[b] = loc[t].val
             \/ ent'[b] = Header(t, 0) /\ AllocMayFail
      BY <2>1, <2>4, <3>1 DEF PutFill, TypeOK, NvmType
    <3>3. EntryOf(t)'  BY <3>1, <3>2 DEF EntryOf, Header
    <3>4. ASSUME NEW u \in Threads \ {t}, pc[u] \notin {"idle", "fill"}
          PROVE  EntryOf(u)'
      <4>1. loc[u].bep \in Addrs /\ loc[u].bep # b
        BY <2>b, <3>1, <3>4, <2>1, <2>4
        DEF PutEntry, PutFill, ListStructure, DepthOfPuts, Private, PutLabels
      <4>2. ent[loc[u].bep].data \in {0, loc[u].bep}
        BY <4>1 DEF ListStructure, LinkedComplete
      <4> QED  BY <3>1, <3>2, <3>4, <4>1, <4>2 DEF PutEntry, EntryOf
    <3>5. ASSUME NEW u \in Threads
          PROVE  /\ Linked(u)' => depth'[loc'[u].bep] > 0
                 /\ pc'[u] \notin {"idle", "fill"} => EntryOf(u)'
      BY <2>1, <3>1, <3>3, <3>4 DEF PutEntry
    <3> QED  BY <3>5 DEF PutEntry
  <2>5. CASE PutReadTail(t) \/ PutLoadTail(t)
    BY <2>1, <2>2, <2>5
    DEF PutReadTail, PutLoadTail, Goto, nvmVars, Locals
  <2>6. CASE PutSetHead(t)
    <3>1. /\ depth' = [depth EXCEPT ![loc[t].bep] = 1]
          /\ UNCHANGED <<ent, pm, loc>> /\ pc[t] = "setHead"
      BY <2>6 DEF PutSetHead
    <3>2. loc[t].bep \in Addrs  BY <2>b, <3>1
    <3> QED  BY <2>1, <2>2, <3>1, <3>2
  <2>7. CASE PutLink(t)
    <3>1. CASE UNCHANGED <<ent, depth, pc>>
      BY <2>1, <2>7, <3>1 DEF PutLink, PutEntry, EntryOf
    <3>2. CASE ~UNCHANGED <<ent, depth, pc>>
      <4>1. /\ loc[t].tl # 0 /\ pc[t] = "link" /\ UNCHANGED <<pm, loc>>
            /\ ent' = [ent EXCEPT ![loc[t].tl].next = loc[t].bep]
            /\ depth' = [depth EXCEPT ![loc[t].bep] = depth[loc[t].tl] + 1]
        BY <2>7, <3>2 DEF PutLink
      <4>2. loc[t].bep \in Addrs /\ loc[t].tl \in Addrs
        <5>1. loc[t].tl \in Pointer  BY <2>1 DEF Locals
        <5> QED  BY <4>1, <2>b, <5>1 DEF Pointer, Addrs
      <4>3. depth[loc[t].tl] \in Nat  BY <2>1, <4>2
      <4>4. \A a \in Addrs : /\ ent'[a].key = ent[a].key
                             /\ ent'[a].size = ent[a].size
                             /\ ent'[a].data = ent[a].data
        BY <2>1, <4>1, <4>2 DEF Entry
      <4>5. \A a \in Addrs : depth[a] > 0 => depth'[a] > 0
        BY <2>1, <4>1, <4>2, <4>3
      <4>6. depth'[loc[t].bep] > 0  BY <2>1, <4>1, <4>2, <4>3
      <4> QED  BY <2>2, <4>1, <4>4, <4>5, <4>6
    <3> QED  BY <3>1, <3>2
  <2>8. CASE \/ PutSetTail(t) \/ PutLoadBytes(t) \/ PutStoreBytes(t)
             \/ UpdateMeta(t) \/ UpdateTotal(t) \/ UpdateLength(t)
             \/ PutReturn(t)
    <3>1. /\ UNCHANGED <<ent, pm, depth>>
          /\ Linked(t)
          /\ pc'[t] # "idle" => /\ loc'[t].bep = loc[t].bep
                                /\ loc'[t].hash = loc[t].hash
                                /\ loc'[t].val = loc[t].val
      <4>1. CASE UpdateMeta(t)
        BY <4>1 DEF UpdateMeta, nvmVars
      <4>2. CASE PutLoadBytes(t)
        BY <2>1, <4>2 DEF PutLoadBytes, Goto, nvmVars, Locals
      <4>3. CASE PutReturn(t)
        BY <2>1, <4>3 DEF PutReturn, Goto, nvmVars
      <4>4. CASE \/ PutSetTail(t) \/ PutStoreBytes(t) \/ UpdateTotal(t)
                 \/ UpdateLength(t)
        BY <4>4 DEF PutSetTail, PutStoreBytes, UpdateTotal, UpdateLength,
                    nvmVars
      <4> QED  BY <2>8, <4>1, <4>2, <4>3, <4>4
    <3>2. depth[loc[t].bep] > 0  BY <3>1 DEF PutEntry
    <3> QED  BY <2>2, <3>1, <3>2
  <2> QED
    BY <1>1, <2>3, <2>4, <2>5, <2>6, <2>7, <2>8 DEF PutNext, PutStep
<1>2. ASSUME NEW r \in Readers, ReaderNext(r) PROVE PutEntry'
  BY <1>2, ReaderFrame DEF PutEntry, EntryOf, nvmVars
<1>3. CASE CloserNext
  BY <1>3, CloserFrame DEF PutEntry, EntryOf
<1>4. CASE UNCHANGED vars  BY <1>4 DEF vars, PutEntry, EntryOf
<1> QED  BY <1>1, <1>2, <1>3, <1>4, NextSplit

-----------------------------------------------------------------------------
(***************************************************************************)
(* The lists of the index.                                                 *)
(***************************************************************************)
\* What update_meta does: nothing, when malloc fails, or it appends a
\* block_meta to the list of its key.
Updated(t) ==
  LET h == loc[t].hash
      m == BlockMeta(loc[t].bep)
      l == index[h].list
  IN  /\ h \in Hashes /\ m \in Meta /\ l \in Seq(Meta)
      /\ m.size = SizeOf[loc[t].val]
      /\ m.off = 0 \/ depth[m.off] > 0
      /\ mtx = Nobody /\ pc[t] = "meta" /\ loc' = loc
      /\ \/ /\ UNCHANGED <<index, mtx>> /\ pc'[t] = "failed"
            /\ MallocMayFail
         \/ /\ l = <<>> /\ mtx' = mtx /\ pc'[t] = "done"
            /\ index' = [index EXCEPT ![h] =
                           [list |-> Append(l, m), total_size |-> m.size,
                            length |-> 1]]
         \/ /\ l # <<>> /\ mtx' = t /\ pc'[t] = "total"
            /\ index' = [index EXCEPT ![h] =
                           [list |-> Append(l, m),
                            total_size |-> index[h].total_size,
                            length |-> index[h].length]]

\* update_meta files the entry under the key its put was called with.
LEMMA UpdateMetaEffect ==
  ASSUME TypeOK, ListStructure, PutEntry, NEW t \in Threads, UpdateMeta(t)
  PROVE  Updated(t)
<1> DEFINE h == loc[t].hash
           b == loc[t].bep
           m == BlockMeta(b)
           l == index[h].list
<1> USE DEF UpdateMeta
<1>1. /\ pc[t] = "meta" /\ mtx = Nobody /\ loc' = loc
      /\ pc \in [Threads -> PutLabels]
  BY DEF TypeOK, PutType
<1>2. /\ b \in Addrs /\ ent[b] \in Entry /\ index[h] \in MetaList
      /\ h \in Hashes /\ l \in Seq(Meta)
  BY <1>1, BepInAddrs
  DEF TypeOK, PutWellFormed, NvmType, IndexType, MetaList
<1>3. ent[b].key = h /\ ent[b].size = SizeOf[loc[t].val] /\ depth[b] > 0
  BY <1>1 DEF PutEntry, EntryOf, Linked
<1>4. m \in Meta /\ m.size = SizeOf[loc[t].val] /\ m.off = ent[b].data
  BY <1>2, <1>3 DEF BlockMeta, Meta, Entry, Pointer
<1>5. m.off = 0 \/ depth[m.off] > 0
  BY <1>2, <1>3, <1>4 DEF ListStructure, LinkedComplete
<1>6. CASE InsertMeta(t)
  <2>1. \/ /\ l = <<>> /\ index' = [index EXCEPT ![h] = NewList(b)]
           /\ pc'[t] = "done" /\ mtx' = mtx
        \/ /\ pc'[t] = "failed" /\ UNCHANGED <<index, mtx>>
           /\ MallocMayFail
    BY <1>1, <1>3, <1>6 DEF InsertMeta, Contains, Goto
  <2>2. NewList(b) = [list |-> <<m>>, total_size |-> m.size, length |-> 1]
    BY <1>3, <1>4 DEF NewList
  <2>3. l = <<>> => <<m>> = Append(l, m)  OBVIOUS
  <2> QED  BY <1>1, <1>2, <1>4, <1>5, <2>1, <2>2, <2>3 DEF Updated
<1>7. CASE AppendMeta(t)
  <2>1. \/ /\ l # <<>>
           /\ index' = [index EXCEPT ![h].list = Append(l, m)]
           /\ pc'[t] = "total" /\ mtx' = t
        \/ /\ pc'[t] = "failed" /\ UNCHANGED <<index, mtx>>
           /\ MallocMayFail
    BY <1>1, <1>2, <1>3, <1>7 DEF AppendMeta, Contains, Goto, Link, dramVars
  <2>2. \A r \in MetaList : \A x :
          [r EXCEPT !.list = x] =
            [list |-> x, total_size |-> r.total_size, length |-> r.length]
    BY DEF MetaList
  <2> QED  BY <1>1, <1>2, <1>4, <1>5, <2>1, <2>2 DEF Updated
<1> QED  BY <1>6, <1>7

\* What the two steps after it do to the counts.
LEMMA UpdateCountsEffect ==
  ASSUME TypeOK, PutEntry, NEW t \in Threads, UpdateTotal(t) \/ UpdateLength(t)
  PROVE  LET h == loc[t].hash
             m == index[h]
         IN  /\ h \in Hashes /\ m \in MetaList /\ loc' = loc
             /\ \/ /\ pc[t] = "total" /\ pc'[t] = "length" /\ mtx' = mtx
                   /\ index' = [index EXCEPT ![h] =
                         [list |-> m.list, length |-> m.length,
                          total_size |-> m.total_size + SizeOf[loc[t].val]]]
                \/ /\ pc[t] = "length" /\ pc'[t] = "done" /\ mtx' = Nobody
                   /\ index' = [index EXCEPT ![h] =
                         [list |-> m.list, length |-> m.length + 1,
                          total_size |-> m.total_size]]
<1> DEFINE h == loc[t].hash
           m == index[h]
<1>1. pc[t] \in {"total", "length"} /\ loc' = loc
      /\ pc \in [Threads -> PutLabels]
  BY DEF UpdateTotal, UpdateLength, TypeOK, PutType
<1>2. h \in Hashes /\ m \in MetaList
  BY <1>1 DEF TypeOK, PutWellFormed, IndexType
<1>3. ent[loc[t].bep].key = h /\ ent[loc[t].bep].size = SizeOf[loc[t].val]
  BY <1>1 DEF PutEntry, EntryOf
<1>4. CASE UpdateTotal(t)
  <2>1. [m EXCEPT !.total_size = @ + SizeOf[loc[t].val]] =
          [list |-> m.list, length |-> m.length,
           total_size |-> m.total_size + SizeOf[loc[t].val]]
    BY <1>2 DEF MetaList
  <2>2. index' = [index EXCEPT ![h] =
                    [m EXCEPT !.total_size = @ + SizeOf[loc[t].val]]]
    BY <1>2, <1>3, <1>4 DEF UpdateTotal
  <2> QED  BY <1>1, <1>2, <1>4, <2>1, <2>2 DEF UpdateTotal, Goto
<1>5. CASE UpdateLength(t)
  <2>1. [m EXCEPT !.length = @ + 1] =
          [list |-> m.list, length |-> m.length + 1,
           total_size |-> m.total_size]
    BY <1>2 DEF MetaList
  <2>2. index' = [index EXCEPT ![h] = [m EXCEPT !.length = @ + 1]]
    BY <1>2, <1>3, <1>5 DEF UpdateLength
  <2> QED  BY <1>1, <1>2, <1>5, <2>1, <2>2 DEF UpdateLength, Goto
<1> QED  BY <1>4, <1>5

\* The closer empties lists: one at a time with mtx held, or all of them when
\* a new pmemkv is opened.
LEMMA CloserIndexFrame ==
  ASSUME CloserNext
  PROVE  \/ index' = index
         \/ \E h \in Hashes : FreeMetaList(h)
         \/ Open
  BY DEF CloserNext, CloserStep, FaStart, StartDelete, UseAfterFree, FaVisit,
         FaSubLoad, FaSubStore, FaClearHead, FaClearTail, FaAssert,
         FreeMetaLock, FreeMetaDone, dramVars

\* A block_meta that update_meta could allocate is at the end of its list; no
\* other list has changed.
LEMMA UpdateMetaList ==
  ASSUME TypeOK, ListStructure, PutEntry, NEW t \in Threads, UpdateMeta(t),
         pc'[t] # "failed"
  PROVE  LET h == loc[t].hash
             m == BlockMeta(loc[t].bep)
         IN  /\ pc'[t] \in {"total", "done"}
             /\ index'[h].list = Append(index[h].list, m)
             /\ \A g \in Hashes \ {h} : index'[g].list = index[g].list
<1> DEFINE h == loc[t].hash
           m == BlockMeta(loc[t].bep)
           l == index[h].list
<1>0. Updated(t) /\ index \in [Hashes -> MetaList]
  BY UpdateMetaEffect DEF TypeOK, IndexType
<1>1. h \in Hashes /\ pc'[t] \in {"total", "done"}  BY <1>0 DEF Updated
<1> DEFINE new == Append(l, m)
<1>2. \E n, k : index' = [index EXCEPT ![h] =
                   [list |-> new, total_size |-> k, length |-> n]]
  <2>1. CASE pc'[t] = "done"
    <3>1. index' = [index EXCEPT ![h] =
                      [list |-> new, total_size |-> m.size, length |-> 1]]
      BY <1>0, <2>1 DEF Updated
    <3> HIDE DEF new, m, h
    <3> QED  BY <3>1
  <2>2. CASE pc'[t] = "total"
    <3>1. index' = [index EXCEPT ![h] =
                      [list |-> new, total_size |-> index[h].total_size,
                       length |-> index[h].length]]
      BY <1>0, <2>2 DEF Updated
    <3> HIDE DEF new, m, h
    <3> QED  BY <3>1
  <2> QED  BY <1>1, <2>1, <2>2
<1> HIDE DEF new
<1>3. /\ index'[h].list = new
      /\ \A g \in Hashes \ {h} : index'[g].list = index[g].list
  BY <1>0, <1>1, <1>2
<1> QED  BY <1>1, <1>3 DEF new

\* The lists after a step: one has grown by the block_meta of a running put,
\* or has been emptied, or all have been, or nothing has changed.
LEMMA ListsStep ==
  ASSUME TypeOK, ListStructure, PutEntry, [Next]_vars
  PROVE  \/ \E t \in Threads :
              LET h == loc[t].hash
                  m == BlockMeta(loc[t].bep)
              IN  /\ UpdateMeta(t)
                  /\ pc'[t] \in {"total", "done"}
                  /\ index'[h].list = Append(index[h].list, m)
                  /\ \A g \in Hashes \ {h} : index'[g].list = index[g].list
         \/ \E h \in Hashes :
              /\ FreeMetaList(h)
              /\ index'[h].list = <<>>
              /\ \A g \in Hashes \ {h} : index'[g].list = index[g].list
         \/ Open /\ \A h \in Hashes : index'[h].list = <<>>
         \/ \A h \in Hashes : index'[h].list = index[h].list
<1>0. index \in [Hashes -> MetaList]  BY DEF TypeOK, IndexType
<1>2. ASSUME NEW t \in Threads, PutNext(t),
             ~(UpdateMeta(t) /\ pc'[t] # "failed")
      PROVE  \A h \in Hashes : index'[h].list = index[h].list
  <2>1. CASE UpdateTotal(t) \/ UpdateLength(t)
    <3> DEFINE h == loc[t].hash
               m == index[h]
    <3>1. /\ h \in Hashes
          /\ \E n, k : index' = [index EXCEPT ![h] =
                         [list |-> m.list, length |-> n, total_size |-> k]]
      BY <2>1, UpdateCountsEffect
    <3> QED  BY <1>0, <3>1
  <2>2. CASE UpdateMeta(t)
    BY <2>2, <1>2, UpdateMetaEffect DEF Updated
  <2> QED  BY <1>2, <2>1, <2>2, PutIndexFrame DEF dramVars
<1>3. ASSUME NEW r \in Readers, ReaderNext(r) PROVE index' = index
  BY <1>3, ReaderFrame DEF dramVars
<1>4. ASSUME NEW h \in Hashes, FreeMetaList(h)
      PROVE  /\ index'[h].list = <<>>
             /\ \A g \in Hashes \ {h} : index'[g].list = index[g].list
  BY <1>0, <1>4 DEF FreeMetaList, EmptyList
<1>5. ASSUME Open PROVE \A h \in Hashes : index'[h].list = <<>>
  BY <1>5 DEF Open, EmptyList
<1>6. CASE UNCHANGED vars  BY <1>6 DEF vars
<1>7. CASE CloserNext  BY <1>7, <1>4, <1>5, CloserIndexFrame
<1>8. ASSUME NEW t \in Threads, PutNext(t)
      PROVE \/ LET h == loc[t].hash
                  m == BlockMeta(loc[t].bep)
              IN  /\ UpdateMeta(t)
                  /\ pc'[t] \in {"total", "done"}
                  /\ index'[h].list = Append(index[h].list, m)
                  /\ \A g \in Hashes \ {h} : index'[g].list = index[g].list
            \/ \A h \in Hashes : index'[h].list = index[h].list
  <2>1. CASE UpdateMeta(t) /\ pc'[t] # "failed"  BY <2>1, UpdateMetaList
  <2>2. CASE ~(UpdateMeta(t) /\ pc'[t] # "failed")  BY <1>2, <1>8, <2>2
  <2> QED  BY <2>1, <2>2
<1> QED  BY <1>3, <1>6, <1>7, <1>8, NextSplit

-----------------------------------------------------------------------------
\* What Append does to a list of block_metas.
LEMMA AppendParts ==
  ASSUME NEW l \in Seq(Meta), NEW m \in Meta
  PROVE  /\ Append(l, m) \in Seq(Meta)
         /\ Len(l) \in Nat /\ Len(Append(l, m)) = Len(l) + 1
         /\ \A i \in 1 .. Len(l) : Append(l, m)[i] = l[i]
         /\ Append(l, m)[Len(l) + 1] = m
  OBVIOUS

\* A linked entry stays linked.
LEMMA DepthStays ==
  ASSUME TypeOK, [Next]_vars, NEW a \in Addrs, depth[a] > 0
  PROVE  depth'[a] > 0
<1>0. depth \in [Addrs -> Nat]  BY DEF TypeOK, NvmType
<1>1. ASSUME NEW t \in Threads, PutNext(t) PROVE depth'[a] > 0
  <2>1. CASE PutSetHead(t)  BY <1>0, <2>1 DEF PutSetHead
  <2>2. CASE PutLink(t)
    <3>1. CASE loc[t].tl # 0
      <4>1. loc[t].tl \in Pointer  BY DEF TypeOK, PutType, Locals
      <4>2. loc[t].tl \in Addrs
        BY <3>1, <4>1, ConstantsAssumption DEF Pointer, Addrs
      <4>3. depth[loc[t].tl] + 1 > 0  BY <1>0, <4>2
      <4> QED  BY <1>0, <2>2, <3>1, <4>3 DEF PutLink
    <3> QED  BY <2>2, <3>1 DEF PutLink
  <2>3. CASE ~(PutSetHead(t) \/ PutLink(t))
    BY <1>1, <2>3
    DEF PutNext, PutStep, PutAlloc, PutFill, PutReadTail, PutLoadTail,
        PutSetTail, PutLoadBytes, PutStoreBytes, UpdateMeta, UpdateTotal,
        UpdateLength, PutReturn, nvmVars
  <2> QED  BY <2>1, <2>2, <2>3
<1>2. ASSUME NEW r \in Readers, ReaderNext(r) PROVE depth' = depth
  BY <1>2, ReaderFrame DEF nvmVars
<1>3. CASE CloserNext  BY <1>3, CloserFrame
<1>4. CASE UNCHANGED vars  BY <1>4 DEF vars
<1> QED  BY <1>1, <1>2, <1>3, <1>4, NextSplit

\* A data block that the index refers to belongs to a linked entry: no put is
\* still going to store it.
IndexFilled ==
  \A h \in Hashes : \A i \in 1 .. Len(index[h].list) :
    \/ index[h].list[i].off = 0
    \/ depth[index[h].list[i].off] > 0

\* Only update_meta adds to the index, and its entry is linked.
LEMMA IndexFilledStep ==
  ASSUME TypeOK, ListStructure, PutEntry, IndexFilled, [Next]_vars
  PROVE  IndexFilled'
<1> DEFINE Filled(m) == m.off = 0 \/ depth[m.off] > 0
           Filled1(m) == m.off = 0 \/ depth'[m.off] > 0
<1>1. ASSUME NEW m \in Meta, Filled(m) PROVE Filled1(m)
  BY <1>1, DepthStays, ConstantsAssumption DEF Meta, Addrs
<1>2. ASSUME NEW h \in Hashes, index'[h].list = index[h].list,
             NEW i \in 1 .. Len(index'[h].list)
      PROVE  Filled1(index'[h].list[i])
  <2>1. index[h].list \in Seq(Meta)  BY DEF TypeOK, IndexType, MetaList
  <2>2. index[h].list[i] \in Meta  BY <1>2, <2>1
  <2>3. Filled(index[h].list[i])  BY <1>2 DEF IndexFilled
  <2> QED  BY <1>1, <1>2, <2>2, <2>3
<1>3. ASSUME NEW h \in Hashes, index'[h].list = <<>>,
             NEW i \in 1 .. Len(index'[h].list)
      PROVE  Filled1(index'[h].list[i])
  BY <1>3
<1>4. ASSUME NEW t \in Threads, UpdateMeta(t),
             index'[loc[t].hash].list =
               Append(index[loc[t].hash].list, BlockMeta(loc[t].bep)),
             NEW i \in 1 .. Len(index'[loc[t].hash].list)
      PROVE  Filled1(index'[loc[t].hash].list[i])
  <2> DEFINE h == loc[t].hash
             l == index[h].list
             m == BlockMeta(loc[t].bep)
  <2>0. Updated(t)  BY <1>4, UpdateMetaEffect
  <2>1. /\ h \in Hashes /\ m \in Meta /\ l \in Seq(Meta) /\ Filled(m)
        /\ index'[h].list = Append(l, m)
    BY <1>4, <2>0 DEF Updated
  <2> HIDE DEF m
  <2>2. CASE i = Len(l) + 1
    <3>1. Append(l, m)[i] = m  BY <2>1, <2>2, AppendParts
    <3>2. index'[h].list[i] = m  BY <2>1, <3>1
    <3> QED  BY <1>1, <2>1, <3>2
  <2>3. CASE i # Len(l) + 1
    <3>0. Len(Append(l, m)) = Len(l) + 1 /\ Len(l) \in Nat
      BY <2>1, AppendParts
    <3>1. i \in 1 .. Len(l)  BY <1>4, <2>1, <2>3, <3>0
    <3>2. index'[h].list[i] = l[i] /\ l[i] \in Meta
      BY <2>1, <3>1, AppendParts
    <3>3. Filled(l[i])  BY <2>1, <3>1 DEF IndexFilled
    <3> QED  BY <1>1, <3>2, <3>3
  <2> QED  BY <2>2, <2>3
<1> HIDE DEF Filled1
<1>5. \A h \in Hashes : \A i \in 1 .. Len(index'[h].list) :
        Filled1(index'[h].list[i])
  BY <1>2, <1>3, <1>4, ListsStep
<1> QED  BY <1>5 DEF IndexFilled, Filled1

\* A deleted pmemkv has an empty index.
DeletedEmpty == life = "deleted" => \A h \in Hashes : index[h].list = <<>>

\* The destructor's free_meta has emptied the index, and nobody fills it.
LEMMA DeletedEmptyStep ==
  ASSUME TypeOK, DeletedEmpty, [Next]_vars
  PROVE  DeletedEmpty'
<1>1. ASSUME NEW t \in Threads, PutNext(t) PROVE DeletedEmpty'
  BY <1>1, PutFrame DEF Running, DeletedEmpty
<1>2. ASSUME NEW r \in Readers, ReaderNext(r) PROVE DeletedEmpty'
  BY <1>2, ReaderFrame DEF DeletedEmpty, dramVars
<1>3. CASE FreeMetaDone
  BY <1>3 DEF FreeMetaDone, Contains, Running, DeletedEmpty
<1>4. CASE CloserNext /\ ~FreeMetaDone
  BY <1>4
  DEF CloserNext, CloserStep, FaStart, StartDelete, UseAfterFree, Open,
      FaVisit, FaSubLoad, FaSubStore, FaClearHead, FaClearTail, FaAssert,
      FreeMetaLock, FreeMetaList, Running, lifeVars, dramVars, DeletedEmpty
<1>5. CASE UNCHANGED vars  BY <1>5 DEF vars, DeletedEmpty
<1> QED  BY <1>1, <1>2, <1>3, <1>4, <1>5, NextSplit

-----------------------------------------------------------------------------
(***************************************************************************)
(* The counts of the index.                                                *)
(***************************************************************************)
\* length and total_size are those of the first j and the first k blocks.
Counted(m, j, k) == m.length = j /\ m.total_size = BytesOf(m.list, k)

\* The counts of a list are one block behind while the holder of mtx has
\* linked it and not counted it, and exact otherwise.
CountsInv ==
  /\ \A t \in Threads :
       LET m == index[loc[t].hash]
           n == Len(m.list)
       IN  /\ pc[t] = "total" => /\ n > 0
                                 /\ m.list[n].size = SizeOf[loc[t].val]
                                 /\ Counted(m, n - 1, n - 1)
           /\ pc[t] = "length" => n > 0 /\ Counted(m, n - 1, n)
  /\ \A h \in Hashes :
       (\A t \in Threads : Holding(t) => loc[t].hash # h) =>
         Counted(index[h], Len(index[h].list), Len(index[h].list))

\* When nobody holds mtx, all counts are exact.
LEMMA AllCounted ==
  ASSUME CountsInv, \A t \in Threads : ~Holding(t), NEW h \in Hashes
  PROVE  Counted(index[h], Len(index[h].list), Len(index[h].list))
  BY DEF CountsInv

\* A block more: the bytes before it do not change, and its own are added.
LEMMA BytesOfAppend ==
  ASSUME NEW l \in Seq(Meta), NEW m \in Meta
  PROVE  /\ \A k \in 0 .. Len(l) : BytesOf(Append(l, m), k) = BytesOf(l, k)
         /\ BytesOf(Append(l, m), Len(l) + 1) = BytesOf(l, Len(l)) + m.size
<1> DEFINE a == Append(l, m)
<1>1. /\ a \in Seq(Meta) /\ Len(a) = Len(l) + 1 /\ Len(l) \in Nat
      /\ \A i \in 1 .. Len(l) : a[i] = l[i]
      /\ a[Len(l) + 1] = m
  BY AppendParts
<1> HIDE DEF a
<1>2. \A k \in 0 .. Len(l) : BytesOf(a, k) = BytesOf(l, k)
  BY <1>1, BytesOfPrefix
<1>3. BytesOf(a, Len(l) + 1) = BytesOf(a, (Len(l) + 1) - 1) + m.size
  BY <1>1, BytesOfStep
<1>4. (Len(l) + 1) - 1 = Len(l) /\ Len(l) \in 0 .. Len(l)  BY <1>1
<1>5. BytesOf(a, Len(l) + 1) = BytesOf(l, Len(l)) + m.size
  BY <1>2, <1>3, <1>4
<1> QED  BY <1>2, <1>5 DEF a

\* The counts follow the lists, block by block, under mtx.
LEMMA CountsStep ==
  ASSUME TypeOK, ListStructure, MutexInv, PutEntry, CountsInv, [Next]_vars
  PROVE  CountsInv'
<1>0. index \in [Hashes -> MetaList]  BY DEF TypeOK, IndexType
<1>1. ASSUME index' = index,
             \A t \in Threads :
               \/ pc'[t] = pc[t] /\ loc'[t] = loc[t]
               \/ ~Holding(t) /\ ~Holding(t)'
      PROVE  CountsInv'
  <2>1. \A t \in Threads : Holding(t)' <=> Holding(t)
    BY <1>1 DEF Holding
  <2>2. \A t \in Threads : Holding(t)' => pc'[t] = pc[t] /\ loc'[t] = loc[t]
    BY <1>1
  <2>3. ASSUME NEW h \in Hashes,
               \A t \in Threads : Holding(t)' => loc'[t].hash # h
        PROVE  Counted(index[h], Len(index[h].list), Len(index[h].list))'
    <3>1. \A t \in Threads : Holding(t) => loc[t].hash # h
      BY <2>1, <2>2, <2>3
    <3> QED  BY <1>1, <3>1 DEF CountsInv, Counted
  <2>4. ASSUME NEW t \in Threads, Holding(t)'
        PROVE  pc'[t] = pc[t] /\ loc'[t] = loc[t]
    BY <2>2, <2>4
  <2>5. ASSUME NEW t \in Threads
        PROVE  LET m == index'[loc'[t].hash]
                   n == Len(m.list)
               IN  /\ pc'[t] = "total" => /\ n > 0
                                          /\ m.list[n].size = SizeOf[loc'[t].val]
                                          /\ Counted(m, n - 1, n - 1)
                   /\ pc'[t] = "length" => n > 0 /\ Counted(m, n - 1, n)
    <3>1. CASE Holding(t)'
      <4>1. pc'[t] = pc[t] /\ loc'[t] = loc[t]  BY <2>4, <3>1
      <4> QED  BY <1>1, <4>1 DEF CountsInv
    <3> QED  BY <3>1 DEF Holding
  <2> QED  BY <2>3, <2>5 DEF CountsInv, Counted
<1>2. ASSUME NEW t \in Threads, UpdateMeta(t), pc'[t] # "failed"
      PROVE  CountsInv'
  <2> DEFINE h == loc[t].hash
             m == BlockMeta(loc[t].bep)
             l == index[h].list
             n == Len(l)
  <2>0. Updated(t) /\ \A u \in Threads \ {t} : pc'[u] = pc[u]
    BY <1>2, UpdateMetaEffect, PutFrame DEF PutNext, PutStep
  <2>1. /\ h \in Hashes /\ m \in Meta /\ l \in Seq(Meta) /\ n \in Nat
        /\ m.size = SizeOf[loc[t].val] /\ loc' = loc
        /\ \A u \in Threads \ {t} : pc'[u] = pc[u]
        /\ \/ /\ l = <<>> /\ pc'[t] = "done"
              /\ index' = [index EXCEPT ![h] =
                             [list |-> Append(l, m), total_size |-> m.size,
                              length |-> 1]]
           \/ /\ pc'[t] = "total"
              /\ index' = [index EXCEPT ![h] =
                             [list |-> Append(l, m),
                              total_size |-> index[h].total_size,
                              length |-> index[h].length]]
    BY <1>2, <2>0 DEF Updated
  <2>2. \A u \in Threads : ~Holding(u)
    BY <1>2, ConstantsAssumption DEF MutexInv, UpdateMeta
  <2>3. Counted(index[h], n, n)  BY <2>1, <2>2, AllCounted
  <2> HIDE DEF m
  <2>4. CASE pc'[t] = "done"
    <3>1. /\ l = <<>>
          /\ index' = [index EXCEPT ![h] =
                         [list |-> Append(l, m), total_size |-> m.size,
                          length |-> 1]]
      BY <2>1, <2>4
    <3>2. /\ index'[h].list = Append(l, m) /\ Len(Append(l, m)) = 1
          /\ BytesOf(Append(l, m), 1) = m.size
      <4>1. n = 0 /\ BytesOf(l, 0) = 0 /\ m.size \in Nat
        BY <2>1, <3>1, BytesOfStep DEF Meta
      <4>2. BytesOf(Append(l, m), n + 1) = BytesOf(l, n) + m.size
        BY <2>1, BytesOfAppend
      <4>3. Len(Append(l, m)) = n + 1  BY <2>1, AppendParts
      <4>4. index'[h].list = Append(l, m)  BY <1>0, <2>1, <3>1
      <4> QED  BY <4>1, <4>2, <4>3, <4>4
    <3>3. Counted(index'[h], 1, 1)
      BY <1>0, <2>1, <3>1, <3>2 DEF Counted
    <3>4. \A g \in Hashes \ {h} : index'[g] = index[g]  BY <1>0, <3>1
    <3>5. \A u \in Threads : ~Holding(u)'
      BY <2>1, <2>2, <2>4 DEF Holding
    <3>6. \A g \in Hashes : Counted(index'[g], Len(index'[g].list), Len(index'[g].list))
      BY <2>2, <3>2, <3>3, <3>4, AllCounted
    <3> QED  BY <3>5, <3>6 DEF CountsInv, Counted, Holding
  <2>5. CASE pc'[t] = "total"
    <3>1. index' = [index EXCEPT ![h] =
                      [list |-> Append(l, m),
                       total_size |-> index[h].total_size,
                       length |-> index[h].length]]
      BY <2>1, <2>5
    <3>2. /\ index'[h].list = Append(l, m)
          /\ index'[h].total_size = index[h].total_size
          /\ index'[h].length = index[h].length
          /\ \A g \in Hashes \ {h} : index'[g] = index[g]
      BY <1>0, <2>1, <3>1
    <3>3. Len(index'[h].list) = n + 1 /\ index'[h].list[n + 1] = m
      <4>1. m \in Meta /\ l \in Seq(Meta)  BY <2>1
      <4>2. Len(Append(l, m)) = n + 1 /\ Append(l, m)[n + 1] = m
        BY <4>1, AppendParts
      <4> QED  BY <3>2, <4>2
    <3>4. BytesOf(index'[h].list, n) = BytesOf(l, n)
      <4>0. /\ l \in Seq(Meta) /\ m \in Meta /\ n \in 0 .. n
            /\ n = Len(l)
        BY <2>1
      <4> HIDE DEF l, n
      <4>1. BytesOf(Append(l, m), n) = BytesOf(l, n)
        BY <4>0, BytesOfAppend
      <4> QED  BY <3>2, <4>1
    <3>5. (n + 1) - 1 = n /\ n + 1 > 0  BY <2>1
    <3>6. Counted(index'[h], n, n)  BY <2>3, <3>2, <3>4 DEF Counted
    <3>7. \A u \in Threads \ {t} : ~Holding(u)'
      BY <2>1, <2>2 DEF Holding
    <3>8. \A g \in Hashes \ {h} :
            Counted(index'[g], Len(index'[g].list), Len(index'[g].list))
      BY <2>2, <3>2, AllCounted
    <3>9. /\ Len(index'[h].list) > 0
          /\ index'[h].list[Len(index'[h].list)].size = SizeOf[loc[t].val]
          /\ Counted(index'[h], Len(index'[h].list) - 1,
                     Len(index'[h].list) - 1)
      BY <2>1, <3>3, <3>5, <3>6
    <3> QED
      BY <2>1, <2>5, <3>7, <3>8, <3>9 DEF CountsInv, Holding, Counted
  <2> QED  BY <2>1, <2>4, <2>5
<1>3. ASSUME NEW t \in Threads, UpdateTotal(t) \/ UpdateLength(t)
      PROVE  CountsInv'
  <2> DEFINE h == loc[t].hash
             m == index[h]
             n == Len(m.list)
             s == SizeOf[loc[t].val]
  <2>1. /\ h \in Hashes /\ m \in MetaList /\ loc' = loc
        /\ \A u \in Threads \ {t} : pc'[u] = pc[u]
        /\ \/ /\ pc[t] = "total" /\ pc'[t] = "length"
              /\ index' = [index EXCEPT ![h] =
                     [list |-> m.list, length |-> m.length,
                      total_size |-> m.total_size + s]]
           \/ /\ pc[t] = "length" /\ pc'[t] = "done"
              /\ index' = [index EXCEPT ![h] =
                     [list |-> m.list, length |-> m.length + 1,
                      total_size |-> m.total_size]]
    BY <1>3, UpdateCountsEffect, PutFrame DEF PutNext, PutStep
  <2>2. \A u \in Threads \ {t} : ~Holding(u) /\ ~Holding(u)'
    BY <2>1 DEF MutexInv, Holding
  <2>3. m.list \in Seq(Meta) /\ n \in Nat  BY <2>1 DEF MetaList
  <2>4. /\ index'[h].list = m.list
        /\ \A g \in Hashes \ {h} : index'[g] = index[g]
    BY <1>0, <2>1
  <2>5. \A g \in Hashes \ {h} : Counted(index'[g], Len(index'[g].list), Len(index'[g].list))
    BY <2>2, <2>4 DEF CountsInv
  <2>6. CASE pc[t] = "total"
    <3>1. n > 0 /\ m.list[n].size = s /\ Counted(m, n - 1, n - 1)
      BY <2>6 DEF CountsInv
    <3>2. BytesOf(m.list, n) = BytesOf(m.list, n - 1) + s
      BY <2>3, <3>1, BytesOfStep
    <3>3. index'[h].total_size = m.total_size + s /\ index'[h].length = m.length
      BY <1>0, <2>1, <2>6
    <3>4. Counted(index'[h], n - 1, n)
      BY <2>4, <3>1, <3>2, <3>3 DEF Counted
    <3>5. pc'[t] = "length"  BY <2>1, <2>6
    <3> QED
      BY <2>1, <2>2, <2>4, <2>5, <3>1, <3>4, <3>5 DEF CountsInv, Holding, Counted
  <2>7. CASE pc[t] = "length"
    <3>1. n > 0 /\ Counted(m, n - 1, n)
      BY <2>7 DEF CountsInv
    <3>2. index'[h].total_size = m.total_size /\ index'[h].length = m.length + 1
      BY <1>0, <2>1, <2>7
    <3>3. Counted(index'[h], n, n)
      BY <2>3, <2>4, <3>1, <3>2 DEF Counted
    <3>4. \A u \in Threads : ~Holding(u)'  BY <2>1, <2>2, <2>7 DEF Holding
    <3>5. \A g \in Hashes : Counted(index'[g], Len(index'[g].list), Len(index'[g].list))
      BY <2>4, <2>5, <3>3
    <3> QED  BY <3>4, <3>5 DEF CountsInv, Holding, Counted
  <2> QED  BY <2>1, <2>6, <2>7
<1>4. ASSUME \A t \in Threads : ~Holding(t)',
             \A g \in Hashes : index'[g] \in {EmptyList, index[g]},
             \A t \in Threads : ~Holding(t)
      PROVE  CountsInv'
  <2>0. BytesOf(<<>>, 0) = 0
    <3>1. <<>> \in Seq(Meta)  OBVIOUS
    <3> QED  BY <3>1, BytesOfStep
  <2>1. Counted(EmptyList, 0, 0) /\ EmptyList.list = <<>>
    BY <2>0 DEF Counted, EmptyList
  <2>2. \A g \in Hashes : Counted(index'[g], Len(index'[g].list), Len(index'[g].list))
    BY <1>4, <2>1, AllCounted
  <2> QED  BY <1>4, <2>2 DEF CountsInv, Holding, Counted
<1>5. ASSUME NEW t \in Threads, PutNext(t) PROVE CountsInv'
  <2>1. CASE UpdateMeta(t) /\ pc'[t] # "failed"  BY <1>2, <2>1
  <2>2. CASE UpdateTotal(t) \/ UpdateLength(t)  BY <1>3, <2>2
  <2>3. CASE UpdateMeta(t) /\ pc'[t] = "failed"
    <3>1. index' = index /\ pc[t] = "meta"
      BY <2>3, UpdateMetaEffect DEF Updated
    <3> QED  BY <1>1, <1>5, <2>3, <3>1, PutFrame DEF Holding
  <2>4. CASE ~(UpdateMeta(t) \/ UpdateTotal(t) \/ UpdateLength(t))
    <3>1. index' = index  BY <1>5, <2>4, PutIndexFrame DEF dramVars
    <3>2. pc \in [Threads -> PutLabels]  BY DEF TypeOK, PutType
    <3>3. ~Holding(t) /\ ~Holding(t)'
      BY <1>5, <2>4, <3>2
      DEF PutNext, PutStep, PutAlloc, PutFill, PutReadTail, PutSetHead,
          PutLoadTail, PutLink, PutSetTail, PutLoadBytes, PutStoreBytes,
          PutReturn, Goto, Holding
    <3> QED  BY <1>1, <1>5, <3>1, <3>3, PutFrame
  <2> QED  BY <2>1, <2>2, <2>3, <2>4
<1>6. ASSUME NEW r \in Readers, ReaderNext(r) PROVE CountsInv'
  BY <1>1, <1>6, ReaderFrame DEF dramVars
<1>7. CASE CloserNext
  <2>0. pc' = pc /\ loc' = loc  BY <1>7, CloserFrame
  <2>1. CASE index' = index  BY <1>1, <2>0, <2>1
  <2>2. ASSUME NEW h \in Hashes, FreeMetaList(h) PROVE CountsInv'
    <3>1. \A t \in Threads : ~Holding(t)
      BY <2>2, ConstantsAssumption DEF FreeMetaList, MutexInv
    <3>2. \A t \in Threads : ~Holding(t)'  BY <2>0, <3>1 DEF Holding
    <3>3. /\ index'[h] = EmptyList
          /\ \A g \in Hashes \ {h} : index'[g] = index[g]
      BY <1>0, <2>2 DEF FreeMetaList
    <3> QED  BY <1>4, <3>1, <3>2, <3>3
  <2>3. CASE Open
    <3>1. \A t \in Threads : ~Holding(t)
      BY <2>3 DEF Open, Quiet, Holding
    <3>2. \A t \in Threads : ~Holding(t)'  BY <2>0, <3>1 DEF Holding
    <3>3. \A g \in Hashes : index'[g] = EmptyList  BY <2>3 DEF Open
    <3> QED  BY <1>4, <3>1, <3>2, <3>3
  <2> QED  BY <1>7, <2>1, <2>2, <2>3, CloserIndexFrame
<1>8. CASE UNCHANGED vars  BY <1>1, <1>8 DEF vars
<1> QED  BY <1>5, <1>6, <1>7, <1>8, NextSplit

-----------------------------------------------------------------------------
\* The index, as far as every store has it: who holds mtx, what the running
\* puts have stored, and where lists and counts stand.
IndexInv == MutexInv /\ PutEntry /\ IndexFilled /\ DeletedEmpty /\ CountsInv

\* A fresh store has an empty index and nobody in update_meta.
LEMMA IndexInit == Init => IndexInv
<1> SUFFICES ASSUME Init PROVE IndexInv  OBVIOUS
<1> USE ConstantsAssumption DEF Init
<1>1. MutexInv  BY DEF MutexInv, Holding, IdleCloser
<1>2. PutEntry  BY DEF PutEntry, Linked
<1>3. IndexFilled /\ DeletedEmpty
  BY DEF IndexFilled, DeletedEmpty, EmptyList
<1>4. CountsInv
  <2>1. BytesOf(<<>>, 0) = 0
    <3>1. <<>> \in Seq(Meta)  OBVIOUS
    <3> QED  BY <3>1, BytesOfStep
  <2>2. \A h \in Hashes :
          index[h].list = <<>> /\ index[h].length = 0 /\ index[h].total_size = 0
    BY DEF EmptyList
  <2>3. \A h \in Hashes :
          Counted(index[h], Len(index[h].list), Len(index[h].list))
    BY <2>1, <2>2 DEF Counted
  <2> QED  BY <2>3 DEF CountsInv, Counted
<1> QED  BY <1>1, <1>2, <1>3, <1>4 DEF IndexInv

\* Holds for every store, however calls, closing and failures interleave.
THEOREM IndexInvariant == Spec => []IndexInv
<1>1. Init => IndexInv  BY IndexInit
<1>2. TypeOK /\ ListStructure /\ IndexInv /\ [Next]_vars => IndexInv'
  BY MutexStep, EntryStep, IndexFilledStep, DeletedEmptyStep, CountsStep
  DEF IndexInv
<1>3. Spec => [](TypeOK /\ ListStructure)
  BY StructureInvariant, PTL
<1> QED  BY <1>1, <1>2, <1>3, PTL DEF Spec

\* length and total_size are at most one block behind the list.
LEMMA CountsBehind ==
  ASSUME TypeOK, IndexInv
  PROVE  MetaCounts
<1> SUFFICES ASSUME NEW h \in Hashes
             PROVE  LET m == index[h]
                        sum == BytesOf(m.list, Len(m.list))
                    IN  /\ m.length <= Len(m.list) /\ m.total_size <= sum
                        /\ mtx \notin Threads =>
                             m.length = Len(m.list) /\ m.total_size = sum
  BY DEF MetaCounts
<1> DEFINE m == index[h]
           n == Len(m.list)
<1>1. m.list \in Seq(Meta) /\ n \in Nat
  BY DEF TypeOK, IndexType, MetaList
<1>2. CASE \A t \in Threads : Holding(t) => loc[t].hash # h
  <2>1. Counted(m, n, n)  BY <1>2 DEF IndexInv, CountsInv
  <2>2. BytesOf(m.list, n) \in Nat  BY <1>1, BytesOfNat
  <2> QED  BY <1>1, <2>1, <2>2 DEF Counted
<1>3. CASE \E t \in Threads : Holding(t) /\ loc[t].hash = h
  <2>1. PICK t \in Threads : Holding(t) /\ loc[t].hash = h  BY <1>3
  <2>2. mtx = t  BY <2>1 DEF IndexInv, MutexInv
  <2>3. /\ n > 0
        /\ Counted(m, n - 1, n - 1) \/ Counted(m, n - 1, n)
    BY <2>1 DEF IndexInv, CountsInv, Holding
  <2>4. n - 1 \in 0 .. Len(m.list) /\ n \in (n - 1) .. Len(m.list)
    BY <1>1, <2>3
  <2>5. BytesOf(m.list, n - 1) <= BytesOf(m.list, n) /\ BytesOf(m.list, n) \in Nat
    BY <1>1, <2>4, BytesOfMonotone, BytesOfNat
  <2> QED  BY <1>1, <2>2, <2>3, <2>5 DEF Counted
<1> QED  BY <1>2, <1>3

\* Readers that load length and total_size without the lock never see more
\* than the list has, and see exact counts whenever no put holds mtx.
THEOREM CountsNeverAhead == Spec => []MetaCounts
<1>1. TypeOK /\ IndexInv => MetaCounts  BY CountsBehind
<1> QED  BY <1>1, TypeCorrect, IndexInvariant, PTL

-----------------------------------------------------------------------------
(***************************************************************************)
(* Stores that are closed only when no call is running, as the unit tests   *)
(* do it.                                                                   *)
(***************************************************************************)
\* Closing and running calls exclude each other, and a put that has seen a
\* tail finds one.
ClosedQuietly ==
  /\ fa.pc # "idle" \/ life = "deleted" => Quiet
  /\ \A t \in Threads : pc[t] = "loadTail" => base.tail # 0
  /\ \A t \in Threads : pc[t] = "link" => loc[t].tl # 0

\* A step of a call: the store is open and nobody is closing it.
LEMMA CallWhileOpen ==
  ASSUME ~CloseConcurrent, TypeOK, ClosedQuietly,
         \/ \E t \in Threads : PutNext(t)
         \/ \E r \in Readers : ReaderNext(r)
  PROVE  fa.pc = "idle" /\ life = "open" /\ fa' = fa /\ life' = life
<1>1. ASSUME NEW t \in Threads, PutNext(t)
      PROVE  fa.pc = "idle" /\ life = "open" /\ fa' = fa /\ life' = life
  <2>1. CASE pc[t] # "idle"
    <3>1. ~Quiet  BY <2>1 DEF Quiet
    <3> QED  BY <1>1, <3>1, PutFrame DEF ClosedQuietly, Running
  <2>2. CASE pc[t] = "idle"
    BY <1>1, <2>2, PutFrame
    DEF PutNext, PutStep, PutAlloc, PutFill, PutReadTail, PutSetHead,
        PutLoadTail, PutLink, PutSetTail, PutLoadBytes, PutStoreBytes,
        UpdateMeta, UpdateTotal, UpdateLength, PutReturn, MayCall, Running
  <2> QED  BY <2>1, <2>2
<1>2. ASSUME NEW r \in Readers, ReaderNext(r)
      PROVE  fa.pc = "idle" /\ life = "open" /\ fa' = fa /\ life' = life
  <2>0. Running /\ fa' = fa /\ life' = life
    BY <1>2, ReaderFrame
    DEF ReaderNext, ReaderStep, SizeContains, SizeFind, GetMeta, Get,
        ListFind, GetMetaWalk, GetCopy, GetReturn, MayCall
  <2>1. CASE rd[r].pc # "idle"
    <3>1. ~Quiet  BY <2>1 DEF Quiet
    <3> QED  BY <2>0, <3>1 DEF ClosedQuietly, Running
  <2>2. CASE rd[r].pc = "idle"
    BY <1>2, <2>0, <2>2
    DEF ReaderNext, ReaderStep, SizeContains, SizeFind, GetMeta, Get,
        ListFind, GetMetaWalk, GetCopy, GetReturn, MayCall, Running
  <2> QED  BY <2>1, <2>2
<1> QED  BY <1>1, <1>2

\* A call starts only while nobody closes, and closing only while no call
\* runs; the tail a put has seen is cleared by nobody else.
LEMMA ClosedQuietlyStep ==
  ASSUME ~CloseConcurrent, TypeOK, ClosedQuietly, [Next]_vars
  PROVE  ClosedQuietly'
<1>1. ASSUME NEW t \in Threads, PutNext(t) PROVE ClosedQuietly'
  <2>1. fa'.pc = "idle" /\ life' = "open"  BY <1>1, CallWhileOpen
  <2>2. /\ \A u \in Threads \ {t} : pc'[u] = pc[u] /\ loc'[u] = loc[u]
        /\ pc \in [Threads -> PutLabels] /\ loc \in [Threads -> Locals]
        /\ base \in Base
    BY <1>1, PutFrame DEF TypeOK, PutType, NvmType
  <2>3. \/ base'.tail = base.tail
        \/ base'.tail # 0
    BY <1>1, <2>2
    DEF PutNext, PutStep, PutAlloc, PutFill, PutReadTail, PutSetHead,
        PutLoadTail, PutLink, PutSetTail, PutLoadBytes, PutStoreBytes,
        UpdateMeta, UpdateTotal, UpdateLength, PutReturn, nvmVars, Base,
        TypeOK, PutWellFormed
  <2>4. pc'[t] = "loadTail" => base'.tail # 0
    BY <1>1, <2>2
    DEF PutNext, PutStep, PutAlloc, PutFill, PutReadTail, PutSetHead,
        PutLoadTail, PutLink, PutSetTail, PutLoadBytes, PutStoreBytes,
        UpdateMeta, InsertMeta, AppendMeta, UpdateTotal, UpdateLength,
        PutReturn, nvmVars, Goto
  <2>5. pc'[t] = "link" => loc'[t].tl # 0
    <3>1. CASE PutLoadTail(t)
      <4>1. base.tail # 0 /\ loc' = [loc EXCEPT ![t].tl = base.tail]
        BY <3>1 DEF ClosedQuietly, PutLoadTail
      <4> QED  BY <2>2, <4>1 DEF Locals
    <3>2. CASE PutLink(t)
      BY <2>2, <3>2 DEF PutLink, Goto, ClosedQuietly
    <3>3. CASE ~PutLoadTail(t) /\ ~PutLink(t)
      BY <1>1, <2>2, <3>3
      DEF PutNext, PutStep, PutAlloc, PutFill, PutReadTail, PutSetHead,
          PutSetTail, PutLoadBytes, PutStoreBytes, UpdateMeta, InsertMeta,
          AppendMeta, UpdateTotal, UpdateLength, PutReturn, Goto
    <3> QED  BY <3>1, <3>2, <3>3
  <2> QED  BY <2>1, <2>2, <2>3, <2>4, <2>5 DEF ClosedQuietly
<1>2. ASSUME NEW r \in Readers, ReaderNext(r) PROVE ClosedQuietly'
  <2>1. fa'.pc = "idle" /\ life' = "open"  BY <1>2, CallWhileOpen
  <2>2. UNCHANGED <<pc, loc, base>>  BY <1>2, ReaderFrame DEF nvmVars
  <2> QED  BY <2>1, <2>2 DEF ClosedQuietly
<1>3. CASE CloserNext
  <2>1. UNCHANGED <<pc, loc, rd>>  BY <1>3, CloserFrame
  <2>2. CASE Quiet
    <3>1. Quiet'  BY <2>1, <2>2 DEF Quiet
    <3> QED  BY <3>1 DEF ClosedQuietly, Quiet
  <2>3. CASE ~Quiet
    <3>1. fa.pc = "idle" /\ life # "deleted"  BY <2>3 DEF ClosedQuietly
    <3> QED
      BY <1>3, <2>3, <3>1
      DEF CloserNext, CloserStep, FaStart, StartDelete, UseAfterFree, Open,
          FaVisit, FaSubLoad, FaSubStore, FaClearHead, FaClearTail, FaAssert,
          FreeMetaLock, FreeMetaList, FreeMetaDone
  <2> QED  BY <2>2, <2>3
<1>4. CASE UNCHANGED vars  BY <1>4 DEF vars, ClosedQuietly, Quiet
<1> QED  BY <1>1, <1>2, <1>3, <1>4, NextSplit

\* Lists only grow while a reader is running.
LEMMA ListsGrow ==
  ASSUME ~CloseConcurrent, TypeOK, ListStructure, PutEntry, ClosedQuietly,
         [Next]_vars, ~Quiet, NEW h \in Hashes
  PROVE  /\ index[h].list \in Seq(Meta) /\ index'[h].list \in Seq(Meta)
         /\ Len(index[h].list) <= Len(index'[h].list)
         /\ \A i \in 1 .. Len(index[h].list) :
              index'[h].list[i] = index[h].list[i]
<1>1. index[h].list \in Seq(Meta)  BY DEF TypeOK, IndexType, MetaList
<1>2. fa.pc = "idle" /\ life # "deleted"  BY DEF ClosedQuietly
<1>3. ~Open /\ \A g \in Hashes : ~FreeMetaList(g)
  BY <1>2 DEF Open, FreeMetaList
<1>4. CASE index'[h].list = index[h].list  BY <1>1, <1>4
<1>5. ASSUME NEW t \in Threads, UpdateMeta(t), loc[t].hash = h,
             index'[h].list = Append(index[h].list, BlockMeta(loc[t].bep))
      PROVE  /\ index'[h].list \in Seq(Meta)
             /\ Len(index[h].list) <= Len(index'[h].list)
             /\ \A i \in 1 .. Len(index[h].list) :
                  index'[h].list[i] = index[h].list[i]
  <2> DEFINE m == BlockMeta(loc[t].bep)
  <2>1. m \in Meta  BY <1>5, UpdateMetaEffect DEF Updated
  <2> HIDE DEF m
  <2>2. index'[h].list = Append(index[h].list, m)  BY <1>5 DEF m
  <2> QED  BY <1>1, <2>1, <2>2, AppendParts
<1> QED  BY <1>1, <1>3, <1>4, <1>5, ListsStep

-----------------------------------------------------------------------------
(***************************************************************************)
(* Readers, which take no lock.                                             *)
(***************************************************************************)
\* The size is that of a prefix of the list of h.
PrefixSize(h, size) ==
  \E k \in 0 .. Len(index[h].list) : size = BytesOf(index[h].list, k)

\* What a reader has found out stays true: the list it was told of is there,
\* and the total it was told is that of a prefix.
FactsOf(r) ==
    /\ rd[r].pc \in {"lengthFind", "valueFind", "metaFind", "getFind",
                     "metaWalk", "getCopy"} => Contains(rd[r].hash)
    /\ rd[r].pc \in {"valued", "getFind", "getCopy"} =>
         PrefixSize(rd[r].hash, rd[r].size)
    /\ rd[r].pc = "got" =>
         BytesOf(rd[r].snap, Len(rd[r].snap)) = rd[r].size

ReaderFacts == \A r \in Readers : FactsOf(r)

\* The total of a list is always that of a prefix.
LEMMA TotalOfPrefix ==
  ASSUME TypeOK, MutexInv, CountsInv, NEW h \in Hashes
  PROVE  PrefixSize(h, index[h].total_size)
<1> DEFINE m == index[h]
           n == Len(m.list)
<1>1. n \in Nat  BY DEF TypeOK, IndexType, MetaList
<1>2. CASE \A t \in Threads : Holding(t) => loc[t].hash # h
  <2>1. m.total_size = BytesOf(m.list, n)  BY <1>2 DEF CountsInv, Counted
  <2> QED  BY <1>1, <2>1 DEF PrefixSize
<1>3. CASE \E t \in Threads : Holding(t) /\ loc[t].hash = h
  <2>1. PICK t \in Threads : Holding(t) /\ loc[t].hash = h  BY <1>3
  <2>2. /\ n > 0
        /\ \/ m.total_size = BytesOf(m.list, n - 1)
           \/ m.total_size = BytesOf(m.list, n)
    BY <2>1 DEF CountsInv, Holding, Counted
  <2>3. n \in 0 .. n /\ n - 1 \in 0 .. n  BY <1>1, <2>2
  <2> QED  BY <2>2, <2>3 DEF PrefixSize
<1> QED  BY <1>2, <1>3

\* The facts of a reader that does not move survive the steps of others.
LEMMA FactsStay ==
  ASSUME ~CloseConcurrent, TypeOK, ListStructure, PutEntry, ClosedQuietly,
         [Next]_vars, NEW r \in Readers, FactsOf(r), rd'[r] = rd[r]
  PROVE  FactsOf(r)'
<1>1. CASE rd[r].pc = "idle"  BY <1>1 DEF FactsOf
<1>2. CASE rd[r].pc # "idle"
  <2> DEFINE h == rd[r].hash
             l == index[h].list
             k == index'[h].list
  <2>1. h \in Hashes /\ ~Quiet  BY <1>2 DEF TypeOK, ReaderType, Quiet
  <2>2. /\ l \in Seq(Meta) /\ k \in Seq(Meta) /\ Len(l) <= Len(k)
        /\ \A i \in 1 .. Len(l) : k[i] = l[i]
    BY <2>1, ListsGrow
  <2>3. l # <<>> => k # <<>>  BY <2>2
  <2>4. \A j \in 0 .. Len(l) : j \in 0 .. Len(k) /\ BytesOf(k, j) = BytesOf(l, j)
    <3> SUFFICES ASSUME NEW j \in 0 .. Len(l)
                 PROVE  j \in 0 .. Len(k) /\ BytesOf(k, j) = BytesOf(l, j)
      OBVIOUS
    <3>1. /\ j \in Nat /\ j <= Len(k) /\ j <= Len(l)
          /\ \A i \in 1 .. j : k[i] = l[i]
      BY <2>2
    <3>2. j \in 0 .. Len(k)  BY <2>2, <3>1
    <3> HIDE DEF l, k
    <3>3. BytesOf(k, j) = BytesOf(l, j)  BY <2>2, <3>1, BytesOfPrefix
    <3> QED  BY <3>2, <3>3
  <2>5. Contains(h) => Contains(h)'  BY <2>3 DEF Contains
  <2>6. PrefixSize(h, rd[r].size) => PrefixSize(h, rd[r].size)'
    BY <2>4 DEF PrefixSize
  <2> QED  BY <2>5, <2>6 DEF FactsOf, Contains, PrefixSize
<1> QED  BY <1>1, <1>2

\* get copies the longest prefix that fits, which is the one that was sized.
LEMMA CopyFills ==
  ASSUME NEW l \in Seq(Meta), NEW k \in 0 .. Len(l), NEW size,
         size = BytesOf(l, k), NEW n \in Fit(l, size),
         \A j \in Fit(l, size) : j <= n
  PROVE  BytesOf(SubSeq(l, 1, n), Len(SubSeq(l, 1, n))) = size
<1>1. size \in Nat  BY BytesOfNat
<1>2. n \in 0 .. Len(l) /\ BytesOf(l, n) <= size /\ BytesOf(l, n) \in Nat
  BY BytesOfNat DEF Fit
<1>3. k \in Fit(l, size)  BY <1>1 DEF Fit
<1>4. k <= n /\ n \in k .. Len(l)  BY <1>2, <1>3
<1>5. BytesOf(l, k) <= BytesOf(l, n)  BY <1>4, BytesOfMonotone
<1>6. BytesOf(l, n) = size  BY <1>1, <1>2, <1>5
<1> DEFINE s == SubSeq(l, 1, n)
<1>7. /\ s \in Seq(Meta) /\ Len(s) = n /\ \A i \in 1 .. n : s[i] = l[i]
      /\ n \in Nat /\ n <= Len(l)
  BY <1>2
<1> HIDE DEF s
<1>8. n <= Len(s)  BY <1>7
<1>9. BytesOf(s, n) = BytesOf(l, n)  BY <1>7, <1>8, BytesOfPrefix
<1> QED  BY <1>6, <1>7, <1>9 DEF s

\* Every step of the reader itself, and of all others, keeps its facts.
LEMMA ReaderFactsStep ==
  ASSUME ~CloseConcurrent, TypeOK, ListStructure, MutexInv, PutEntry,
         CountsInv, ClosedQuietly, ReaderFacts, [Next]_vars
  PROVE  ReaderFacts'
<1>0. rd \in [Readers -> ReaderLocals] /\ \A r \in Readers : FactsOf(r)
  BY DEF TypeOK, ReaderType, ReaderFacts, FactsOf
<1>1. ASSUME NEW r \in Readers, ReaderNext(r)
      PROVE  FactsOf(r)' /\ \A q \in Readers \ {r} : rd'[q] = rd[q]
  <2> DEFINE x == rd[r]
             h == x.hash
  <2>0. index' = index  BY <1>1, ReaderFrame DEF dramVars
  <2>1. x \in ReaderLocals /\ (x.pc # "idle" => h \in Hashes)
    BY DEF TypeOK, ReaderType
  <2>a. \A g : (Contains(g)' <=> Contains(g))
          /\ \A s : (PrefixSize(g, s)' <=> PrefixSize(g, s))
    BY <2>0 DEF Contains, PrefixSize
  <2>2. ASSUME NEW g \in Hashes, NEW want \in {"length", "total_size"},
               SizeContains(r, g, want)
        PROVE  FactsOf(r)' /\ \A q \in Readers \ {r} : rd'[q] = rd[q]
    <3>1. /\ rd'[r] = [pc |-> AfterContains(g, want), hash |-> g,
                       size |-> 0, snap |-> <<>>]
          /\ \A q \in Readers \ {r} : rd'[q] = rd[q]
      BY <1>0, <2>2 DEF SizeContains
    <3>2. PrefixSize(g, 0)
      <4>1. index[g].list \in Seq(Meta)  BY DEF TypeOK, IndexType, MetaList
      <4>2. BytesOf(index[g].list, 0) = 0 /\ 0 \in 0 .. Len(index[g].list)
        BY <4>1, BytesOfStep
      <4> QED  BY <4>2 DEF PrefixSize
    <3>3. AfterContains(g, want) \in {"lengthFind", "valueFind"} =>
            Contains(g)
      BY DEF AfterContains
    <3>4. AfterContains(g, want) \in
            {"lengthFind", "valueFind", "sized", "valued"}
      BY DEF AfterContains
    <3> DEFINE a == AfterContains(g, want)
    <3>5. rd'[r].pc = a /\ rd'[r].hash = g /\ rd'[r].size = 0
      BY <3>1
    <3>6. /\ a \in {"lengthFind", "valueFind", "sized", "valued"}
          /\ a \in {"lengthFind", "valueFind"} => Contains(g)
      BY <3>3, <3>4
    <3> HIDE DEF a
    <3>7. Contains(g)' <=> Contains(g)  BY <2>a
    <3>8. PrefixSize(g, 0)'  BY <2>a, <3>2
    <3>9. FactsOf(r)'
      BY <3>5, <3>6, <3>7, <3>8 DEF FactsOf, Contains, PrefixSize
    <3> QED  BY <3>1, <3>9
  <2>3. CASE SizeFind(r)
    <3>1. CASE Contains(h)
      <4>1. h \in Hashes /\ x.pc \in {"lengthFind", "valueFind"}
        BY <2>1, <2>3 DEF SizeFind
      <4>2. /\ \A q \in Readers \ {r} : rd'[q] = rd[q]
            /\ rd'[r].hash = h
            /\ \/ rd'[r].pc = "sized"
               \/ rd'[r].pc = "valued" /\ rd'[r].size = index[h].total_size
        BY <1>0, <2>1, <2>3, <3>1, <4>1 DEF SizeFind, ReaderLocals
      <4>3. PrefixSize(h, index[h].total_size)  BY <4>1, TotalOfPrefix
      <4> QED  BY <2>a, <4>2, <4>3 DEF FactsOf
    <3>2. CASE ~Contains(h)
      BY <2>3, <3>2, <1>0 DEF SizeFind, FactsOf
    <3> QED  BY <3>1, <3>2
  <2>4. ASSUME rd' = [rd EXCEPT ![r].pc = rd'[r].pc],
               \/ rd'[r].pc = "idle"
               \/ rd'[r].pc = "metaFind" /\ Contains(h)
               \/ rd'[r].pc = "metaWalk" /\ Contains(h)
               \/ rd'[r].pc = "getFind" /\ Contains(h) /\ x.pc = "valued"
               \/ rd'[r].pc = "getCopy" /\ Contains(h) /\ x.pc = "getFind"
        PROVE  FactsOf(r)' /\ \A q \in Readers \ {r} : rd'[q] = rd[q]
    <3>1. /\ \A q \in Readers \ {r} : rd'[q] = rd[q]
          /\ rd'[r].hash = h /\ rd'[r].size = x.size
      BY <1>0, <2>1, <2>4 DEF ReaderLocals
    <3>2. x.pc \in {"valued", "getFind"} => PrefixSize(h, x.size)
      BY <1>0 DEF FactsOf
    <3> QED  BY <2>a, <2>4, <3>1, <3>2 DEF FactsOf
  <2>5. ASSUME UNCHANGED rd
        PROVE  FactsOf(r)' /\ \A q \in Readers \ {r} : rd'[q] = rd[q]
    <3>1. FactsOf(r)  BY <1>0
    <3> QED  BY <2>5, <2>a, <3>1 DEF FactsOf
  <2>6. CASE GetMeta(r) \/ Get(r) \/ ListFind(r) \/ GetReturn(r)
    <3>1. \/ UNCHANGED rd
          \/ ReaderGoto(r, "idle")
          \/ ReaderGoto(r, "metaFind") /\ Contains(h)
          \/ ReaderGoto(r, "metaWalk") /\ Contains(h)
          \/ ReaderGoto(r, "getFind") /\ Contains(h) /\ x.pc = "valued"
          \/ ReaderGoto(r, "getCopy") /\ Contains(h) /\ x.pc = "getFind"
      BY <2>6 DEF GetMeta, Get, ListFind, GetReturn
    <3>2. \A label : ReaderGoto(r, label) =>
            /\ rd'[r].pc = label
            /\ rd' = [rd EXCEPT ![r].pc = rd'[r].pc]
      BY <1>0, <2>1 DEF ReaderGoto, ReaderLocals
    <3> QED  BY <2>4, <2>5, <3>1, <3>2
  <2>7. CASE GetMetaWalk(r)
    <3>1. \/ UNCHANGED rd
          \/ rd' = [rd EXCEPT ![r].snap = index[h].list, ![r].pc = "idle"]
      BY <2>7 DEF GetMetaWalk
    <3>2. rd' = [rd EXCEPT ![r].snap = index[h].list, ![r].pc = "idle"] =>
            /\ rd'[r].pc = "idle"
            /\ \A q \in Readers \ {r} : rd'[q] = rd[q]
      BY <1>0, <2>1 DEF ReaderLocals
    <3> QED  BY <2>5, <3>1, <3>2 DEF FactsOf
  <2>8. CASE GetCopy(r)
    <3> DEFINE l == index[h].list
    <3>1. x.pc = "getCopy" /\ h \in Hashes /\ l \in Seq(Meta)
      BY <2>1, <2>8 DEF GetCopy, TypeOK, IndexType, MetaList
    <3>2. PICK k \in 0 .. Len(l) : x.size = BytesOf(l, k)
      BY <1>0, <3>1 DEF FactsOf, PrefixSize
    <3>3. ASSUME NEW n \in Fit(l, x.size), \A j \in Fit(l, x.size) : j <= n,
                 rd' = [rd EXCEPT ![r].snap = SubSeq(l, 1, n), ![r].pc = "got"]
          PROVE  FactsOf(r)' /\ \A q \in Readers \ {r} : rd'[q] = rd[q]
      <4>1. BytesOf(SubSeq(l, 1, n), Len(SubSeq(l, 1, n))) = x.size
        BY <3>1, <3>2, <3>3, CopyFills
      <4> DEFINE s == SubSeq(l, 1, n)
      <4>2. BytesOf(s, Len(s)) = x.size  BY <4>1
      <4>3. rd' = [rd EXCEPT ![r].snap = s, ![r].pc = "got"]  BY <3>3
      <4> HIDE DEF s
      <4>4. /\ rd'[r].snap = s /\ rd'[r].pc = "got" /\ rd'[r].size = x.size
            /\ \A q \in Readers \ {r} : rd'[q] = rd[q]
        BY <1>0, <2>1, <4>3 DEF ReaderLocals
      <4> QED  BY <4>2, <4>4 DEF FactsOf
    <3>4. \/ UNCHANGED rd
          \/ \E n \in Fit(l, x.size) :
               /\ \A j \in Fit(l, x.size) : j <= n
               /\ rd' = [rd EXCEPT ![r].snap = SubSeq(l, 1, n), ![r].pc = "got"]
      BY <2>8 DEF GetCopy
    <3> QED  BY <2>5, <3>3, <3>4
  <2> QED
    BY <1>1, <2>2, <2>3, <2>6, <2>7, <2>8 DEF ReaderNext, ReaderStep
<1>2. ASSUME NEW r \in Readers, ReaderNext(r) PROVE ReaderFacts'
  <2>1. \A q \in Readers : FactsOf(q)'
    BY <1>0, <1>1, <1>2, FactsStay
  <2> QED  BY <2>1 DEF ReaderFacts, FactsOf
<1>3. ASSUME rd' = rd PROVE ReaderFacts'
  <2>1. \A q \in Readers : FactsOf(q)'  BY <1>0, <1>3, FactsStay
  <2> QED  BY <2>1 DEF ReaderFacts, FactsOf
<1>4. ASSUME NEW t \in Threads, PutNext(t) PROVE rd' = rd
  BY <1>4, PutFrame
<1>5. CASE CloserNext  BY <1>3, <1>5, CloserFrame
<1>6. CASE UNCHANGED vars  BY <1>3, <1>6 DEF vars
<1> QED  BY <1>2, <1>3, <1>4, <1>5, <1>6, NextSplit

-----------------------------------------------------------------------------
\* What holds of a store that is closed only between calls.
QuietInv == ClosedQuietly /\ ReaderFacts

\* A fresh store is closed quietly, and no reader has found anything yet.
LEMMA QuietInit == Init => QuietInv
<1> SUFFICES ASSUME Init PROVE QuietInv  OBVIOUS
<1>1. ClosedQuietly  BY DEF Init, ClosedQuietly, IdleCloser
<1>2. \A r \in Readers : rd[r].pc = "idle"  BY DEF Init, IdleReader
<1>3. ReaderFacts  BY <1>2 DEF ReaderFacts, FactsOf
<1> QED  BY <1>1, <1>3 DEF QuietInv

\* Closing excludes calls, and what a reader has found stays there.
THEOREM QuietInvariant ==
  ASSUME ~CloseConcurrent
  PROVE  Spec => []QuietInv
<1>1. Init => QuietInv  BY QuietInit
<1>2. TypeOK /\ ListStructure /\ IndexInv /\ QuietInv /\ [Next]_vars => QuietInv'
  BY ClosedQuietlyStep, ReaderFactsStep DEF IndexInv, QuietInv
<1>3. Spec => [](TypeOK /\ ListStructure)
  BY StructureInvariant, PTL
<1> QED  BY <1>1, <1>2, <1>3, IndexInvariant, PTL DEF Spec

\* get fills the buffer that get_value_size sized to the last byte.
THEOREM BufferFilled ==
  ASSUME ~CloseConcurrent
  PROVE  Spec => []GetFillsBuffer
<1>1. QuietInv => GetFillsBuffer
  BY DEF QuietInv, ReaderFacts, FactsOf, GetFillsBuffer
<1> QED  BY <1>1, QuietInvariant, PTL

\* A put dies only when it follows a null pointer: TBPAlloc failed, or the
\* tail went away under it.
LEMMA PutFaults ==
  ASSUME NEW t \in Threads, PutNext(t), fault' # fault
  PROVE  \/ AllocMayFail
         \/ pc[t] = "link" /\ loc[t].tl = 0
  BY DEF PutNext, PutStep, PutAlloc, PutFill, PutReadTail, PutSetHead,
         PutLoadTail, PutLink, PutSetTail, PutLoadBytes, PutStoreBytes,
         UpdateMeta, UpdateTotal, UpdateLength, PutReturn, lifeVars

\* A reader that finds the list it was told of can only overrun its own
\* buffer or read a length nobody wrote.
LEMMA ReaderFaults ==
  ASSUME NEW r \in Readers, ReaderNext(r), FactsOf(r)
  PROVE  fault' \in {fault, "meta_overrun", "uninit_length"}
<1>1. /\ SizeFind(r) => UNCHANGED fault
      /\ ListFind(r) => UNCHANGED fault
  BY DEF FactsOf, SizeFind, ListFind
<1>2. GetMetaWalk(r) => fault' \in {fault, "meta_overrun"}
  BY DEF FactsOf, GetMetaWalk, Contains, Die
<1>3. GetCopy(r) => UNCHANGED fault
  BY DEF FactsOf, GetCopy, Contains
<1>4. GetMeta(r) => fault' \in {fault, "uninit_length"}
  BY DEF GetMeta, Die
<1>5. /\ Get(r) \/ GetReturn(r) => UNCHANGED fault
      /\ \A h, want : SizeContains(r, h, want) => UNCHANGED fault
  BY DEF Get, GetReturn, SizeContains, lifeVars
<1> QED  BY <1>1, <1>2, <1>3, <1>4, <1>5 DEF ReaderNext, ReaderStep

\* Closing can fail an assertion, and touches a deleted object only when a
\* call is running in it.
LEMMA CloserFaults ==
  ASSUME CloserNext, fault' # fault
  PROVE  \/ fault' \in {"assert_bytes_written", "assert_bytes_allocated"}
         \/ life = "deleted" /\ ~Quiet
  BY DEF CloserNext, CloserStep, FaStart, StartDelete, UseAfterFree, Open,
         FaVisit, FaSubLoad, FaSubStore, FaClearHead, FaClearTail, FaAssert,
         FreeMetaLock, FreeMetaList, FreeMetaDone, lifeVars, Die

\* When the store is closed only between calls and TBPAlloc does not fail, no
\* call follows a null, dangling or uninitialised pointer into the store.
THEOREM PointersValid ==
  ASSUME ~CloseConcurrent, ~AllocMayFail
  PROVE  Spec => []NoWildAccess
<1>1. Init => NoWildAccess  BY DEF Init, NoWildAccess
<1>2. ASSUME NoWildAccess, QuietInv, [Next]_vars PROVE NoWildAccess'
  <2>1. ASSUME NEW t \in Threads, PutNext(t) PROVE fault' = fault
    BY <1>2, <2>1, PutFaults DEF QuietInv, ClosedQuietly
  <2>2. ASSUME NEW r \in Readers, ReaderNext(r)
        PROVE  fault' \in {fault, "meta_overrun", "uninit_length"}
    BY <1>2, <2>2, ReaderFaults DEF QuietInv, ReaderFacts
  <2>3. CASE CloserNext
    BY <1>2, <2>3, CloserFaults DEF QuietInv, ClosedQuietly, NoWildAccess
  <2>4. CASE UNCHANGED vars  BY <1>2, <2>4 DEF vars, NoWildAccess
  <2> QED  BY <1>2, <2>1, <2>2, <2>3, <2>4, NextSplit DEF NoWildAccess
<1> QED  BY <1>1, <1>2, QuietInvariant, PTL DEF Spec

-----------------------------------------------------------------------------
(***************************************************************************)
(* pmemkv implements AppendStore, for every value of the constants: the     *)
(* initial states correspond, and every step of pmemkv is a step of the     *)
(* append store or cannot be seen through the index.                        *)
(***************************************************************************)
\* What a block_meta of the index refers to.
Value == Vals \cup {NoVal}

\* A put stores only into the data block of an entry that is not linked yet:
\* what the index refers to does not change.
LEMMA DataStays ==
  ASSUME TypeOK, ListStructure, [Next]_vars, NEW a \in Addrs, depth[a] > 0
  PROVE  pm'[a] = pm[a]
<1>1. ASSUME NEW t \in Threads, PutFill(t) PROVE pm'[a] = pm[a]
  <2>1. loc[t].bep # a
    BY <1>1 DEF PutFill, ListStructure, DepthOfPuts, Private
  <2> QED  BY <1>1, <2>1 DEF PutFill, TypeOK, NvmType
<1>2. ASSUME NEW t \in Threads, PutNext(t), ~PutFill(t) PROVE pm' = pm
  BY <1>2
  DEF PutNext, PutStep, PutAlloc, PutReadTail, PutSetHead, PutLoadTail,
      PutLink, PutSetTail, PutLoadBytes, PutStoreBytes, UpdateMeta,
      UpdateTotal, UpdateLength, PutReturn, nvmVars
<1>3. ASSUME NEW r \in Readers, ReaderNext(r) PROVE pm' = pm
  BY <1>3, ReaderFrame DEF nvmVars
<1>4. CASE CloserNext  BY <1>4, CloserFrame
<1>5. CASE UNCHANGED vars  BY <1>5 DEF vars
<1> QED  BY <1>1, <1>2, <1>3, <1>4, <1>5, NextSplit

\* The same seen through the index, one block_meta at a time.
LEMMA ContentStays ==
  ASSUME TypeOK, ListStructure, IndexFilled, [Next]_vars,
         NEW h \in Hashes, NEW i \in 1 .. Len(index[h].list)
  PROVE  LET m == index[h].list[i]
         IN  /\ m \in Meta
             /\ Content(m) \in Value
             /\ (IF m.off = 0 THEN NoVal ELSE pm'[m.off]) = Content(m)
<1> DEFINE m == index[h].list[i]
<1>1. m \in Meta
  <2>1. index[h].list \in Seq(Meta)  BY DEF TypeOK, IndexType, MetaList
  <2> QED  BY <2>1
<1>2. m.off # 0 => m.off \in Addrs /\ depth[m.off] > 0
  BY <1>1, ConstantsAssumption DEF Meta, Addrs, IndexFilled
<1> HIDE DEF m
<1>3. m.off # 0 => pm'[m.off] = pm[m.off] /\ pm[m.off] \in Value
  BY <1>2, DataStays DEF TypeOK, NvmType, Value
<1>4. Content(m) \in Value  BY <1>3 DEF Content, Value
<1> QED  BY <1>1, <1>3, <1>4 DEF Content, m

\* Where no list changes, the abstract store does not either.
LEMMA StoreStays ==
  ASSUME TypeOK, ListStructure, IndexFilled, [Next]_vars, NEW h \in Hashes,
         index'[h].list = index[h].list
  PROVE  storeBar'[h] = storeBar[h]
<1> DEFINE l == index[h].list
<1>1. \A i \in 1 .. Len(l) :
        (IF l[i].off = 0 THEN NoVal ELSE pm'[l[i].off]) = Content(l[i])
  BY ContentStays
<1>2. storeBar'[h] =
        [i \in 1 .. Len(l) |-> IF l[i].off = 0 THEN NoVal ELSE pm'[l[i].off]]
  BY DEF storeBar, Content
<1>3. storeBar[h] = [i \in 1 .. Len(l) |-> Content(l[i])]
  BY DEF storeBar
<1> QED  BY <1>1, <1>2, <1>3

\* An emptied list is an empty sequence of values.
LEMMA StoreEmpty ==
  ASSUME NEW h \in Hashes
  PROVE  /\ index[h].list = <<>> => storeBar[h] = <<>>
         /\ index'[h].list = <<>> => storeBar'[h] = <<>>
<1>1. \A F : [i \in 1 .. 0 |-> F[i]] = <<>>  OBVIOUS
<1> QED  BY <1>1 DEF storeBar

\* The append of a block_meta appends the data it refers to.
LEMMA StoreAppends ==
  ASSUME TypeOK, ListStructure, IndexFilled, [Next]_vars, NEW h \in Hashes,
         NEW m \in Meta, m.off = 0 \/ depth[m.off] > 0,
         index'[h].list = Append(index[h].list, m)
  PROVE  storeBar'[h] = Append(storeBar[h], Content(m))
<1> DEFINE l == index[h].list
           n == Len(l)
           s == storeBar[h]
           u == storeBar'[h]
           k == Append(l, m)
<1>1. l \in Seq(Meta) /\ n \in Nat  BY DEF TypeOK, IndexType, MetaList
<1>2. /\ k \in Seq(Meta) /\ Len(k) = n + 1 /\ k[n + 1] = m
      /\ \A i \in 1 .. n : k[i] = l[i]
  BY <1>1, AppendParts
<1>3. s = [i \in 1 .. n |-> Content(l[i])]  BY DEF storeBar
<1>4. u = [i \in 1 .. (n + 1) |->
             IF k[i].off = 0 THEN NoVal ELSE pm'[k[i].off]]
  BY <1>2 DEF storeBar, Content
<1>5. \A i \in 1 .. n :
        /\ Content(l[i]) \in Value
        /\ (IF l[i].off = 0 THEN NoVal ELSE pm'[l[i].off]) = Content(l[i])
  BY ContentStays
<1>6. /\ Content(m) \in Value
      /\ (IF m.off = 0 THEN NoVal ELSE pm'[m.off]) = Content(m)
  <2>1. m.off # 0 => m.off \in Addrs
    BY ConstantsAssumption DEF Meta, Addrs
  <2>2. m.off # 0 => pm'[m.off] = pm[m.off] /\ pm[m.off] \in Value
    BY <2>1, DataStays DEF TypeOK, NvmType, Value
  <2> QED  BY <2>2 DEF Content, Value
<1> HIDE DEF k, n, l
<1>7. s \in Seq(Value) /\ Len(s) = n  BY <1>1, <1>3, <1>5
<1>8. \A i \in 1 .. n : u[i] = s[i]
  <2> SUFFICES ASSUME NEW i \in 1 .. n PROVE u[i] = s[i]  OBVIOUS
  <2>1. i \in 1 .. (n + 1) /\ k[i] = l[i]  BY <1>1, <1>2
  <2>2. u[i] = IF l[i].off = 0 THEN NoVal ELSE pm'[l[i].off]
    BY <1>4, <2>1
  <2> QED  BY <1>3, <1>5, <2>2
<1>9. n + 1 \in 1 .. (n + 1) /\ u[n + 1] = Content(m)
  BY <1>1, <1>2, <1>4, <1>6
<1>10. \A i \in 1 .. (n + 1) : u[i] \in Value
  <2> SUFFICES ASSUME NEW i \in 1 .. (n + 1) PROVE u[i] \in Value  OBVIOUS
  <2>1. CASE i = n + 1  BY <1>6, <1>9, <2>1
  <2>2. CASE i # n + 1
    <3>1. i \in 1 .. n  BY <1>1, <2>2
    <3> QED  BY <1>3, <1>5, <1>8, <3>1
  <2> QED  BY <2>1, <2>2
<1>11. u \in Seq(Value) /\ Len(u) = n + 1  BY <1>1, <1>4, <1>10
<1> HIDE DEF s, u
<1>12. u = Append(s, Content(m))
  BY <1>6, <1>7, <1>8, <1>9, <1>11, IsAppend
<1> QED  BY <1>12 DEF s, u

-----------------------------------------------------------------------------
\* A step of one put changes the abstract call of that thread only.
LEMMA CallStep ==
  ASSUME TypeOK, NEW t \in Threads, PutNext(t)
  PROVE  callBar' = [callBar EXCEPT ![t] = callBar'[t]]
<1>1. \A u \in Threads \ {t} : pc'[u] = pc[u] /\ loc'[u] = loc[u]
  BY PutFrame
<1>2. \A u \in Threads \ {t} : callBar'[u] = callBar[u]
  BY <1>1 DEF callBar
<1>3. /\ callBar = [u \in Threads |-> callBar[u]]
      /\ callBar' = [u \in Threads |-> callBar'[u]]
  BY DEF callBar
<1> QED  BY <1>2, <1>3

\* The labels at which the call has not taken effect yet.
Before == {"fill", "readTail", "setHead", "loadTail", "link", "setTail",
           "loadBytes", "storeBytes", "meta"}

\* The abstract call of a thread, label by label.
LEMMA CallAt ==
  ASSUME NEW t \in Threads
  PROVE  /\ pc[t] = "idle" => callBar[t] = Abstract!Idle
         /\ pc[t] \in Before =>
              callBar[t] = Abstract!Pending(loc[t].hash, loc[t].val)
         /\ pc[t] \in {"total", "length", "done", "failed"} =>
              callBar[t] = Abstract!Applied
  BY DEF callBar, Before, Abstract!Idle, Abstract!Pending, Abstract!Applied

\* The same after a step.
LEMMA CallAtNext ==
  ASSUME NEW t \in Threads
  PROVE  /\ pc'[t] = "idle" => callBar'[t] = Abstract!Idle
         /\ pc'[t] \in Before =>
              callBar'[t] = Abstract!Pending(loc'[t].hash, loc'[t].val)
         /\ pc'[t] \in {"total", "length", "done", "failed"} =>
              callBar'[t] = Abstract!Applied
  BY DEF callBar, Before, Abstract!Idle, Abstract!Pending, Abstract!Applied

\* Where no list changes, the whole abstract store does not.
LEMMA StoreFrame ==
  ASSUME TypeOK, ListStructure, IndexFilled, [Next]_vars,
         \A h \in Hashes : index'[h].list = index[h].list
  PROVE  storeBar' = storeBar
<1>1. \A h \in Hashes : storeBar'[h] = storeBar[h]  BY StoreStays
<1>2. /\ storeBar = [h \in Hashes |-> storeBar[h]]
      /\ storeBar' = [h \in Hashes |-> storeBar'[h]]
  BY DEF storeBar
<1> QED  BY <1>1, <1>2

\* Where one list changes, one key of the abstract store does.
LEMMA StoreOne ==
  ASSUME TypeOK, ListStructure, IndexFilled, [Next]_vars, NEW h \in Hashes,
         \A g \in Hashes \ {h} : index'[g].list = index[g].list
  PROVE  storeBar' = [storeBar EXCEPT ![h] = storeBar'[h]]
<1>1. \A g \in Hashes \ {h} : storeBar'[g] = storeBar[g]  BY StoreStays
<1>2. /\ storeBar = [g \in Hashes |-> storeBar[g]]
      /\ storeBar' = [g \in Hashes |-> storeBar'[g]]
  BY DEF storeBar
<1> QED  BY <1>1, <1>2

\* put is called, takes effect in update_meta, and returns; its other steps
\* cannot be seen through the index.
LEMMA PutSimulated ==
  ASSUME TypeOK, ListStructure, IndexInv, [Next]_vars,
         NEW t \in Threads, PutNext(t)
  PROVE  Abstract!ANext \/ UNCHANGED Abstract!avars
<1> USE DEF IndexInv
<1>0. /\ pc \in [Threads -> PutLabels] /\ loc \in [Threads -> Locals]
      /\ callBar' = [callBar EXCEPT ![t] = callBar'[t]]
      /\ callBar = [u \in Threads |-> callBar[u]]
  BY CallStep DEF TypeOK, PutType, callBar
<1>1. ASSUME ~UpdateMeta(t) PROVE storeBar' = storeBar
  <2>1. \A h \in Hashes : index'[h].list = index[h].list
    <3>1. CASE UpdateTotal(t) \/ UpdateLength(t)
      <4> DEFINE h == loc[t].hash
                 m == index[h]
      <4>1. /\ h \in Hashes
            /\ \E n, k : index' = [index EXCEPT ![h] =
                           [list |-> m.list, length |-> n, total_size |-> k]]
        BY <3>1, UpdateCountsEffect
      <4>2. index \in [Hashes -> MetaList]  BY DEF TypeOK, IndexType
      <4> QED  BY <4>1, <4>2
    <3> QED  BY <1>1, <3>1, PutIndexFrame DEF dramVars
  <2> QED  BY <2>1, StoreFrame
<1>2. ASSUME callBar'[t] = callBar[t], storeBar' = storeBar
      PROVE  UNCHANGED Abstract!avars
  BY <1>0, <1>2 DEF Abstract!avars
<1>3. ASSUME NEW h \in Hashes, NEW v \in Vals, PutAlloc(t, h, v)
      PROVE  Abstract!ANext \/ UNCHANGED Abstract!avars
  <2>0. ~UpdateMeta(t) /\ pc[t] = "idle"  BY <1>3 DEF PutAlloc, UpdateMeta
  <2>1. CASE UNCHANGED <<pc, loc>>
    BY <1>1, <1>2, <2>0, <2>1 DEF callBar
  <2>2. CASE ~UNCHANGED <<pc, loc>>
    <3>1. pc'[t] = "fill" /\ loc'[t].hash = h /\ loc'[t].val = v
      BY <1>0, <1>3, <2>2 DEF PutAlloc, Goto
    <3>2. callBar'[t] = Abstract!Pending(h, v)
      BY <3>1, CallAtNext DEF Before
    <3>3. Abstract!Call(t, h, v)
      BY <1>0, <1>1, <2>0, <3>2, CallAt DEF Abstract!Call
    <3> QED  BY <3>3 DEF Abstract!ANext
  <2> QED  BY <2>1, <2>2
<1>4. CASE \/ PutFill(t) \/ PutReadTail(t) \/ PutSetHead(t) \/ PutLoadTail(t)
           \/ PutLink(t) \/ PutSetTail(t) \/ PutLoadBytes(t)
           \/ PutStoreBytes(t)
  <2>1. /\ pc[t] \in Before /\ pc'[t] \in Before
        /\ loc'[t].hash = loc[t].hash /\ loc'[t].val = loc[t].val
        /\ ~UpdateMeta(t)
    BY <1>0, <1>4
    DEF PutFill, PutReadTail, PutSetHead, PutLoadTail, PutLink, PutSetTail,
        PutLoadBytes, PutStoreBytes, UpdateMeta, Goto, Before, Locals
  <2> QED  BY <1>1, <1>2, <2>1, CallAt, CallAtNext
<1>5. CASE UpdateMeta(t)
  <2> DEFINE h == loc[t].hash
             v == loc[t].val
             m == BlockMeta(loc[t].bep)
             l == index[h].list
  <2>1. /\ h \in Hashes /\ m \in Meta /\ l \in Seq(Meta)
        /\ m.off = 0 \/ depth[m.off] > 0
        /\ pc[t] = "meta" /\ loc' = loc
        /\ pc'[t] = "failed" => MallocMayFail /\ index' = index
    BY <1>5, UpdateMetaEffect DEF Updated
  <2>2. v \in Vals  BY <2>1 DEF TypeOK, PutWellFormed
  <2>3. /\ callBar[t] = Abstract!Pending(h, v)
        /\ callBar'[t] = Abstract!Applied
    BY <1>5, <2>1, UpdateMetaList, CallAt, CallAtNext DEF Before
  <2>4. CASE pc'[t] = "failed"
    <3>1. storeBar' = storeBar  BY <2>1, <2>4, StoreFrame
    <3>2. Abstract!Skip(t, h, v)
      BY <1>0, <2>1, <2>3, <2>4, <3>1 DEF Abstract!Skip
    <3> QED  BY <2>1, <2>2, <3>2 DEF Abstract!ANext
  <2>5. CASE pc'[t] # "failed"
    <3>1. /\ index'[h].list = Append(l, m)
          /\ \A g \in Hashes \ {h} : index'[g].list = index[g].list
      BY <1>5, <2>5, UpdateMetaList
    <3>2. storeBar'[h] = Append(storeBar[h], Content(m))
      BY <2>1, <3>1, StoreAppends
    <3>3. storeBar' = [storeBar EXCEPT ![h] = storeBar'[h]]
      BY <2>1, <3>1, StoreOne
    <3>4. Content(m) \in {v} \cup (IF AllocMayFail THEN {NoVal} ELSE {})
      <4>1. EntryOf(t) /\ m.off = ent[loc[t].bep].data
        BY <2>1 DEF PutEntry, BlockMeta
      <4> QED  BY <4>1 DEF EntryOf, Content
    <3>5. storeBar' = [storeBar EXCEPT ![h] = Append(@, Content(m))]
      BY <2>1, <3>2, <3>3 DEF storeBar
    <3>6. Abstract!Apply(t, h, v)
      BY <1>0, <2>3, <3>4, <3>5 DEF Abstract!Apply
    <3> QED  BY <2>1, <2>2, <3>6 DEF Abstract!ANext
  <2> QED  BY <2>4, <2>5
<1>6. CASE UpdateTotal(t) \/ UpdateLength(t)
  <2>1. /\ pc[t] \in {"total", "length"} /\ pc'[t] \in {"length", "done"}
        /\ ~UpdateMeta(t)
    BY <1>0, <1>6 DEF UpdateTotal, UpdateLength, UpdateMeta, Goto
  <2> QED  BY <1>1, <1>2, <2>1, CallAt, CallAtNext
<1>7. CASE PutReturn(t)
  <2>1. /\ pc[t] \in {"done", "failed"} /\ pc'[t] = "idle" /\ ~UpdateMeta(t)
    BY <1>0, <1>7 DEF PutReturn, UpdateMeta, Goto
  <2>2. Abstract!Return(t)
    BY <1>0, <1>1, <2>1, CallAt, CallAtNext DEF Abstract!Return
  <2> QED  BY <2>2 DEF Abstract!ANext
<1> QED  BY <1>3, <1>4, <1>5, <1>6, <1>7 DEF PutNext, PutStep

\* free_meta discards the lists one by one; the other steps of closing and
\* opening cannot be seen through the index.
LEMMA CloserSimulated ==
  ASSUME TypeOK, ListStructure, IndexInv, [Next]_vars, CloserNext
  PROVE  Abstract!ANext \/ UNCHANGED Abstract!avars
<1> USE DEF IndexInv
<1>1. callBar' = callBar  BY CloserFrame DEF callBar
<1>2. ASSUME \A h \in Hashes : index'[h].list = index[h].list
      PROVE  UNCHANGED Abstract!avars
  BY <1>1, <1>2, StoreFrame DEF Abstract!avars
<1>3. ASSUME NEW h \in Hashes, FreeMetaList(h) PROVE Abstract!ANext
  <2>1. /\ index'[h].list = <<>>
        /\ \A g \in Hashes \ {h} : index'[g].list = index[g].list
    BY <1>3 DEF FreeMetaList, EmptyList, TypeOK, IndexType
  <2>2. storeBar' = [storeBar EXCEPT ![h] = <<>>]
    BY <2>1, StoreOne, StoreEmpty
  <2> QED  BY <1>1, <2>2 DEF Abstract!ANext, Abstract!Clear
<1>4. CASE Open
  <2>1. \A h \in Hashes : index'[h].list = index[h].list
    BY <1>4 DEF Open, EmptyList, DeletedEmpty
  <2> QED  BY <1>2, <2>1
<1> QED  BY <1>2, <1>3, <1>4, CloserIndexFrame

\* Seen through the index, every store is an append store: whatever puts,
\* readers and closing do at the same time, a put appends the value its caller
\* passed exactly once and at one instant, or, where the code drops an error,
\* a block without data or nothing.
THEOREM Refinement == Spec => ImplementsAppendStore
<1>1. Init => Abstract!AInit
  <2> SUFFICES ASSUME Init PROVE Abstract!AInit  OBVIOUS
  <2>1. \A h \in Hashes : storeBar[h] = <<>>
    BY StoreEmpty DEF Init, EmptyList
  <2>2. storeBar = [h \in Hashes |-> <<>>]  BY <2>1 DEF storeBar
  <2>3. callBar = [t \in Threads |-> Abstract!Idle]
    BY DEF Init, callBar, Abstract!Idle
  <2> QED  BY <2>2, <2>3 DEF Abstract!AInit
<1>2. TypeOK /\ ListStructure /\ IndexInv /\ [Next]_vars =>
        [Abstract!ANext]_(Abstract!avars)
  <2> SUFFICES ASSUME TypeOK, ListStructure, IndexInv, [Next]_vars
               PROVE  Abstract!ANext \/ UNCHANGED Abstract!avars
    OBVIOUS
  <2>1. ASSUME NEW r \in Readers, ReaderNext(r)
        PROVE  UNCHANGED Abstract!avars
    BY <2>1, ReaderFrame
    DEF nvmVars, dramVars, Abstract!avars, storeBar, callBar, Content
  <2>2. CASE UNCHANGED vars
    BY <2>2 DEF vars, Abstract!avars, storeBar, callBar, Content
  <2> QED  BY <2>1, <2>2, NextSplit, PutSimulated, CloserSimulated
<1>3. Spec => [](TypeOK /\ ListStructure)
  BY StructureInvariant, PTL
<1> QED
  BY <1>1, <1>2, <1>3, IndexInvariant, PTL
  DEF Spec, ImplementsAppendStore, Abstract!ASpec

-----------------------------------------------------------------------------
(***************************************************************************)
(* bytes_allocated: the heap that the index takes up, modulo 2^64.          *)
(***************************************************************************)
\* The block_metas of an index, by hash and position, and its
\* block_meta_lists.
Row(h, n) == {<<h, i>> : i \in 1 .. n}
Cells(ix) == UNION {Row(h, Len(ix[h].list)) : h \in Hashes}
Used(ix) == {h \in Hashes : ix[h].list # <<>>}

\* The heap that an index takes up.
Heap(ix) == SizeofBlockMeta * Cardinality(Cells(ix))
              + SizeofBlockMetaList * Cardinality(Used(ix))
FiniteIndex(ix) == IsFiniteSet(Cells(ix)) /\ IsFiniteSet(Used(ix))

\* Two counters of 64 bits cannot tell x and y apart.
Congruent(x, y) == \E q \in Int : x = y + q * W

\* What update_meta and free_meta count.
AllocInv == FiniteIndex(index) /\ Congruent(bytes_allocated, Heap(index))

\* A remainder differs by a multiple.
LEMMA Remainder ==
  ASSUME NEW z \in Int, NEW n \in Nat, n > 0
  PROVE  z % n \in Int /\ \E k \in Int : z = k * n + (z % n)
  OBVIOUS

\* A counter that wraps around stays congruent.
LEMMA ModCongruent ==
  ASSUME NEW x \in Int, NEW y \in Int, NEW d \in Int, Congruent(x, y)
  PROVE  Congruent((x + d) % W, y + d)
<1>0. W \in Nat /\ W > 0  BY ConstantsAssumption
<1>1. PICK q \in Int : x = y + q * W  BY DEF Congruent
<1>2. /\ (x + d) % W \in Int
      /\ \E k \in Int : x + d = k * W + ((x + d) % W)
  <2>1. x + d \in Int  OBVIOUS
  <2> QED  BY <1>0, <2>1, Remainder
<1>3. PICK k \in Int : x + d = k * W + ((x + d) % W)  BY <1>2
<1>4. \A r \in Int : x + d = k * W + r => r = (y + d) + (q - k) * W
  BY <1>0, <1>1
<1>5. (x + d) % W = (y + d) + (q - k) * W  BY <1>2, <1>3, <1>4
<1>6. q - k \in Int  OBVIOUS
<1> QED  BY <1>5, <1>6 DEF Congruent

\* A counter congruent to 0 is 0.
LEMMA CongruentZero ==
  ASSUME NEW x \in Counter, Congruent(x, 0)
  PROVE  x = 0
<1>0. W \in Nat /\ W > 0  BY ConstantsAssumption
<1>1. PICK q \in Int : x = 0 + q * W  BY DEF Congruent
<1>2. x \in Nat /\ x < W  BY <1>0 DEF Counter
<1>3. CASE q >= 1
  <2>1. q * W >= W  BY <1>0, <1>3
  <2>2. q * W \in Int  BY <1>0
  <2> QED  BY <1>0, <1>1, <1>2, <2>1, <2>2
<1>4. CASE q <= -1
  <2>1. q * W <= -W  BY <1>0, <1>4
  <2>2. q * W \in Int  BY <1>0
  <2> QED  BY <1>0, <1>1, <1>2, <2>1, <2>2
<1>5. CASE q = 0  BY <1>0, <1>1, <1>5
<1> QED  BY <1>3, <1>4, <1>5

\* The block_metas of one list.
LEMMA RowSize ==
  ASSUME NEW h, NEW n \in Nat
  PROVE  IsFiniteSet(Row(h, n)) /\ Cardinality(Row(h, n)) = n
<1> DEFINE G == {k \in 0 .. n : /\ IsFiniteSet(Row(h, k))
                                /\ Cardinality(Row(h, k)) = k}
<1>1. 0 \in G
  <2>1. Row(h, 0) = {}  BY DEF Row
  <2> QED  BY <2>1, FS_EmptySet
<1>2. ASSUME NEW k \in 0 .. n, k \in G, k < n PROVE k + 1 \in G
  <2>1. Row(h, k + 1) = Row(h, k) \cup {<<h, k + 1>>}
    <3>1. 1 .. k + 1 = (1 .. k) \cup {k + 1}  OBVIOUS
    <3> QED  BY <3>1 DEF Row
  <2>2. <<h, k + 1>> \notin Row(h, k)  BY DEF Row
  <2>3. k + 1 \in 0 .. n  BY <1>2
  <2>4. IsFiniteSet(Row(h, k)) /\ Cardinality(Row(h, k)) = k  BY <1>2
  <2> QED  BY <2>1, <2>2, <2>3, <2>4, FS_AddElement
<1> HIDE DEF G
<1>3. 0 .. n \subseteq G  BY <1>1, <1>2, UpTo
<1>4. n \in G  BY <1>3
<1> QED  BY <1>4 DEF G

\* A block_meta is of one list.
LEMMA CellIs ==
  ASSUME NEW ix
  PROVE  \A x : x \in Cells(ix) <=>
                  \E h \in Hashes : \E i \in 1 .. Len(ix[h].list) : x = <<h, i>>
  BY DEF Cells, Row

\* An index with the same lists takes up the same heap.
LEMMA HeapSame ==
  ASSUME NEW ix, NEW jx, \A h \in Hashes : jx[h].list = ix[h].list
  PROVE  Cells(jx) = Cells(ix) /\ Used(jx) = Used(ix)
  BY DEF Cells, Used

\* update_meta: one more block_meta, and for a new hash its list.
LEMMA HeapAppend ==
  ASSUME NEW ix, NEW jx, FiniteIndex(ix), NEW h \in Hashes, NEW m \in Meta,
         ix[h].list \in Seq(Meta), jx[h].list = Append(ix[h].list, m),
         \A g \in Hashes \ {h} : jx[g].list = ix[g].list
  PROVE  /\ FiniteIndex(jx)
         /\ Heap(jx) = Heap(ix) + (IF ix[h].list = <<>>
                                     THEN SizeofBlockMeta + SizeofBlockMetaList
                                     ELSE SizeofBlockMeta)
<1> DEFINE n == Len(ix[h].list)
           x == <<h, n + 1>>
<1>1. n \in Nat /\ Len(jx[h].list) = n + 1 /\ jx[h].list # <<>>
  BY AppendParts
<1>2. Cells(jx) = Cells(ix) \cup {x}
  <2>1. ASSUME NEW y \in Cells(jx) PROVE y \in Cells(ix) \cup {x}
    <3>1. PICK g \in Hashes : \E i \in 1 .. Len(jx[g].list) : y = <<g, i>>
      BY CellIs
    <3>2. PICK i \in 1 .. Len(jx[g].list) : y = <<g, i>>  BY <3>1
    <3>3. CASE g # h
      <4>1. jx[g].list = ix[g].list  BY <3>3
      <4> QED  BY <3>2, <4>1, CellIs
    <3>4. CASE g = h
      <4>1. i \in 1 .. n \/ i = n + 1  BY <1>1, <3>2, <3>4
      <4> QED  BY <3>2, <3>4, <4>1, CellIs
    <3> QED  BY <3>3, <3>4
  <2>2. ASSUME NEW y \in Cells(ix) PROVE y \in Cells(jx)
    <3>1. PICK g \in Hashes : \E i \in 1 .. Len(ix[g].list) : y = <<g, i>>
      BY CellIs
    <3>2. PICK i \in 1 .. Len(ix[g].list) : y = <<g, i>>  BY <3>1
    <3>3. i \in 1 .. Len(jx[g].list)
      <4>1. CASE g # h  BY <3>2, <4>1
      <4>2. CASE g = h  BY <1>1, <3>2, <4>2
      <4> QED  BY <4>1, <4>2
    <3> QED  BY <3>2, <3>3, CellIs
  <2>3. x \in Cells(jx)
    <3>1. n + 1 \in 1 .. Len(jx[h].list)  BY <1>1
    <3> QED  BY <3>1, CellIs
  <2> HIDE DEF x
  <2> QED  BY <2>1, <2>2, <2>3
<1>3. x \notin Cells(ix)
  <2> SUFFICES ASSUME x \in Cells(ix) PROVE FALSE  OBVIOUS
  <2>1. PICK g \in Hashes : \E i \in 1 .. Len(ix[g].list) : x = <<g, i>>
    BY CellIs
  <2>2. PICK i \in 1 .. Len(ix[g].list) : x = <<g, i>>  BY <2>1
  <2>3. g = h /\ i = n + 1  BY <2>2
  <2> QED  BY <1>1, <2>2, <2>3
<1>4. Used(jx) = Used(ix) \cup {h}  BY <1>1 DEF Used
<1>5. h \in Used(ix) <=> ix[h].list # <<>>  BY DEF Used
<1>6. IsFiniteSet(Cells(ix)) /\ IsFiniteSet(Used(ix))  BY DEF FiniteIndex
<1>7. /\ IsFiniteSet(Cells(jx))
      /\ Cardinality(Cells(jx)) = Cardinality(Cells(ix)) + 1
  <2> HIDE DEF x
  <2> QED  BY <1>2, <1>3, <1>6, FS_AddElement
<1>8. /\ IsFiniteSet(Used(jx))
      /\ Cardinality(Used(jx)) =
           IF ix[h].list = <<>> THEN Cardinality(Used(ix)) + 1
                                ELSE Cardinality(Used(ix))
  BY <1>4, <1>5, <1>6, FS_AddElement
<1>9. Cardinality(Cells(ix)) \in Nat /\ Cardinality(Used(ix)) \in Nat
  BY <1>6, FS_CardinalityType
<1>10. FiniteIndex(jx)  BY <1>7, <1>8 DEF FiniteIndex
<1>11. CASE ix[h].list = <<>>
  <2>1. Cardinality(Used(jx)) = Cardinality(Used(ix)) + 1  BY <1>8, <1>11
  <2> QED  BY <1>7, <1>9, <1>10, <1>11, <2>1
           DEF Heap, SizeofBlockMeta, SizeofBlockMetaList
<1>12. CASE ix[h].list # <<>>
  <2>1. Cardinality(Used(jx)) = Cardinality(Used(ix))  BY <1>8, <1>12
  <2> QED  BY <1>7, <1>9, <1>10, <1>12, <2>1
           DEF Heap, SizeofBlockMeta, SizeofBlockMetaList
<1> QED  BY <1>11, <1>12

\* free_meta: a block_meta_list and its block_metas are gone.
LEMMA HeapFree ==
  ASSUME NEW ix, NEW jx, FiniteIndex(ix), NEW h \in Hashes,
         ix[h].list \in Seq(Meta), ix[h].list # <<>>, jx[h].list = <<>>,
         \A g \in Hashes \ {h} : jx[g].list = ix[g].list
  PROVE  /\ FiniteIndex(jx)
         /\ Heap(jx) = Heap(ix) - MetaBytes(ix[h].list)
<1> DEFINE n == Len(ix[h].list)
           R == Row(h, n)
<1>1. n \in Nat  OBVIOUS
<1>2. IsFiniteSet(R) /\ Cardinality(R) = n  BY <1>1, RowSize
<1>3. \A y : y \in R <=> \E i \in 1 .. n : y = <<h, i>>  BY DEF Row
<1>4. Cells(ix) \cap R = R
  <2>1. \A y \in R : y \in Cells(ix)  BY <1>3, CellIs
  <2> QED  BY <2>1
<1>5. Cells(jx) = Cells(ix) \ R
  <2>1. ASSUME NEW y \in Cells(jx) PROVE y \in Cells(ix) /\ y \notin R
    <3>1. PICK g \in Hashes : \E i \in 1 .. Len(jx[g].list) : y = <<g, i>>
      BY CellIs
    <3>2. PICK i \in 1 .. Len(jx[g].list) : y = <<g, i>>  BY <3>1
    <3>3. g # h
      <4>1. 1 .. Len(<<>>) = {}  OBVIOUS
      <4> QED  BY <3>2, <4>1
    <3>4. jx[g].list = ix[g].list  BY <3>3
    <3>5. y \in Cells(ix)  BY <3>2, <3>4, CellIs
    <3>6. y \notin R  BY <1>3, <3>2, <3>3
    <3> QED  BY <3>5, <3>6
  <2>2. ASSUME NEW y \in Cells(ix), y \notin R PROVE y \in Cells(jx)
    <3>1. PICK g \in Hashes : \E i \in 1 .. Len(ix[g].list) : y = <<g, i>>
      BY CellIs
    <3>2. PICK i \in 1 .. Len(ix[g].list) : y = <<g, i>>  BY <3>1
    <3>3. g # h  BY <1>3, <2>2, <3>2
    <3>4. jx[g].list = ix[g].list  BY <3>3
    <3> QED  BY <3>2, <3>4, CellIs
  <2> HIDE DEF R
  <2> QED  BY <2>1, <2>2
<1>6. Used(jx) = Used(ix) \ {h} /\ h \in Used(ix)  BY DEF Used
<1>7. IsFiniteSet(Cells(ix)) /\ IsFiniteSet(Used(ix))  BY DEF FiniteIndex
<1> HIDE DEF R
<1>8. /\ IsFiniteSet(Cells(jx))
      /\ Cardinality(Cells(jx)) = Cardinality(Cells(ix)) - n
  <2>1. /\ IsFiniteSet(Cells(ix) \ R)
        /\ Cardinality(Cells(ix) \ R) =
             Cardinality(Cells(ix)) - Cardinality(Cells(ix) \cap R)
    BY <1>7, FS_Difference, Zenon
  <2>2. Cardinality(Cells(ix) \cap R) = n  BY <1>2, <1>4
  <2> QED  BY <1>5, <2>1, <2>2
<1>9. /\ IsFiniteSet(Used(jx))
      /\ Cardinality(Used(jx)) = Cardinality(Used(ix)) - 1
  BY <1>6, <1>7, FS_RemoveElement
<1>10. Cardinality(Cells(ix)) \in Nat /\ Cardinality(Used(ix)) \in Nat
  BY <1>7, FS_CardinalityType
<1>11. FiniteIndex(jx)  BY <1>8, <1>9 DEF FiniteIndex
<1>12. Heap(jx) = Heap(ix) - MetaBytes(ix[h].list)
  <2> DEFINE c == Cardinality(Cells(ix))
             u == Cardinality(Used(ix))
  <2>1. /\ Heap(ix) = 24 * c + 32 * u
        /\ Heap(jx) = 24 * (c - n) + 32 * (u - 1)
        /\ MetaBytes(ix[h].list) = 24 * n + 32
    BY <1>8, <1>9 DEF Heap, MetaBytes, SizeofBlockMeta, SizeofBlockMetaList
  <2>2. c \in Nat /\ u \in Nat /\ n \in Nat  BY <1>1, <1>10
  <2> HIDE DEF c, u, n
  <2>3. 24 * (c - n) + 32 * (u - 1) = (24 * c + 32 * u) - (24 * n + 32)  BY <2>2
  <2> QED  BY <2>1, <2>3
<1> QED  BY <1>11, <1>12

\* The heap of a finite index is a number, and that of an empty one is 0.
LEMMA HeapType ==
  ASSUME NEW ix
  PROVE  /\ FiniteIndex(ix) => Heap(ix) \in Nat
         /\ (\A h \in Hashes : ix[h].list = <<>>) =>
              FiniteIndex(ix) /\ Heap(ix) = 0
<1>1. FiniteIndex(ix) => Heap(ix) \in Nat
  <2>1. FiniteIndex(ix) => /\ Cardinality(Cells(ix)) \in Nat
                           /\ Cardinality(Used(ix)) \in Nat
    BY FS_CardinalityType DEF FiniteIndex
  <2> QED  BY <2>1 DEF Heap, SizeofBlockMeta, SizeofBlockMetaList
<1>2. ASSUME \A h \in Hashes : ix[h].list = <<>>
      PROVE  FiniteIndex(ix) /\ Heap(ix) = 0
  <2>1. 1 .. Len(<<>>) = {}  OBVIOUS
  <2>2. Cells(ix) = {}  BY <1>2, <2>1, CellIs
  <2>3. Used(ix) = {}  BY <1>2 DEF Used
  <2> QED  BY <2>2, <2>3, FS_EmptySet
           DEF FiniteIndex, Heap, SizeofBlockMeta, SizeofBlockMetaList
<1> QED  BY <1>1, <1>2

\* What the steps do to the counter.
LEMMA BytesFrame ==
  ASSUME [Next]_vars
  PROVE  \/ bytes_allocated' = bytes_allocated
         \/ \E t \in Threads : UpdateMeta(t)
         \/ \E h \in Hashes : FreeMetaList(h)
         \/ Open
<1>1. ASSUME NEW t \in Threads, PutNext(t)
      PROVE  bytes_allocated' = bytes_allocated \/ UpdateMeta(t)
  BY <1>1, PutIndexFrame DEF UpdateTotal, UpdateLength, dramVars
<1>2. ASSUME NEW r \in Readers, ReaderNext(r)
      PROVE  bytes_allocated' = bytes_allocated
  BY <1>2, ReaderFrame DEF dramVars
<1>3. CASE CloserNext
  BY <1>3 DEF CloserNext, CloserStep, FaStart, StartDelete, FaVisit, FaSubLoad,
              FaSubStore, FaClearHead, FaClearTail, FaAssert, FreeMetaLock,
              FreeMetaDone, UseAfterFree, dramVars
<1> QED  BY <1>1, <1>2, <1>3, NextSplit DEF vars

\* update_meta adds what the new block_meta, and for a new hash its list, take.
LEMMA UpdateMetaBytes ==
  ASSUME ~MallocMayFail, TypeOK, PutEntry, NEW t \in Threads, UpdateMeta(t)
  PROVE  bytes_allocated' =
           Add64(bytes_allocated,
                 IF index[loc[t].hash].list = <<>>
                   THEN SizeofBlockMeta + SizeofBlockMetaList
                   ELSE SizeofBlockMeta)
<1>1. pc[t] = "meta"  BY DEF UpdateMeta
<1>2. ent[loc[t].bep].key = loc[t].hash  BY <1>1 DEF PutEntry, EntryOf
<1> QED  BY <1>2 DEF UpdateMeta, InsertMeta, AppendMeta, Contains

\* Every step counts what it allocates or frees.
LEMMA AllocStep ==
  ASSUME ~MallocMayFail, TypeOK, ListStructure, PutEntry, AllocInv, [Next]_vars
  PROVE  AllocInv'
<1>1. /\ FiniteIndex(index) /\ Congruent(bytes_allocated, Heap(index))
      /\ bytes_allocated \in Int /\ Heap(index) \in Int
  <2>1. FiniteIndex(index) /\ Congruent(bytes_allocated, Heap(index))
    BY DEF AllocInv
  <2>2. bytes_allocated \in Int
    BY ConstantsAssumption DEF TypeOK, IndexType, Counter
  <2> QED  BY <2>1, <2>2, HeapType
<1>2. \A h \in Hashes : index[h].list \in Seq(Meta)
  BY DEF TypeOK, IndexType, MetaList
<1>3. SUFFICES FiniteIndex(index') /\ Congruent(bytes_allocated', Heap(index'))
  BY DEF AllocInv, FiniteIndex, Congruent, Heap, Cells, Used
<1>4. ASSUME NEW t \in Threads, UpdateMeta(t)
      PROVE  FiniteIndex(index') /\ Congruent(bytes_allocated', Heap(index'))
  <2> DEFINE h == loc[t].hash
             m == BlockMeta(loc[t].bep)
             d == IF index[h].list = <<>> THEN SizeofBlockMeta + SizeofBlockMetaList
                                          ELSE SizeofBlockMeta
  <2>1. bytes_allocated' = Add64(bytes_allocated, d)  BY <1>4, UpdateMetaBytes
  <2>2. h \in Hashes /\ m \in Meta /\ pc'[t] # "failed"
    BY <1>4, UpdateMetaEffect DEF Updated
  <2>3. /\ index'[h].list = Append(index[h].list, m)
        /\ \A g \in Hashes \ {h} : index'[g].list = index[g].list
    BY <1>4, <2>2, UpdateMetaList
  <2>4. d \in Int  BY DEF SizeofBlockMeta, SizeofBlockMetaList
  <2>5. FiniteIndex(index') /\ Heap(index') = Heap(index) + d
    <3> HIDE DEF h, m
    <3> QED  BY <1>1, <1>2, <2>2, <2>3, HeapAppend
  <2> HIDE DEF d
  <2>6. Congruent((bytes_allocated + d) % W, Heap(index) + d)
    BY <1>1, <2>4, ModCongruent
  <2> QED  BY <2>1, <2>5, <2>6 DEF Add64
<1>5. ASSUME NEW h \in Hashes, FreeMetaList(h)
      PROVE  FiniteIndex(index') /\ Congruent(bytes_allocated', Heap(index'))
  <2> DEFINE d == MetaBytes(index[h].list)
  <2>1. bytes_allocated' = Sub64(bytes_allocated, d) /\ index[h].list # <<>>
    BY <1>5 DEF FreeMetaList, Contains
  <2>2. index'[h].list = <<>> /\ \A g \in Hashes \ {h} : index'[g].list = index[g].list
    BY <1>5 DEF FreeMetaList, EmptyList, TypeOK, IndexType
  <2>3. FiniteIndex(index') /\ Heap(index') = Heap(index) - d
    BY <1>1, <1>2, <2>1, <2>2, HeapFree
  <2>4. d \in Int
    BY <1>2 DEF MetaBytes, SizeofBlockMeta, SizeofBlockMetaList
  <2> HIDE DEF d
  <2>5. -d \in Int /\ bytes_allocated + (-d) = bytes_allocated - d
        /\ Heap(index) + (-d) = Heap(index) - d
    BY <1>1, <2>4
  <2>6. Congruent((bytes_allocated + (-d)) % W, Heap(index) + (-d))
    BY <1>1, <2>5, ModCongruent
  <2> QED  BY <2>1, <2>3, <2>5, <2>6 DEF Sub64
<1>6. ASSUME bytes_allocated' = 0, \A h \in Hashes : index'[h].list = <<>>
      PROVE  FiniteIndex(index') /\ Congruent(bytes_allocated', Heap(index'))
  <2>1. FiniteIndex(index') /\ Heap(index') = 0  BY <1>6, HeapType
  <2>2. 0 = 0 + 0 * W  BY ConstantsAssumption
  <2> QED  BY <1>6, <2>1, <2>2 DEF Congruent
<1>7. CASE Open
  BY <1>6, <1>7 DEF Open, EmptyList
<1>8. ASSUME bytes_allocated' = bytes_allocated,
             \A h \in Hashes : index'[h].list = index[h].list
      PROVE  FiniteIndex(index') /\ Congruent(bytes_allocated', Heap(index'))
  <2>1. Cells(index') = Cells(index) /\ Used(index') = Used(index)
    BY <1>8, HeapSame
  <2> QED  BY <1>1, <1>8, <2>1 DEF FiniteIndex, Heap
<1>9. \/ \E t \in Threads : UpdateMeta(t)
      \/ \E h \in Hashes : FreeMetaList(h)
      \/ Open
      \/ \A h \in Hashes : index'[h].list = index[h].list
  BY ListsStep
<1> QED  BY <1>4, <1>5, <1>7, <1>8, <1>9, BytesFrame

\* Without failing mallocs bytes_allocated counts the heap of the index, however
\* the puts interleave with each other and with free_meta.
THEOREM HeapCounted ==
  ASSUME ~MallocMayFail
  PROVE  Spec => []AllocInv
<1>1. Init => AllocInv
  <2> SUFFICES ASSUME Init PROVE AllocInv  OBVIOUS
  <2>1. \A h \in Hashes : index[h].list = <<>>  BY DEF Init, EmptyList
  <2>2. FiniteIndex(index) /\ Heap(index) = 0  BY <2>1, HeapType
  <2>3. 0 = 0 + 0 * W  BY ConstantsAssumption
  <2> QED  BY <2>2, <2>3 DEF AllocInv, Congruent, Init
<1>2. TypeOK /\ ListStructure /\ IndexInv /\ AllocInv /\ [Next]_vars => AllocInv'
  BY AllocStep DEF IndexInv
<1>3. Spec => [](TypeOK /\ ListStructure)  BY StructureInvariant, PTL
<1> QED  BY <1>1, <1>2, <1>3, IndexInvariant, PTL DEF Spec

\* assert(bytes_allocated == 0) at the end of free_meta never fails: it frees
\* what update_meta counted, also when the counter has wrapped around.
THEOREM AllocatedFreed ==
  ASSUME ~MallocMayFail
  PROVE  Spec => []BytesAllocatedAssert
<1>1. Init => BytesAllocatedAssert  BY DEF Init, BytesAllocatedAssert
<1>2. TypeOK /\ AllocInv /\ BytesAllocatedAssert /\ [Next]_vars
        => BytesAllocatedAssert'
  <2> SUFFICES ASSUME TypeOK, AllocInv, BytesAllocatedAssert, [Next]_vars,
                      fault' = "assert_bytes_allocated"
               PROVE  FALSE
    BY DEF BytesAllocatedAssert
  <2>1. fault' # fault  BY DEF BytesAllocatedAssert
  <2>2. ASSUME NEW t \in Threads, PutNext(t) PROVE fault' \in {fault, "segv"}
    BY <2>2
    DEF PutNext, PutStep, PutAlloc, PutFill, PutReadTail, PutSetHead,
        PutLoadTail, PutLink, PutSetTail, PutLoadBytes, PutStoreBytes,
        UpdateMeta, UpdateTotal, UpdateLength, PutReturn, lifeVars
  <2>3. ASSUME NEW r \in Readers, ReaderNext(r)
        PROVE  fault' \in {fault, "meta_overrun", "uninit_length",
                           "wild_pointer", "assert_bml", "use_after_free"}
    BY <2>3
    DEF ReaderNext, ReaderStep, SizeContains, SizeFind, GetMeta, Get, ListFind,
        GetMetaWalk, GetCopy, GetReturn, Die, lifeVars
  <2>4. CASE CloserNext
    <3>1. FreeMetaDone
      BY <2>1, <2>4 DEF CloserNext, CloserStep, FaStart, StartDelete, FaVisit,
         FaSubLoad, FaSubStore, FaClearHead, FaClearTail, FaAssert,
         FreeMetaLock, FreeMetaList, UseAfterFree, Open, Die, lifeVars
    <3>2. bytes_allocated # 0 /\ \A h \in Hashes : index[h].list = <<>>
      BY <2>1, <3>1 DEF FreeMetaDone, Contains
    <3>3. Heap(index) = 0  BY <3>2, HeapType
    <3>4. Congruent(bytes_allocated, 0)  BY <3>3 DEF AllocInv
    <3>5. bytes_allocated \in Counter  BY DEF TypeOK, IndexType
    <3> QED  BY <3>2, <3>4, <3>5, CongruentZero
  <2> QED  BY <2>1, <2>2, <2>3, <2>4, NextSplit DEF vars
<1>3. Spec => []TypeOK  BY TypeCorrect
<1> QED  BY <1>1, <1>2, <1>3, HeapCounted, PTL DEF Spec

-----------------------------------------------------------------------------
(***************************************************************************)
(* Puts that do not overlap.  Then the list is in the order of allocation,  *)
(* and counter and index follow it at the distance that the running put     *)
(* has still to make up.                                                    *)
(***************************************************************************)
\* At most one put is running at a time.
OneAtATime ==
  \A t, u \in Threads : pc[t] # "idle" /\ pc[u] # "idle" => t = u

\* The only put that may be running is at label p and has the locals l.
Active(p, l) ==
  \/ p = "idle" /\ l = IdleLoc /\ \A t \in Threads : pc[t] = "idle"
  \/ \E t \in Threads : /\ p # "idle" /\ pc[t] = p /\ loc[t] = l
                        /\ \A u \in Threads \ {t} : pc[u] = "idle"

\* Where a put stands whose entry is not on the list, in bytes_written or in
\* the index.
Unlinked == {"fill", "readTail", "setHead", "loadTail", "link"}
Uncounted == {"setTail", "loadBytes", "storeBytes"}
Unfiled == {"setTail", "loadBytes", "storeBytes", "meta"}

\* The entry that is last on the list, when the put is at p.
LastOf(p) == IF p \in Unlinked THEN alloc - 1 ELSE alloc

\* The next fields lead from hd over all addresses to last, and end there.
Chained(e, hd, last) ==
  /\ hd \in 1 .. last
  /\ \A a \in hd .. last : e[a].next = IF a = last THEN 0 ELSE a + 1

\* The bytes of the entries from c to last, as their headers say.
Sizes(e) == [a \in 1 .. MaxEntries |-> e[a].size]
BytesFrom(e, c, last) ==
  IF c = 0 THEN 0 ELSE SumFirst(Sizes(e), last) - SumFirst(Sizes(e), c - 1)

\* The block_metas of h for the entries from hd to k.
MetaAt(e, a) == [off |-> e[a].data, size |-> e[a].size]
CollectOne(e, hd, h, a, x) ==
  IF hd = 0 \/ a < hd THEN <<>>
  ELSE IF e[a].key = h THEN Append(x, MetaAt(e, a))
  ELSE x
Collected(e, hd, h, k) ==
  LET col[a \in 0 .. MaxEntries] ==
        IF a = 0 THEN <<>> ELSE CollectOne(e, hd, h, a, col[a - 1])
  IN  col[k]

\* The list in non-volatile memory while the put is at p.
ListAt(p, l) ==
  /\ p # "idle" => l.bep = alloc
  /\ p \in Unlinked \ {"fill"} => ent[alloc].next = 0
  /\ base.head = 0 => base.tail = 0 /\ p \in {"idle", "fill", "readTail", "setHead"}
  /\ base.head # 0 =>
       /\ Chained(ent, base.head, LastOf(p))
       /\ p # "setHead"
       /\ p # "setTail" => base.tail = LastOf(p)
       /\ p = "link" => l.tl = LastOf(p)

\* bytes_written while the put is at p.
Missing(p) == IF p \in Uncounted THEN ent[alloc].size ELSE 0
BytesAt(p, l) ==
  /\ Congruent(base.bytes_written,
               BytesFrom(ent, base.head, LastOf(p)) - Missing(p))
  /\ p = "storeBytes" => l.tmp = base.bytes_written

\* The index while the put is at p.
FiledTo(p) == IF p \in Unfiled THEN alloc - 1 ELSE LastOf(p)
FiledAt(p) ==
  \A h \in Hashes :
    index[h].list = Collected(ent, base.head, h, FiledTo(p))

\* While the store is in use.
StoreAt(p, l) ==
  /\ ListAt(p, l)
  /\ BytesAt(p, l)
  /\ ~MallocMayFail => FiledAt(p)
InUse == \E p \in PutLabels, l \in Locals : Active(p, l) /\ StoreAt(p, l)

\* While free_all walks over the list: what is left in bytes_written are the
\* entries that are still to be visited.
Freeing ==
  /\ fa.pc \in {"walk", "subLoad", "subStore"} =>
       /\ fa.cur = 0 \/ Chained(ent, fa.cur, alloc)
       /\ Congruent(base.bytes_written, BytesFrom(ent, fa.cur, alloc))
       /\ fa.pc # "walk" => /\ fa.cur # 0
                            /\ fa.size = ent[fa.cur].size
                            /\ fa.next = ent[fa.cur].next
       /\ fa.pc = "subStore" => fa.tmp = base.bytes_written
  /\ fa.pc \in {"clearTail", "assert"} => base.bytes_written = 0

\* The store between two openings of the device, and while it is closed.
SeqInv ==
  /\ Running => IF fa.pc = "idle" THEN InUse ELSE Freeing
  /\ life = "deleted" => fa.pc = "idle"

-----------------------------------------------------------------------------
\* The recursive function inside Collected satisfies its equation.
LEMMA CollectedIs ==
  ASSUME NEW e \in [Addrs -> Entry], NEW hd \in Pointer, NEW h
  PROVE  /\ \A a \in Pointer : Collected(e, hd, h, a) \in Seq(Meta)
         /\ Collected(e, hd, h, 0) = <<>>
         /\ \A a \in Addrs :
              Collected(e, hd, h, a) =
                CollectOne(e, hd, h, a, Collected(e, hd, h, a - 1))
<1> DEFINE N == MaxEntries
           T == Seq(Meta)
           one(a, x) == CollectOne(e, hd, h, a, x)
           step == [a \in 1 .. N |-> [x \in T |-> one(a, x)]]
<1>1. N \in Nat /\ <<>> \in T  BY ConstantsAssumption
<1>2. ASSUME NEW a \in 1 .. N PROVE MetaAt(e, a) \in Meta
  <2>1. e[a] \in Entry  BY DEF Addrs
  <2> QED  BY <2>1 DEF MetaAt, Meta, Entry, Pointer
<1>3. ASSUME NEW a \in 1 .. N, NEW x \in T PROVE one(a, x) \in T
  BY <1>1, <1>2 DEF CollectOne
<1> HIDE DEF N
<1>4. step \in [1 .. N -> [T -> T]]
  <2> HIDE DEF one, T
  <2> QED  BY <1>3
<1>5. \A a \in 1 .. N, x \in T : step[a][x] = one(a, x)  OBVIOUS
<1> HIDE DEF step, T, one
<1>6. PICK f \in [0 .. N -> T] : IsRec(f, N, <<>>, step)
  BY <1>1, <1>4, RecExists
<1>7. ASSUME NEW a \in 1 .. N PROVE f[a] = one(a, f[a - 1])
  <2>1. a - 1 \in 0 .. N  BY <1>1
  <2> QED  BY <1>5, <1>6, <2>1 DEF IsRec
<1>8. f[0] = <<>>  BY <1>6 DEF IsRec
<1>9. f = [a \in 0 .. N |-> IF a = 0 THEN <<>> ELSE one(a, f[a - 1])]
  <2>1. ASSUME NEW a \in 0 .. N
        PROVE  f[a] = IF a = 0 THEN <<>> ELSE one(a, f[a - 1])
    <3>1. CASE a = 0  BY <1>8, <3>1
    <3>2. CASE a # 0
      <4>1. a \in 1 .. N  BY <1>1, <3>2
      <4> QED  BY <1>7, <3>2, <4>1
    <3> QED  BY <3>1, <3>2
  <2> QED  BY <2>1
<1> DEFINE F == CHOOSE g : g = [a \in 0 .. N |->
                                  IF a = 0 THEN <<>> ELSE one(a, g[a - 1])]
<1>10. F = [a \in 0 .. N |-> IF a = 0 THEN <<>> ELSE one(a, F[a - 1])]
  BY <1>9
<1>11. \A a : Collected(e, hd, h, a) = F[a]  BY DEF Collected, N, one
<1> HIDE DEF F
<1>12. F[0] = <<>>  BY <1>1, <1>10
<1>13. ASSUME NEW a \in 1 .. N PROVE F[a] = one(a, F[a - 1])
  <2>1. a \in 0 .. N /\ a # 0  BY <1>1
  <2> QED  BY <1>10, <2>1
<1>14. SameSteps(F, f, 0, N)
  <2>1. F[0] = f[0]  BY <1>8, <1>12
  <2>2. ASSUME NEW a \in 0 + 1 .. N, F[a - 1] = f[a - 1] PROVE F[a] = f[a]
    <3>1. a \in 1 .. N  OBVIOUS
    <3>2. F[a] = one(a, F[a - 1]) /\ f[a] = one(a, f[a - 1])
      BY <1>7, <1>13, <3>1
    <3> QED  BY <2>2, <3>2
  <2> QED  BY <2>1, <2>2 DEF SameSteps
<1>15. Agree(F, f, 0, N)
  <2>1. 0 \in Nat /\ N \in Nat  BY <1>1
  <2> QED  BY <1>14, <2>1, RecUnique
<1>16. \A a \in 0 .. N : F[a] \in T  BY <1>15 DEF Agree
<1> QED  BY <1>11, <1>12, <1>13, <1>16 DEF one, T, N, Pointer, Addrs

\* Entries that say the same are collected to the same list.
LEMMA CollectedSame ==
  ASSUME NEW e \in [Addrs -> Entry], NEW f \in [Addrs -> Entry],
         NEW hd \in Pointer, NEW h, NEW k \in Pointer,
         \A a \in 1 .. k : /\ f[a].key = e[a].key /\ f[a].data = e[a].data
                           /\ f[a].size = e[a].size
  PROVE  Collected(f, hd, h, k) = Collected(e, hd, h, k)
<1> DEFINE G == {a \in 0 .. k : Collected(f, hd, h, a) = Collected(e, hd, h, a)}
<1>0. k \in Nat /\ MaxEntries \in Nat /\ k <= MaxEntries
  BY ConstantsAssumption DEF Pointer
<1>1. 0 \in G
  <2>1. Collected(f, hd, h, 0) = <<>>  BY CollectedIs
  <2>2. Collected(e, hd, h, 0) = <<>>  BY CollectedIs
  <2> QED  BY <1>0, <2>1, <2>2
<1>2. ASSUME NEW a \in 0 .. k, a \in G, a < k PROVE a + 1 \in G
  <2>1. a + 1 \in 1 .. k /\ a + 1 \in Addrs /\ (a + 1) - 1 = a /\ a + 1 \in 0 .. k
    BY <1>0, <1>2 DEF Addrs
  <2>2. MetaAt(f, a + 1) = MetaAt(e, a + 1) /\ f[a + 1].key = e[a + 1].key
    BY <2>1 DEF MetaAt
  <2>3. Collected(f, hd, h, a) = Collected(e, hd, h, a)  BY <1>2
  <2> DEFINE b == a + 1
  <2>b. b \in Addrs /\ b - 1 = a  BY <2>1
  <2> HIDE DEF b
  <2>4. Collected(e, hd, h, b) = CollectOne(e, hd, h, b, Collected(e, hd, h, b - 1))
    BY <2>b, CollectedIs
  <2>5. Collected(f, hd, h, b) = CollectOne(f, hd, h, b, Collected(f, hd, h, b - 1))
    BY <2>b, CollectedIs
  <2>6. \A x : CollectOne(f, hd, h, b, x) = CollectOne(e, hd, h, b, x)
    BY <2>2 DEF CollectOne, b
  <2>7. Collected(f, hd, h, b) = Collected(e, hd, h, b)
    BY <2>3, <2>4, <2>5, <2>6, <2>b
  <2> QED  BY <2>1, <2>7 DEF b
<1> HIDE DEF G
<1>3. 0 .. k \subseteq G  BY <1>0, <1>1, <1>2, UpTo
<1>4. k \in G  BY <1>0, <1>3
<1> QED  BY <1>4 DEF G

\* Nothing is collected from an empty list or before its head.
LEMMA CollectedNone ==
  ASSUME NEW e \in [Addrs -> Entry], NEW hd \in Pointer, NEW h, NEW k \in Pointer,
         hd = 0 \/ k < hd
  PROVE  Collected(e, hd, h, k) = <<>>
<1>1. k = 0 \/ k \in Addrs  BY ConstantsAssumption DEF Pointer, Addrs
<1> QED  BY <1>1, CollectedIs DEF CollectOne

-----------------------------------------------------------------------------
\* The sizes of the entries are a sequence of numbers.
LEMMA SizesType ==
  ASSUME NEW e \in [Addrs -> Entry]
  PROVE  /\ Sizes(e) \in Seq(Nat) /\ Len(Sizes(e)) = MaxEntries
         /\ \A a \in Addrs : Sizes(e)[a] = e[a].size /\ e[a].size \in Nat
<1>1. MaxEntries \in Nat  BY ConstantsAssumption
<1>2. \A a \in 1 .. MaxEntries : e[a].size \in Nat  BY DEF Addrs, Entry
<1>3. Sizes(e) \in [1 .. MaxEntries -> Nat]  BY <1>2 DEF Sizes
<1>4. Sizes(e) \in Seq(Nat) /\ Len(Sizes(e)) = MaxEntries  BY <1>1, <1>3, FunSeq
<1> QED  BY <1>2, <1>4 DEF Sizes, Addrs

\* The bytes of a part of the list, and what its last and its first entry add.
LEMMA BytesFromIs ==
  ASSUME NEW e \in [Addrs -> Entry], NEW last \in Pointer, NEW c \in 0 .. last
  PROVE  /\ BytesFrom(e, c, last) \in Int
         /\ c # 0 /\ c < last =>
              BytesFrom(e, c, last) = BytesFrom(e, c, last - 1) + e[last].size
         /\ c # 0 /\ c = last => BytesFrom(e, c, last) = e[c].size
         /\ c # 0 /\ c < last =>
              BytesFrom(e, c, last) = e[c].size + BytesFrom(e, c + 1, last)
<1> DEFINE S(i) == SumFirst(Sizes(e), i)
<1>0. MaxEntries \in Nat /\ last \in Nat /\ last <= MaxEntries /\ c \in Nat
      /\ c <= last
  BY ConstantsAssumption DEF Pointer
<1>1. /\ Sizes(e) \in Seq(Nat) /\ Len(Sizes(e)) = MaxEntries
      /\ \A a \in Addrs : Sizes(e)[a] = e[a].size /\ e[a].size \in Nat
  BY SizesType
<1>2. /\ S(0) = 0 /\ \A i \in 1 .. MaxEntries : S(i) = S(i - 1) + e[i].size
      /\ \A i \in 0 .. MaxEntries : S(i) \in Nat
  BY <1>1, SumStep DEF Addrs
<1> HIDE DEF S
<1>3. \A d, m : d # 0 => BytesFrom(e, d, m) = S(m) - S(d - 1)
  BY DEF BytesFrom, S
<1>4. CASE c = 0  BY <1>4 DEF BytesFrom
<1>5. CASE c # 0
  <2>1. /\ c \in 1 .. MaxEntries /\ last \in 1 .. MaxEntries /\ c - 1 \in 0 .. MaxEntries
        /\ c \in 0 .. MaxEntries /\ last \in 0 .. MaxEntries
        /\ last - 1 \in 0 .. MaxEntries
    BY <1>0, <1>5
  <2>2. /\ S(c) = S(c - 1) + e[c].size /\ S(last) = S(last - 1) + e[last].size
        /\ S(c) \in Nat /\ S(c - 1) \in Nat /\ S(last) \in Nat /\ S(last - 1) \in Nat
        /\ e[c].size \in Nat /\ e[last].size \in Nat
    BY <1>1, <1>2, <2>1 DEF Addrs
  <2>3. /\ BytesFrom(e, c, last) = S(last) - S(c - 1)
        /\ BytesFrom(e, c, last - 1) = S(last - 1) - S(c - 1)
    BY <1>3, <1>5
  <2>4. BytesFrom(e, c + 1, last) = S(last) - S(c)
    <3>1. c + 1 # 0 /\ (c + 1) - 1 = c  BY <1>0
    <3> QED  BY <1>3, <3>1
  <2>5. BytesFrom(e, c, last) \in Int  BY <2>2, <2>3
  <2>6. ASSUME c = last PROVE BytesFrom(e, c, last) = e[c].size
    BY <2>2, <2>3, <2>6
  <2>7. BytesFrom(e, c, last) = BytesFrom(e, c, last - 1) + e[last].size
    BY <2>2, <2>3
  <2>8. BytesFrom(e, c, last) = e[c].size + BytesFrom(e, c + 1, last)
    BY <2>2, <2>3, <2>4
  <2> QED  BY <2>5, <2>6, <2>7, <2>8
<1> QED  BY <1>4, <1>5

\* Entries of the same sizes have the same bytes.
LEMMA BytesFromSame ==
  ASSUME NEW e \in [Addrs -> Entry], NEW f \in [Addrs -> Entry],
         NEW last \in Pointer, NEW c \in 0 .. last,
         \A a \in 1 .. last : f[a].size = e[a].size
  PROVE  BytesFrom(f, c, last) = BytesFrom(e, c, last)
<1>0. MaxEntries \in Nat /\ last \in Nat /\ last <= MaxEntries /\ c \in Nat
      /\ c <= last
  BY ConstantsAssumption DEF Pointer
<1>1. Sizes(e) \in Seq(Nat) /\ Len(Sizes(e)) = MaxEntries  BY SizesType
<1>2. Sizes(f) \in Seq(Nat) /\ Len(Sizes(f)) = MaxEntries  BY SizesType
<1>3. \A a \in 1 .. last : Sizes(f)[a] = Sizes(e)[a]
  BY <1>0 DEF Sizes
<1>4. \A i \in 0 .. last : SumFirst(Sizes(f), i) = SumFirst(Sizes(e), i)
  BY <1>0, <1>1, <1>2, <1>3, SumPrefix
<1>5. CASE c = 0  BY <1>5 DEF BytesFrom
<1>6. CASE c # 0
  <2>1. c - 1 \in 0 .. last /\ last \in 0 .. last  BY <1>0, <1>6
  <2> QED  BY <1>4, <1>6, <2>1 DEF BytesFrom
<1> QED  BY <1>5, <1>6

-----------------------------------------------------------------------------
\* The states of a walk over the list.
Walks == [at : Pointer, found : Seq(Meta)]

\* A turn of the loop leads to a state of the walk.
LEMMA VisitType ==
  ASSUME ent \in [Addrs -> Entry], NEW h, NEW w \in Walks
  PROVE  Visit(h, w) \in Walks
<1>1. w.at \in Pointer /\ w.found \in Seq(Meta)  BY DEF Walks
<1>2. CASE w.at = 0  BY <1>2 DEF Visit
<1>3. CASE w.at # 0
  <2>1. w.at \in Addrs  BY <1>1, <1>3, ConstantsAssumption DEF Pointer, Addrs
  <2>2. ent[w.at] \in Entry  BY <2>1
  <2>3. ent[w.at].next \in Pointer /\ BlockMeta(w.at) \in Meta
    BY <2>2 DEF Entry, BlockMeta, Meta, Pointer
  <2>4. Append(w.found, BlockMeta(w.at)) \in Seq(Meta)  BY <1>1, <2>3
  <2> QED  BY <1>1, <1>3, <2>3, <2>4 DEF Visit, Walks
<1> QED  BY <1>2, <1>3

\* The recursive function inside Rebuilt satisfies its equation.
LEMMA RebuiltIs ==
  ASSUME ent \in [Addrs -> Entry], base.head \in Pointer, NEW h
  PROVE  \E f : /\ f[0] = [at |-> base.head, found |-> <<>>]
                /\ \A i \in 1 .. MaxEntries : f[i] = Visit(h, f[i - 1])
                /\ Rebuilt(h) = f[MaxEntries].found
<1> DEFINE N == MaxEntries
           start == [at |-> base.head, found |-> <<>>]
           step == [i \in 1 .. N |-> [w \in Walks |-> Visit(h, w)]]
<1>1. N \in Nat  BY ConstantsAssumption
<1>2. start \in Walks  BY DEF Walks
<1>3. step \in [1 .. N -> [Walks -> Walks]]  BY VisitType
<1>4. \A i \in 1 .. N, w \in Walks : step[i][w] = Visit(h, w)  OBVIOUS
<1> DEFINE F == CHOOSE g : g = [i \in 0 .. N |->
                                  IF i = 0 THEN start ELSE Visit(h, g[i - 1])]
<1>5. Rebuilt(h) = F[N].found  BY DEF Rebuilt
<1> HIDE DEF step, start, N
<1>6. PICK f \in [0 .. N -> Walks] : IsRec(f, N, start, step)
  BY <1>1, <1>2, <1>3, RecExists
<1>7. ASSUME NEW i \in 0 .. N
      PROVE  f[i] = IF i = 0 THEN start ELSE Visit(h, f[i - 1])
  <2>1. CASE i = 0  BY <1>6, <2>1 DEF IsRec
  <2>2. CASE i # 0
    <3>1. i \in 1 .. N /\ i - 1 \in 0 .. N  BY <1>1, <2>2
    <3> QED  BY <1>4, <1>6, <2>2, <3>1 DEF IsRec
  <2> QED  BY <2>1, <2>2
<1>8. f = [i \in 0 .. N |-> IF i = 0 THEN start ELSE Visit(h, f[i - 1])]
  BY <1>7
<1>9. F = [i \in 0 .. N |-> IF i = 0 THEN start ELSE Visit(h, F[i - 1])]
  BY <1>8
<1> HIDE DEF F
<1>10. F[0] = start  BY <1>1, <1>9
<1>11. ASSUME NEW i \in 1 .. N PROVE F[i] = Visit(h, F[i - 1])
  <2>1. i \in 0 .. N /\ i # 0  BY <1>1
  <2> QED  BY <1>9, <2>1
<1> QED  BY <1>5, <1>10, <1>11 DEF start, N

\* A walk over the list finds the blocks of h in the order of the addresses.
LEMMA RebuiltCollects ==
  ASSUME ent \in [Addrs -> Entry], base.head \in Pointer, NEW last \in Pointer,
         base.head = 0 \/ Chained(ent, base.head, last), NEW h
  PROVE  Rebuilt(h) = Collected(ent, base.head, h, last)
<1> DEFINE N == MaxEntries
           hd == base.head
           C(a) == Collected(ent, hd, h, a)
           upTo(i) == IF hd + i <= last THEN (hd + i) - 1 ELSE last
           is(w, i) == IF hd = 0 THEN w = [at |-> 0, found |-> <<>>]
                       ELSE /\ w.at = IF hd + i <= last THEN hd + i ELSE 0
                            /\ w.found = C(upTo(i))
<1>0. N \in Nat /\ last \in Nat /\ last <= N /\ hd \in Nat /\ hd <= N
  BY ConstantsAssumption DEF Pointer
<1>1. PICK f : /\ f[0] = [at |-> hd, found |-> <<>>]
               /\ \A i \in 1 .. N : f[i] = Visit(h, f[i - 1])
               /\ Rebuilt(h) = f[N].found
  BY RebuiltIs
<1>2. \A a \in Addrs : C(a) = CollectOne(ent, hd, h, a, C(a - 1))
  BY CollectedIs
<1>3. \A a \in Pointer : hd = 0 \/ a < hd => C(a) = <<>>  BY CollectedNone
<1> DEFINE G == {i \in 0 .. N : is(f[i], i)}
<1>4. 0 \in G
  <2>1. f[0].at = hd /\ f[0].found = <<>>  BY <1>1
  <2>2. CASE hd = 0  BY <1>0, <1>1, <2>2
  <2>3. CASE hd # 0
    <3>1. hd <= last /\ hd + 0 = hd  BY <1>0, <2>3 DEF Chained
    <3>2. hd - 1 \in Pointer /\ hd - 1 < hd  BY <1>0, <2>3 DEF Pointer
    <3>3. C(hd - 1) = <<>>  BY <1>3, <3>2
    <3> HIDE DEF C
    <3> QED  BY <1>0, <2>1, <2>3, <3>1, <3>3
  <2> QED  BY <2>2, <2>3
<1>5. ASSUME NEW i \in 0 .. N, i \in G, i < N PROVE i + 1 \in G
  <2>0. i + 1 \in 1 .. N /\ i + 1 \in 0 .. N /\ (i + 1) - 1 = i  BY <1>0, <1>5
  <2>1. f[i + 1] = Visit(h, f[i])
    <3> DEFINE j == i + 1
    <3>1. j \in 1 .. N /\ j - 1 = i  BY <2>0
    <3> HIDE DEF j
    <3>2. f[j] = Visit(h, f[j - 1])  BY <1>1, <3>1
    <3> QED  BY <3>1, <3>2 DEF j
  <2>2. is(f[i], i)  BY <1>5
  <2>3. is(f[i + 1], i + 1)
    <3>1. CASE hd = 0
      <4>1. f[i] = [at |-> 0, found |-> <<>>]  BY <2>2, <3>1
      <4>2. f[i].at = 0  BY <4>1
      <4>3. f[i + 1] = f[i]  BY <2>1, <4>2 DEF Visit
      <4> QED  BY <3>1, <4>1, <4>3
    <3>2. CASE hd # 0 /\ ~(hd + i <= last)
      <4>1. f[i].at = 0 /\ f[i].found = C(last)  BY <2>2, <3>2
      <4>2. f[i + 1] = f[i]  BY <2>1, <4>1 DEF Visit
      <4>3. ~(hd + (i + 1) <= last)  BY <1>0, <3>2
      <4> HIDE DEF C
      <4> QED  BY <3>2, <4>1, <4>2, <4>3
    <3>3. CASE hd # 0 /\ hd + i <= last
      <4> DEFINE a == hd + i
      <4>1. a \in hd .. last /\ a \in Addrs /\ a # 0 /\ ~(a < hd)
        BY <1>0, <3>3 DEF Addrs
      <4>2. f[i].at = a /\ f[i].found = C(a - 1)  BY <2>2, <3>3
      <4>3. ent[a].next = IF a = last THEN 0 ELSE a + 1
        BY <3>3, <4>1 DEF Chained
      <4>4. C(a) = CollectOne(ent, hd, h, a, C(a - 1))  BY <1>2, <4>1
      <4>5. hd + (i + 1) = a + 1  BY <1>0
      <4> HIDE DEF a, C
      <4>6. /\ f[i + 1].at = ent[a].next
            /\ f[i + 1].found = IF ent[a].key = h
                                  THEN Append(C(a - 1), BlockMeta(a))
                                  ELSE C(a - 1)
        BY <2>1, <4>1, <4>2 DEF Visit
      <4>7. f[i + 1].found = C(a)
        BY <3>3, <4>1, <4>4, <4>6 DEF CollectOne, MetaAt, BlockMeta
      <4>8. a + 1 <= last <=> a # last  BY <1>0, <4>1
      <4>9. f[i + 1].at = IF a + 1 <= last THEN a + 1 ELSE 0
        BY <4>3, <4>6, <4>8
      <4>10. (IF a + 1 <= last THEN (a + 1) - 1 ELSE last) = a
        BY <1>0, <4>1, <4>8
      <4> QED  BY <3>3, <4>5, <4>7, <4>9, <4>10
    <3> QED  BY <3>1, <3>2, <3>3
  <2> HIDE DEF is
  <2> QED  BY <2>0, <2>3
<1> HIDE DEF G
<1>6. 0 .. N \subseteq G  BY <1>0, <1>4, <1>5, UpTo
<1>7. N \in G  BY <1>0, <1>6
<1>8. is(f[N], N)  BY <1>7 DEF G
<1>9. CASE hd = 0
  <2>1. f[N].found = <<>>  BY <1>8, <1>9
  <2> QED  BY <1>1, <1>3, <1>9, <2>1
<1>10. CASE hd # 0
  <2>1. ~(hd + N <= last)  BY <1>0, <1>10
  <2>2. f[N].found = C(last)  BY <1>8, <1>10, <2>1
  <2> QED  BY <1>1, <2>2
<1> QED  BY <1>9, <1>10

-----------------------------------------------------------------------------
\* The put that is running is the active one.
LEMMA ActivePut ==
  ASSUME NEW p, NEW l, Active(p, l), NEW t \in Threads, pc[t] # "idle"
  PROVE  p = pc[t] /\ l = loc[t] /\ \A u \in Threads \ {t} : pc[u] = "idle"
  BY DEF Active

\* What has to be shown of a step of the only put.
LEMMA InUseNext ==
  ASSUME NEW t \in Threads, NEW q \in PutLabels, NEW m \in Locals,
         q = pc'[t], m = loc'[t], q # "idle",
         \A u \in Threads \ {t} : pc'[u] = "idle",
         StoreAt(q, m)'
  PROVE  InUse'
<1>1. Active(q, m)'  BY DEF Active
<1> QED  BY <1>1 DEF InUse

\* What the types say of the list while a put is running.
LEMMA PutFacts ==
  ASSUME TypeOK, PutEntry, NEW t \in Threads, pc[t] # "idle",
         ListAt(pc[t], loc[t])
  PROVE  /\ ent \in [Addrs -> Entry] /\ base \in Base /\ base.head \in Pointer
         /\ alloc \in Addrs /\ alloc \in Nat /\ alloc > 0 /\ alloc - 1 \in Pointer
         /\ alloc \in Pointer /\ loc[t].bep = alloc /\ MaxEntries \in Nat
         /\ LastOf(pc[t]) \in Pointer /\ base.head \in 0 .. LastOf(pc[t])
         /\ ent[alloc].size \in Nat
         /\ pc \in [Threads -> PutLabels] /\ loc \in [Threads -> Locals]
         /\ pc[t] # "fill" => /\ ent[alloc].key = loc[t].hash
                              /\ ent[alloc].size = SizeOf[loc[t].val]
<1>1. /\ ent \in [Addrs -> Entry] /\ base \in Base /\ base.head \in Pointer
      /\ pc \in [Threads -> PutLabels] /\ loc \in [Threads -> Locals]
  BY DEF TypeOK, NvmType, PutType, Base
<1>2. loc[t].bep = alloc /\ alloc \in Addrs  BY BepInAddrs DEF ListAt
<1>3. MaxEntries \in Nat  BY ConstantsAssumption
<1>4. /\ alloc \in Nat /\ alloc > 0 /\ alloc - 1 \in Pointer /\ alloc \in Pointer
      /\ LastOf(pc[t]) \in Pointer
  BY <1>2, <1>3 DEF Addrs, Pointer, LastOf
<1>5. base.head \in 0 .. LastOf(pc[t])
  <2>1. CASE base.head = 0  BY <1>4, <2>1 DEF Pointer
  <2>2. CASE base.head # 0
    <3>1. base.head \in 1 .. LastOf(pc[t])  BY <2>2 DEF ListAt, Chained
    <3> QED  BY <3>1
  <2> QED  BY <2>1, <2>2
<1>6. ent[alloc].size \in Nat  BY <1>1, <1>2 DEF Entry
<1>7. pc[t] # "fill" => /\ ent[alloc].key = loc[t].hash
                        /\ ent[alloc].size = SizeOf[loc[t].val]
  BY <1>2 DEF PutEntry, EntryOf
<1> QED  BY <1>1, <1>2, <1>3, <1>4, <1>5, <1>6, <1>7

\* A step to a label of the same kind that leaves list and index alone.
LEMMA KindKept ==
  ASSUME NEW p, NEW q, UNCHANGED <<base, ent, alloc>>,
         \A h \in Hashes : index'[h].list = index[h].list,
         p \in Unlinked <=> q \in Unlinked,
         p \in Uncounted <=> q \in Uncounted,
         p \in Unfiled <=> q \in Unfiled
  PROVE  /\ LastOf(q)' = LastOf(p)
         /\ \A l, m : BytesAt(p, l) /\ (q = "storeBytes" => m.tmp = base.bytes_written)
                        => BytesAt(q, m)'
         /\ FiledAt(p) => FiledAt(q)'
<1>1. LastOf(q)' = LastOf(p)  BY DEF LastOf
<1>2. Missing(q)' = Missing(p)  BY DEF Missing
<1>3. FiledTo(q)' = FiledTo(p)  BY <1>1 DEF FiledTo
<1>4. ASSUME NEW l, NEW m, BytesAt(p, l),
             q = "storeBytes" => m.tmp = base.bytes_written
      PROVE  BytesAt(q, m)'
  <2>1. BytesFrom(ent, base.head, LastOf(q))' = BytesFrom(ent, base.head, LastOf(p))
    BY <1>1 DEF BytesFrom, Sizes
  <2>2. Congruent(base.bytes_written, BytesFrom(ent, base.head, LastOf(q)) - Missing(q))'
    BY <1>2, <1>4, <2>1 DEF BytesAt, Congruent
  <2> QED  BY <1>4, <2>2 DEF BytesAt
<1>5. ASSUME FiledAt(p), NEW h \in Hashes
      PROVE  index'[h].list = Collected(ent', base'.head, h, FiledTo(q)')
  BY <1>3, <1>5 DEF FiledAt
<1>6. FiledAt(p) => FiledAt(q)'
  BY <1>5 DEF FiledAt, Collected, CollectOne, MetaAt
<1> QED  BY <1>1, <1>4, <1>6

\* put is given its entry.
LEMMA AllocStore ==
  ASSUME TypeOK, NEW t \in Threads, NEW h \in Hashes, NEW v \in Vals,
         PutAlloc(t, h, v), fault' = fault, NEW l, StoreAt("idle", l),
         NEW q, NEW m, q = pc'[t], m = loc'[t]
  PROVE  StoreAt(q, m)'
<1>1. /\ q = "fill" /\ m.bep = alloc + 1 /\ alloc' = alloc + 1
      /\ UNCHANGED <<base, ent, index>>
  BY DEF PutAlloc, MayCall, Running, Goto, dramVars, TypeOK, PutType
<1>2. alloc \in Nat  BY ConstantsAssumption DEF TypeOK, NvmType, Pointer
<1>3. /\ LastOf("idle") = alloc /\ LastOf("fill")' = alloc
      /\ Missing("idle") = 0 /\ Missing("fill")' = 0
      /\ FiledTo("idle") = alloc /\ FiledTo("fill")' = alloc
  BY <1>1, <1>2 DEF LastOf, Unlinked, Missing, Uncounted, FiledTo, Unfiled
<1>4. ListAt("fill", m)'
  BY <1>1, <1>3 DEF StoreAt, ListAt, Unlinked, Chained
<1>5. BytesAt("fill", m)'
  <2>1. Congruent(base.bytes_written, BytesFrom(ent, base.head, alloc) - 0)
    BY <1>3 DEF StoreAt, BytesAt
  <2> QED  BY <1>1, <1>3, <2>1 DEF BytesAt
<1>6. FiledAt("idle") => FiledAt("fill")'
  BY <1>1, <1>3 DEF FiledAt
<1> QED  BY <1>1, <1>4, <1>5, <1>6 DEF StoreAt

\* The header and the data are stored in an entry that is not on the list.
LEMMA FillStore ==
  ASSUME TypeOK, TypeOK', PutEntry, NEW t \in Threads, PutFill(t),
         StoreAt(pc[t], loc[t]), NEW q, NEW m, q = pc'[t], m = loc'[t]
  PROVE  StoreAt(q, m)'
<1>1. pc[t] = "fill"  BY DEF PutFill
<1>2. /\ ent \in [Addrs -> Entry] /\ base.head \in Pointer
      /\ alloc \in Addrs /\ alloc \in Nat /\ alloc > 0 /\ alloc - 1 \in Pointer
      /\ loc[t].bep = alloc /\ MaxEntries \in Nat
      /\ base.head \in 0 .. LastOf(pc[t])
      /\ pc \in [Threads -> PutLabels]
  BY <1>1, PutFacts DEF StoreAt
<1>3. /\ q = "readTail" /\ m = loc[t] /\ UNCHANGED <<base, alloc, index>>
      /\ ent' \in [Addrs -> Entry]
  BY <1>2 DEF PutFill, Goto, dramVars, TypeOK, NvmType
<1>4. /\ \A a \in Addrs \ {alloc} : ent'[a] = ent[a]
      /\ ent'[alloc].next = 0
  BY <1>2 DEF PutFill, Header
<1>5. /\ LastOf("fill") = alloc - 1 /\ LastOf("readTail")' = alloc - 1
      /\ Missing("fill") = 0 /\ Missing("readTail")' = 0
      /\ FiledTo("fill") = alloc - 1 /\ FiledTo("readTail")' = alloc - 1
  BY <1>2, <1>3 DEF LastOf, Unlinked, Missing, Uncounted, FiledTo, Unfiled
<1>6. \A a \in 1 .. alloc - 1 : ent'[a] = ent[a]
  BY <1>2, <1>4 DEF Addrs
<1>7. ListAt("readTail", m)'
  <2>1. ListAt("fill", loc[t])  BY <1>1 DEF StoreAt
  <2>2. ASSUME base.head # 0 PROVE Chained(ent', base.head, alloc - 1)
    <3>1. Chained(ent, base.head, alloc - 1)  BY <1>5, <2>1, <2>2 DEF ListAt
    <3>2. \A a \in base.head .. alloc - 1 : a \in 1 .. alloc - 1
      BY <1>2, <3>1 DEF Chained
    <3> QED  BY <1>6, <3>1, <3>2 DEF Chained
  <2> QED  BY <1>2, <1>3, <1>4, <1>5, <2>1, <2>2 DEF ListAt
<1>8. BytesAt("readTail", m)'
  <2>1. BytesFrom(ent', base.head, alloc - 1) = BytesFrom(ent, base.head, alloc - 1)
    <3>1. base.head \in 0 .. alloc - 1  BY <1>1, <1>2, <1>5
    <3>2. \A a \in 1 .. alloc - 1 : ent'[a].size = ent[a].size  BY <1>6
    <3> QED  BY <1>2, <1>3, <3>1, <3>2, BytesFromSame
  <2>2. Congruent(base.bytes_written, BytesFrom(ent, base.head, alloc - 1) - 0)
    BY <1>1, <1>5 DEF StoreAt, BytesAt
  <2> QED  BY <1>3, <1>5, <2>1, <2>2 DEF BytesAt
<1>9. ASSUME FiledAt("fill") PROVE FiledAt("readTail")'
  <2>1. ASSUME NEW h \in Hashes
        PROVE  Collected(ent', base.head, h, alloc - 1) =
                 Collected(ent, base.head, h, alloc - 1)
    <3>1. \A a \in 1 .. alloc - 1 :
            /\ ent'[a].key = ent[a].key /\ ent'[a].data = ent[a].data
            /\ ent'[a].size = ent[a].size
      BY <1>6
    <3> QED  BY <1>2, <1>3, <3>1, CollectedSame
  <2> QED  BY <1>3, <1>5, <1>9, <2>1 DEF FiledAt
<1> QED  BY <1>1, <1>3, <1>7, <1>8, <1>9 DEF StoreAt

\* The entry becomes the head of an empty list.
LEMMA SetHeadStore ==
  ASSUME TypeOK, PutEntry, NEW t \in Threads, PutSetHead(t),
         StoreAt(pc[t], loc[t]), NEW q, NEW m, q = pc'[t], m = loc'[t]
  PROVE  StoreAt(q, m)'
<1>1. pc[t] = "setHead"  BY DEF PutSetHead
<1>2. /\ ent \in [Addrs -> Entry] /\ base \in Base /\ alloc \in Addrs
      /\ alloc \in Nat /\ alloc > 0 /\ alloc - 1 \in Pointer /\ alloc \in Pointer
      /\ loc[t].bep = alloc /\ MaxEntries \in Nat /\ ent[alloc].size \in Nat
      /\ pc \in [Threads -> PutLabels]
  BY <1>1, PutFacts DEF StoreAt
<1>3. /\ q = "setTail" /\ m = loc[t] /\ UNCHANGED <<ent, alloc, index>>
      /\ base'.head = alloc /\ base'.bytes_written = base.bytes_written
  BY <1>2 DEF PutSetHead, Goto, dramVars, Base
<1>4. /\ LastOf("setHead") = alloc - 1 /\ LastOf("setTail")' = alloc
      /\ Missing("setHead") = 0 /\ Missing("setTail")' = ent[alloc].size
      /\ FiledTo("setHead") = alloc - 1 /\ FiledTo("setTail")' = alloc - 1
  BY <1>2, <1>3 DEF LastOf, Unlinked, Missing, Uncounted, FiledTo, Unfiled
<1>5. base.head = 0 /\ ent[alloc].next = 0
  BY <1>1 DEF StoreAt, ListAt, Unlinked
<1>6. ListAt("setTail", m)'
  <2>1. Chained(ent, alloc, alloc)  BY <1>2, <1>5 DEF Chained
  <2> QED  BY <1>2, <1>3, <1>4, <2>1 DEF ListAt, Unlinked
<1>7. BytesAt("setTail", m)'
  <2>1. BytesFrom(ent, alloc, alloc) = ent[alloc].size
    <3>1. alloc \in 0 .. alloc /\ alloc # 0  BY <1>2
    <3> QED  BY <1>2, <3>1, BytesFromIs
  <2>2. BytesFrom(ent, base.head, alloc - 1) - 0 = 0  BY <1>5 DEF BytesFrom
  <2>3. Congruent(base.bytes_written, 0)
    BY <1>1, <1>4, <2>2 DEF StoreAt, BytesAt
  <2>4. BytesFrom(ent, alloc, alloc) - ent[alloc].size = 0  BY <1>2, <2>1
  <2> QED  BY <1>3, <1>4, <2>3, <2>4 DEF BytesAt
<1>8. ASSUME FiledAt("setHead") PROVE FiledAt("setTail")'
  <2>1. ASSUME NEW h \in Hashes
        PROVE  Collected(ent, alloc, h, alloc - 1) =
                 Collected(ent, base.head, h, alloc - 1)
    <3>1. alloc - 1 < alloc /\ 0 \in Pointer  BY <1>2 DEF Pointer
    <3>2. Collected(ent, alloc, h, alloc - 1) = <<>>
      BY <1>2, <3>1, CollectedNone
    <3>3. Collected(ent, 0, h, alloc - 1) = <<>>
      BY <1>2, <3>1, CollectedNone
    <3> QED  BY <1>5, <3>2, <3>3
  <2> QED  BY <1>3, <1>4, <1>8, <2>1 DEF FiledAt
<1> QED  BY <1>1, <1>3, <1>6, <1>7, <1>8 DEF StoreAt

\* The entry is linked behind the last one.
LEMMA LinkStore ==
  ASSUME TypeOK, TypeOK', PutEntry, NEW t \in Threads, PutLink(t),
         fault' = fault, StoreAt(pc[t], loc[t]),
         NEW q, NEW m, q = pc'[t], m = loc'[t]
  PROVE  StoreAt(q, m)'
<1>1. pc[t] = "link" /\ fault = "none"  BY DEF PutLink, Running
<1>2. /\ ent \in [Addrs -> Entry] /\ base.head \in Pointer /\ alloc \in Addrs
      /\ alloc \in Nat /\ alloc > 0 /\ alloc - 1 \in Pointer /\ alloc \in Pointer
      /\ loc[t].bep = alloc /\ MaxEntries \in Nat /\ ent[alloc].size \in Nat
      /\ pc \in [Threads -> PutLabels]
  BY <1>1, PutFacts DEF StoreAt
<1>3. ListAt("link", loc[t])  BY <1>1 DEF StoreAt
<1>4. /\ LastOf("link") = alloc - 1
      /\ Missing("link") = 0 /\ FiledTo("link") = alloc - 1
  BY <1>2 DEF LastOf, Unlinked, Missing, Uncounted, FiledTo, Unfiled
<1>5. /\ base.head # 0 /\ Chained(ent, base.head, alloc - 1)
      /\ loc[t].tl = alloc - 1 /\ ent[alloc].next = 0
  BY <1>3, <1>4 DEF ListAt, Unlinked
<1>6. base.head \in 1 .. alloc - 1 /\ alloc - 1 \in Addrs /\ alloc - 1 # 0
  BY <1>2, <1>5 DEF Chained, Addrs
<1>7. /\ q = "setTail" /\ m = loc[t] /\ UNCHANGED <<base, alloc, index>>
      /\ ent' = [ent EXCEPT ![alloc - 1].next = alloc]
      /\ ent' \in [Addrs -> Entry]
  BY <1>1, <1>2, <1>5, <1>6 DEF PutLink, Goto, dramVars, TypeOK, NvmType
<1>8. /\ \A a \in Addrs : /\ ent'[a].key = ent[a].key
                          /\ ent'[a].data = ent[a].data
                          /\ ent'[a].size = ent[a].size
      /\ \A a \in Addrs \ {alloc - 1} : ent'[a].next = ent[a].next
      /\ ent'[alloc - 1].next = alloc
  <2>1. \A a \in Addrs : ent[a] \in Entry  BY <1>2
  <2> QED  BY <1>6, <1>7, <2>1 DEF Entry
<1>9. /\ LastOf("setTail")' = alloc /\ Missing("setTail")' = ent[alloc].size
      /\ FiledTo("setTail")' = alloc - 1
  BY <1>2, <1>7, <1>8 DEF LastOf, Unlinked, Missing, Uncounted, FiledTo, Unfiled
<1>10. Chained(ent', base.head, alloc)
  <2>1. base.head \in 1 .. alloc  BY <1>2, <1>6
  <2>2. ASSUME NEW a \in base.head .. alloc
        PROVE  ent'[a].next = IF a = alloc THEN 0 ELSE a + 1
    <3>1. a \in Addrs  BY <1>2, <1>6 DEF Addrs
    <3>2. CASE a = alloc
      <4>1. a # alloc - 1  BY <1>2, <3>2
      <4> QED  BY <1>5, <1>8, <3>1, <3>2, <4>1
    <3>3. CASE a = alloc - 1
      <4>1. a # alloc /\ a + 1 = alloc  BY <1>2, <3>3
      <4> QED  BY <1>8, <3>3, <4>1
    <3>4. CASE a # alloc /\ a # alloc - 1
      <4>1. a \in base.head .. alloc - 1  BY <1>2, <1>6, <3>4
      <4>2. ent[a].next = a + 1  BY <1>5, <3>4, <4>1 DEF Chained
      <4> QED  BY <1>8, <3>1, <3>4, <4>2
    <3> QED  BY <3>2, <3>3, <3>4
  <2> QED  BY <2>1, <2>2 DEF Chained
<1>11. ListAt("setTail", m)'
  BY <1>2, <1>5, <1>7, <1>9, <1>10 DEF ListAt, Unlinked
<1>12. BytesAt("setTail", m)'
  <2>1. Congruent(base.bytes_written, BytesFrom(ent, base.head, alloc - 1) - 0)
    BY <1>1, <1>4 DEF StoreAt, BytesAt
  <2>2. /\ BytesFrom(ent, base.head, alloc) =
             BytesFrom(ent, base.head, alloc - 1) + ent[alloc].size
        /\ BytesFrom(ent, base.head, alloc - 1) \in Int
    <3>1. base.head \in 0 .. alloc /\ base.head # 0 /\ base.head < alloc
          /\ base.head \in 0 .. alloc - 1
      BY <1>2, <1>6
    <3> QED  BY <1>2, <3>1, BytesFromIs
  <2>3. BytesFrom(ent', base.head, alloc) = BytesFrom(ent, base.head, alloc)
    <3>1. base.head \in 0 .. alloc  BY <1>2, <1>6
    <3>2. \A a \in 1 .. alloc : ent'[a].size = ent[a].size
      BY <1>2, <1>8 DEF Addrs
    <3>3. ent' \in [Addrs -> Entry]  BY <1>7
    <3> QED  BY <1>2, <3>1, <3>2, <3>3, BytesFromSame
  <2>4. BytesFrom(ent', base.head, alloc) - ent[alloc].size =
          BytesFrom(ent, base.head, alloc - 1) - 0
    BY <1>2, <2>2, <2>3
  <2> QED  BY <1>7, <1>9, <2>1, <2>4 DEF BytesAt
<1>13. ASSUME FiledAt("link") PROVE FiledAt("setTail")'
  <2>1. ASSUME NEW h \in Hashes
        PROVE  Collected(ent', base.head, h, alloc - 1) =
                 Collected(ent, base.head, h, alloc - 1)
    <3>1. \A a \in 1 .. alloc - 1 :
            /\ ent'[a].key = ent[a].key /\ ent'[a].data = ent[a].data
            /\ ent'[a].size = ent[a].size
      BY <1>2, <1>8 DEF Addrs
    <3> DEFINE e == ent
               f == ent'
               k == alloc - 1
               hd == base.head
    <3>2. /\ e \in [Addrs -> Entry] /\ f \in [Addrs -> Entry] /\ k \in Pointer
          /\ hd \in Pointer
      BY <1>2, <1>7
    <3>3. \A a \in 1 .. k : /\ f[a].key = e[a].key /\ f[a].data = e[a].data
                           /\ f[a].size = e[a].size
      BY <3>1
    <3> HIDE DEF e, f, k, hd
    <3>4. Collected(f, hd, h, k) = Collected(e, hd, h, k)
      BY <3>2, <3>3, CollectedSame
    <3> QED  BY <3>4 DEF e, f, k, hd
  <2> QED  BY <1>4, <1>7, <1>9, <1>13, <2>1 DEF FiledAt
<1> QED  BY <1>1, <1>7, <1>11, <1>12, <1>13 DEF StoreAt

\* The entry becomes the tail.
LEMMA SetTailStore ==
  ASSUME TypeOK, PutEntry, NEW t \in Threads, PutSetTail(t),
         StoreAt(pc[t], loc[t]), NEW q, NEW m, q = pc'[t], m = loc'[t]
  PROVE  StoreAt(q, m)'
<1>1. pc[t] = "setTail"  BY DEF PutSetTail
<1>2. /\ base \in Base /\ loc[t].bep = alloc /\ pc \in [Threads -> PutLabels]
  BY <1>1, PutFacts DEF StoreAt
<1>3. /\ q = "loadBytes" /\ m = loc[t] /\ UNCHANGED <<ent, alloc, index>>
      /\ base'.head = base.head /\ base'.bytes_written = base.bytes_written
      /\ base'.tail = alloc
  BY <1>2 DEF PutSetTail, Goto, dramVars, Base
<1>4. /\ LastOf("setTail") = alloc /\ LastOf("loadBytes")' = alloc
      /\ Missing("setTail") = ent[alloc].size
      /\ Missing("loadBytes")' = ent[alloc].size
      /\ FiledTo("setTail") = alloc - 1 /\ FiledTo("loadBytes")' = alloc - 1
  BY <1>3 DEF LastOf, Unlinked, Missing, Uncounted, FiledTo, Unfiled
<1>5. ListAt("setTail", loc[t])  BY <1>1 DEF StoreAt
<1>6. ListAt("loadBytes", m)'
  <2>1. base.head # 0 /\ Chained(ent, base.head, alloc)
    BY <1>4, <1>5 DEF ListAt
  <2> QED  BY <1>2, <1>3, <1>4, <2>1 DEF ListAt, Unlinked
<1>7. BytesAt("loadBytes", m)'
  <2>1. Congruent(base.bytes_written,
                  BytesFrom(ent, base.head, alloc) - ent[alloc].size)
    BY <1>1, <1>4 DEF StoreAt, BytesAt
  <2> QED  BY <1>3, <1>4, <2>1 DEF BytesAt
<1>8. ASSUME FiledAt("setTail") PROVE FiledAt("loadBytes")'
  BY <1>3, <1>4, <1>8 DEF FiledAt
<1> QED  BY <1>1, <1>3, <1>6, <1>7, <1>8 DEF StoreAt

\* bytes_written catches up with the list.
LEMMA StoreBytesStore ==
  ASSUME TypeOK, PutEntry, NEW t \in Threads, PutStoreBytes(t),
         StoreAt(pc[t], loc[t]), NEW q, NEW m, q = pc'[t], m = loc'[t]
  PROVE  StoreAt(q, m)'
<1>1. pc[t] = "storeBytes"  BY DEF PutStoreBytes
<1>2. /\ ent \in [Addrs -> Entry] /\ base \in Base /\ alloc \in Pointer
      /\ base.head \in 0 .. LastOf(pc[t]) /\ loc[t].bep = alloc
      /\ ent[alloc].size = SizeOf[loc[t].val] /\ ent[alloc].size \in Nat
      /\ pc \in [Threads -> PutLabels]
  BY <1>1, PutFacts DEF StoreAt
<1>3. /\ q = "meta" /\ m = loc[t] /\ UNCHANGED <<ent, alloc, index>>
      /\ base'.head = base.head /\ base'.tail = base.tail
      /\ base'.bytes_written = Add64(loc[t].tmp, SizeOf[loc[t].val])
  BY <1>2 DEF PutStoreBytes, Goto, dramVars, Base
<1>4. /\ LastOf("storeBytes") = alloc /\ LastOf("meta")' = alloc
      /\ Missing("storeBytes") = ent[alloc].size /\ Missing("meta")' = 0
      /\ FiledTo("storeBytes") = alloc - 1 /\ FiledTo("meta")' = alloc - 1
  BY <1>3 DEF LastOf, Unlinked, Missing, Uncounted, FiledTo, Unfiled
<1>5. ListAt("storeBytes", loc[t])  BY <1>1 DEF StoreAt
<1>6. ListAt("meta", m)'
  <2>1. base.head # 0 /\ Chained(ent, base.head, alloc) /\ base.tail = alloc
    BY <1>4, <1>5 DEF ListAt
  <2> QED  BY <1>2, <1>3, <1>4, <2>1 DEF ListAt, Unlinked
<1>7. BytesAt("meta", m)'
  <2> DEFINE x == base.bytes_written
             y == BytesFrom(ent, base.head, alloc)
             d == ent[alloc].size
  <2>1. Congruent(x, y - d) /\ loc[t].tmp = x
    BY <1>1, <1>4 DEF StoreAt, BytesAt
  <2>2. x \in Int /\ y \in Int /\ d \in Int
    <3>1. x \in Int  BY <1>2, ConstantsAssumption DEF Base, Counter
    <3>2. y \in Int  BY <1>1, <1>2, <1>4, BytesFromIs
    <3> QED  BY <1>2, <3>1, <3>2
  <2>3. base'.bytes_written = (x + d) % W  BY <1>2, <1>3, <2>1 DEF Add64
  <2>4. y - d \in Int /\ (y - d) + d = y - 0
    <3> HIDE DEF y, d
    <3> QED  BY <2>2
  <2> HIDE DEF x, y, d
  <2>5. Congruent((x + d) % W, (y - d) + d)  BY <2>1, <2>2, <2>4, ModCongruent
  <2>6. Congruent(base'.bytes_written, y - 0)  BY <2>3, <2>4, <2>5
  <2> QED  BY <1>3, <1>4, <2>6 DEF BytesAt, y
<1>8. ASSUME FiledAt("storeBytes") PROVE FiledAt("meta")'
  BY <1>3, <1>4, <1>8 DEF FiledAt
<1> QED  BY <1>1, <1>3, <1>6, <1>7, <1>8 DEF StoreAt

\* update_meta files the entry, and the index catches up with the list.
LEMMA UpdateMetaStore ==
  ASSUME TypeOK, ListStructure, PutEntry, NEW t \in Threads, UpdateMeta(t),
         StoreAt(pc[t], loc[t]), NEW q, NEW m, q = pc'[t], m = loc'[t]
  PROVE  StoreAt(q, m)'
<1>1. pc[t] = "meta"  BY DEF UpdateMeta
<1>2. /\ ent \in [Addrs -> Entry] /\ base.head \in Pointer /\ alloc \in Addrs
      /\ alloc \in Nat /\ alloc > 0 /\ loc[t].bep = alloc
      /\ ent[alloc].key = loc[t].hash
  BY <1>1, PutFacts DEF StoreAt
<1>3. Updated(t)  BY UpdateMetaEffect
<1>4. /\ q \in {"failed", "done", "total"} /\ m = loc[t]
      /\ q = "failed" => MallocMayFail
      /\ UNCHANGED <<base, ent, alloc>>
  BY <1>3 DEF Updated, UpdateMeta, nvmVars
<1>5. /\ LastOf("meta") = alloc /\ LastOf(q)' = alloc
      /\ Missing("meta") = 0 /\ Missing(q)' = 0
      /\ FiledTo("meta") = alloc - 1 /\ FiledTo(q)' = alloc
  BY <1>4 DEF LastOf, Unlinked, Missing, Uncounted, FiledTo, Unfiled
<1>6. ListAt("meta", loc[t]) /\ BytesAt("meta", loc[t])  BY <1>1 DEF StoreAt
<1>7. base.head # 0 /\ Chained(ent, base.head, alloc) /\ base.tail = alloc
  BY <1>5, <1>6 DEF ListAt
<1>8. ListAt(q, m)'
  BY <1>2, <1>4, <1>5, <1>7 DEF ListAt, Unlinked
<1>9. BytesAt(q, m)'
  <2>1. Congruent(base.bytes_written, BytesFrom(ent, base.head, alloc) - 0)
    BY <1>5, <1>6 DEF BytesAt
  <2> QED  BY <1>4, <1>5, <2>1 DEF BytesAt
<1>10. ASSUME ~MallocMayFail PROVE FiledAt(q)'
  <2> DEFINE b == BlockMeta(loc[t].bep)
             k == loc[t].hash
  <2>1. pc'[t] # "failed" /\ k \in Hashes  BY <1>3, <1>10 DEF Updated
  <2>2. /\ index'[k].list = Append(index[k].list, b)
        /\ \A g \in Hashes \ {k} : index'[g].list = index[g].list
    BY <2>1, UpdateMetaList
  <2>3. b = MetaAt(ent, alloc)  BY <1>2 DEF BlockMeta, MetaAt
  <2>4. FiledAt("meta")  BY <1>1, <1>10 DEF StoreAt
  <2>5. ASSUME NEW h \in Hashes
        PROVE  index'[h].list = Collected(ent, base.head, h, alloc)
    <3>1. index[h].list = Collected(ent, base.head, h, alloc - 1)
      BY <1>5, <2>4 DEF FiledAt
    <3>2. Collected(ent, base.head, h, alloc) =
            CollectOne(ent, base.head, h, alloc,
                       Collected(ent, base.head, h, alloc - 1))
      BY <1>2, CollectedIs
    <3>3. ~(base.head = 0 \/ alloc < base.head)
      BY <1>2, <1>7 DEF Chained, Pointer
    <3>4. CASE h = k
      BY <1>2, <2>2, <2>3, <3>1, <3>2, <3>3, <3>4 DEF CollectOne
    <3>5. CASE h # k
      BY <1>2, <2>2, <3>1, <3>2, <3>3, <3>5 DEF CollectOne
    <3> QED  BY <3>4, <3>5
  <2> QED  BY <1>4, <1>5, <2>5 DEF FiledAt
<1> QED  BY <1>8, <1>9, <1>10 DEF StoreAt

\* The steps of put that only move it on.
LEMMA MovesStore ==
  ASSUME TypeOK, PutEntry, NEW t \in Threads,
         \/ PutReadTail(t) \/ PutLoadTail(t) \/ PutLoadBytes(t)
         \/ UpdateTotal(t) \/ UpdateLength(t),
         StoreAt(pc[t], loc[t]), NEW q, NEW m, q = pc'[t], m = loc'[t]
  PROVE  StoreAt(q, m)'
<1> DEFINE p == pc[t]
           l == loc[t]
<1>1. p # "idle"
  BY DEF PutReadTail, PutLoadTail, PutLoadBytes, UpdateTotal, UpdateLength
<1>2. /\ base \in Base /\ l.bep = alloc /\ pc \in [Threads -> PutLabels]
      /\ loc \in [Threads -> Locals] /\ l \in Locals
  BY <1>1, PutFacts DEF StoreAt
<1>3. UNCHANGED <<base, ent, alloc>>
  BY DEF PutReadTail, PutLoadTail, PutLoadBytes, UpdateTotal, UpdateLength,
         nvmVars
<1>4. ASSUME NEW h \in Hashes PROVE index'[h].list = index[h].list
  <2>1. index[h] \in MetaList /\ index \in [Hashes -> MetaList]
    BY DEF TypeOK, IndexType
  <2>2. CASE UpdateTotal(t)  BY <2>1, <2>2 DEF UpdateTotal, MetaList
  <2>3. CASE UpdateLength(t)  BY <2>1, <2>3 DEF UpdateLength, MetaList
  <2>4. CASE PutReadTail(t) \/ PutLoadTail(t) \/ PutLoadBytes(t)
    BY <2>4 DEF PutReadTail, PutLoadTail, PutLoadBytes, dramVars
  <2> QED  BY <2>2, <2>3, <2>4
<1>5. \/ /\ p = "readTail" /\ m = l
         /\ q = IF base.tail = 0 THEN "setHead" ELSE "loadTail"
      \/ /\ p = "loadTail" /\ q = "link" /\ m.bep = l.bep /\ m.tl = base.tail
      \/ /\ p = "loadBytes" /\ q = "storeBytes" /\ m.bep = l.bep
         /\ m.tmp = base.bytes_written
      \/ /\ p = "total" /\ q = "length" /\ m = l
      \/ /\ p = "length" /\ q = "done" /\ m = l
  BY <1>2 DEF PutReadTail, PutLoadTail, PutLoadBytes, UpdateTotal, UpdateLength,
              Goto, Locals
<1>6. /\ p \in Unlinked <=> q \in Unlinked
      /\ p \in Uncounted <=> q \in Uncounted
      /\ p \in Unfiled <=> q \in Unfiled
      /\ q = "storeBytes" => m.tmp = base.bytes_written
      /\ q # "idle" /\ m.bep = l.bep /\ p # "setTail" /\ q # "setTail"
      /\ p \in Unlinked => p # "fill" /\ q # "fill"
      /\ q = "setHead" => p = "readTail" /\ base.tail = 0
      /\ q = "loadTail" => p = "readTail" /\ base.tail # 0
      /\ q = "link" => p = "loadTail" /\ m.tl = base.tail
  BY <1>5 DEF Unlinked, Uncounted, Unfiled
<1>7. StoreAt(p, l)  OBVIOUS
<1> HIDE DEF p, l
<1>8. /\ LastOf(q)' = LastOf(p)
      /\ BytesAt(q, m)' /\ (~MallocMayFail => FiledAt(q)')
  BY <1>3, <1>4, <1>6, <1>7, KindKept DEF StoreAt
<1>9. ListAt(p, l) /\ p # "idle" /\ l.bep = alloc
  BY <1>1, <1>2, <1>7 DEF StoreAt
<1>10. ListAt(q, m)'
  <2>1. q \in Unlinked \ {"fill"} => ent[alloc].next = 0
    BY <1>6, <1>9 DEF ListAt
  <2>2. CASE base.head = 0
    <3>1. base.tail = 0 /\ p \in {"idle", "fill", "readTail", "setHead"}
      BY <1>9, <2>2 DEF ListAt
    <3>2. p = "readTail" /\ q = "setHead"  BY <1>5, <3>1
    <3> QED  BY <1>3, <1>6, <1>9, <2>1, <2>2, <3>1, <3>2 DEF ListAt
  <2>3. CASE base.head # 0
    <3>1. /\ Chained(ent, base.head, LastOf(p)) /\ base.tail = LastOf(p)
          /\ base.tail # 0
      <4>1. /\ Chained(ent, base.head, LastOf(p)) /\ base.tail = LastOf(p)
        BY <1>6, <1>9, <2>3 DEF ListAt
      <4>2. base.tail \in Pointer /\ base.head \in 1 .. base.tail
        BY <1>2, <4>1 DEF Base, Chained
      <4>3. base.tail # 0
        BY <4>2, ConstantsAssumption DEF Pointer
      <4> QED  BY <4>1, <4>3
    <3>2. q # "setHead"  BY <1>6, <3>1
    <3> QED  BY <1>3, <1>6, <1>8, <1>9, <2>1, <2>3, <3>1, <3>2 DEF ListAt
  <2> QED  BY <2>2, <2>3
<1> QED  BY <1>8, <1>10 DEF StoreAt

\* put returns.
LEMMA ReturnStore ==
  ASSUME NEW p \in {"done", "failed"}, NEW l, StoreAt(p, l),
         UNCHANGED <<base, ent, alloc, index>>, NEW q, NEW m, q = "idle"
  PROVE  StoreAt(q, m)'
<1>1. /\ p \in Unlinked <=> q \in Unlinked
      /\ p \in Uncounted <=> q \in Uncounted
      /\ p \in Unfiled <=> q \in Unfiled
      /\ q # "storeBytes"
  BY DEF Unlinked, Uncounted, Unfiled
<1>2. BytesAt(p, l) /\ (~MallocMayFail => FiledAt(p)) /\ ListAt(p, l)
  BY DEF StoreAt
<1>3. /\ LastOf(q)' = LastOf(p)
      /\ BytesAt(q, m)' /\ (~MallocMayFail => FiledAt(q)')
  BY <1>1, <1>2, KindKept
<1>4. ListAt(q, m)'
  BY <1>2, <1>3 DEF ListAt, Unlinked
<1> QED  BY <1>3, <1>4 DEF StoreAt

-----------------------------------------------------------------------------
\* The steps of a put that has its entry.
LEMMA RunningPut ==
  ASSUME TypeOK, TypeOK', ListStructure, PutEntry, NEW t \in Threads,
         PutStep(t), fault' = fault, StoreAt(pc[t], loc[t]),
         NEW q, NEW m, q = pc'[t], m = loc'[t]
  PROVE  /\ StoreAt(q, m)'
         /\ q = "idle" => m = IdleLoc
<1>1. CASE PutFill(t)
  <2>1. q # "idle"  BY <1>1 DEF PutFill, Goto, TypeOK, PutType
  <2> QED  BY <1>1, <2>1, FillStore
<1>2. CASE PutSetHead(t)
  <2>1. q # "idle"  BY <1>2 DEF PutSetHead, Goto, TypeOK, PutType
  <2> QED  BY <1>2, <2>1, SetHeadStore
<1>3. CASE PutLink(t)
  <2>1. q # "idle"  BY <1>3 DEF PutLink, Running, Goto, TypeOK, PutType
  <2> QED  BY <1>3, <2>1, LinkStore
<1>4. CASE PutSetTail(t)
  <2>1. q # "idle"  BY <1>4 DEF PutSetTail, Goto, TypeOK, PutType
  <2> QED  BY <1>4, <2>1, SetTailStore
<1>5. CASE PutStoreBytes(t)
  <2>1. q # "idle"  BY <1>5 DEF PutStoreBytes, Goto, TypeOK, PutType
  <2> QED  BY <1>5, <2>1, StoreBytesStore
<1>6. CASE UpdateMeta(t)
  <2>1. q # "idle"  BY <1>6, UpdateMetaEffect DEF Updated
  <2> QED  BY <1>6, <2>1, UpdateMetaStore
<1>7. CASE \/ PutReadTail(t) \/ PutLoadTail(t) \/ PutLoadBytes(t)
           \/ UpdateTotal(t) \/ UpdateLength(t)
  <2>1. q # "idle"
    BY <1>7 DEF PutReadTail, PutLoadTail, PutLoadBytes, UpdateTotal,
                UpdateLength, Goto, TypeOK, PutType
  <2> QED  BY <1>7, <2>1, MovesStore
<1>8. CASE PutReturn(t)
  <2>1. /\ pc[t] \in {"done", "failed"} /\ q = "idle" /\ m = IdleLoc
        /\ UNCHANGED <<base, ent, alloc, index>>
    BY <1>8 DEF PutReturn, Goto, TypeOK, PutType, nvmVars, dramVars
  <2> QED  BY <2>1, ReturnStore
<1> QED  BY <1>1, <1>2, <1>3, <1>4, <1>5, <1>6, <1>7, <1>8 DEF PutStep

\* A step of put, when no other put is running.
LEMMA PutSeq ==
  ASSUME ~CloseConcurrent, TypeOK, TypeOK', ListStructure, PutEntry,
         ClosedQuietly, SeqInv, OneAtATime', NEW t \in Threads, PutNext(t)
  PROVE  SeqInv'
<1>1. fa.pc = "idle" /\ life = "open" /\ fa' = fa /\ life' = life
  BY CallWhileOpen
<1>2. /\ \A u \in Threads \ {t} : pc'[u] = pc[u] /\ loc'[u] = loc[u]
      /\ fault = "none" /\ Running
  BY PutFrame DEF Running
<1>3. InUse  BY <1>1, <1>2 DEF SeqInv
<1>4. PICK p \in PutLabels, l \in Locals : Active(p, l) /\ StoreAt(p, l)
  BY <1>3 DEF InUse
<1>5. CASE fault' # "none"  BY <1>1, <1>5 DEF SeqInv, Running
<1>6. CASE fault' = "none"
  <2>1. pc'[t] \in PutLabels /\ loc'[t] \in Locals  BY DEF TypeOK, PutType
  <2>2. PICK q \in PutLabels, m \in Locals : q = pc'[t] /\ m = loc'[t]
    BY <2>1
  <2>3. CASE pc[t] = "idle"
    <3>1. PICK h \in Hashes, v \in Vals : PutAlloc(t, h, v)
      BY <2>3 DEF PutNext, PutStep, PutFill, PutReadTail, PutSetHead,
                  PutLoadTail, PutLink, PutSetTail, PutLoadBytes, PutStoreBytes,
                  UpdateMeta, UpdateTotal, UpdateLength, PutReturn
    <3>2. pc'[t] = "fill"
      BY <1>2, <1>6, <3>1 DEF PutAlloc, Goto, TypeOK, PutType
    <3>3. \A u \in Threads \ {t} : pc'[u] = "idle" /\ pc[u] = "idle"
      BY <1>2, <3>2 DEF OneAtATime
    <3>4. p = "idle"  BY <1>4, <2>3, <3>3 DEF Active
    <3>5. StoreAt("idle", l)  BY <1>4, <3>4
    <3>6. fault' = fault  BY <1>2, <1>6
    <3>7. StoreAt(q, m)'  BY <2>2, <3>1, <3>5, <3>6, AllocStore
    <3>8. InUse'  BY <2>2, <3>2, <3>3, <3>7, InUseNext
    <3> QED  BY <1>1, <3>8 DEF SeqInv
  <2>4. CASE pc[t] # "idle"
    <3>1. p = pc[t] /\ l = loc[t] /\ \A u \in Threads \ {t} : pc[u] = "idle"
      BY <1>4, <2>4, ActivePut
    <3>2. PutStep(t)  BY <2>4 DEF PutNext, PutAlloc
    <3>3. fault' = fault /\ StoreAt(pc[t], loc[t])  BY <1>2, <1>4, <1>6, <3>1
    <3>4. StoreAt(q, m)' /\ (q = "idle" => m = IdleLoc)
      BY <2>2, <3>2, <3>3, RunningPut
    <3>5. \A u \in Threads \ {t} : pc'[u] = "idle"  BY <1>2, <3>1
    <3>6. CASE q # "idle"
      <4>1. InUse'  BY <2>2, <3>4, <3>5, <3>6, InUseNext
      <4> QED  BY <1>1, <4>1 DEF SeqInv
    <3>7. CASE q = "idle"
      <4>1. \A u \in Threads : pc'[u] = "idle"  BY <2>2, <3>5, <3>7
      <4>2. Active(q, m)'  BY <3>4, <3>7, <4>1 DEF Active
      <4>3. InUse'  BY <2>2, <3>4, <4>2 DEF InUse
      <4> QED  BY <1>1, <4>3 DEF SeqInv
    <3> QED  BY <3>6, <3>7
  <2> QED  BY <2>3, <2>4
<1> QED  BY <1>5, <1>6

\* Steps that touch neither list nor index nor puts.
LEMMA InUseSame ==
  ASSUME InUse, UNCHANGED <<base, ent, alloc, index, pc, loc>>
  PROVE  InUse'
<1>1. PICK p \in PutLabels, l \in Locals : Active(p, l) /\ StoreAt(p, l)
  BY DEF InUse
<1>2. Active(p, l)'  BY <1>1 DEF Active
<1>3. /\ LastOf(p)' = LastOf(p)
      /\ BytesAt(p, l)' /\ (~MallocMayFail => FiledAt(p)')
  BY <1>1, KindKept DEF StoreAt, BytesAt
<1>4. ListAt(p, l)'  BY <1>1, <1>3 DEF StoreAt, ListAt
<1> QED  BY <1>2, <1>3, <1>4 DEF InUse, StoreAt

\* Readers do not matter.
LEMMA ReaderSeq ==
  ASSUME ~CloseConcurrent, TypeOK, ClosedQuietly, SeqInv,
         NEW r \in Readers, ReaderNext(r)
  PROVE  SeqInv'
<1>1. fa.pc = "idle" /\ life = "open" /\ fa' = fa /\ life' = life
  BY CallWhileOpen
<1>2. UNCHANGED <<base, ent, alloc, index, pc, loc>>
  BY ReaderFrame DEF nvmVars, dramVars
<1>3. Running
  BY DEF ReaderNext, ReaderStep, SizeContains, SizeFind, GetMeta, Get,
         ListFind, GetMetaWalk, GetCopy, GetReturn, MayCall
<1>4. InUse  BY <1>1, <1>3 DEF SeqInv
<1>5. InUse'  BY <1>2, <1>4, InUseSame
<1> QED  BY <1>1, <1>5 DEF SeqInv

-----------------------------------------------------------------------------
\* An empty list has no bytes and no blocks.
LEMMA EmptyChain ==
  ASSUME NEW e \in [Addrs -> Entry], NEW k \in Pointer
  PROVE  /\ Congruent(0, BytesFrom(e, 0, k) - 0)
         /\ \A h \in Hashes : Collected(e, 0, h, k) = <<>>
<1>1. BytesFrom(e, 0, k) = 0  BY DEF BytesFrom
<1>2. 0 = (0 - 0) + 0 * W  BY ConstantsAssumption
<1>3. Congruent(0, 0 - 0)  BY <1>2 DEF Congruent
<1>4. 0 \in Pointer  BY ConstantsAssumption DEF Pointer
<1>5. \A h \in Hashes : Collected(e, 0, h, k) = <<>>  BY <1>4, CollectedNone
<1> QED  BY <1>1, <1>3, <1>5

\* An idle put has locals.
LEMMA IdleType == "idle" \in PutLabels /\ IdleLoc \in Locals
  BY ConstantsAssumption DEF PutLabels, IdleLoc, Locals, Pointer, Counter

\* A fresh store.
LEMMA SeqInit == Init => SeqInv
<1> SUFFICES ASSUME Init PROVE SeqInv  OBVIOUS
<1>1. TypeOK  BY InitType
<1>2. ent \in [Addrs -> Entry] /\ alloc \in Pointer  BY <1>1 DEF TypeOK, NvmType
<1>3. /\ base.head = 0 /\ base.tail = 0 /\ base.bytes_written = 0
      /\ \A h \in Hashes : index[h].list = <<>>
  BY DEF Init, EmptyBase, EmptyList
<1>4. LastOf("idle") = alloc /\ Missing("idle") = 0 /\ FiledTo("idle") = alloc
  BY DEF LastOf, Missing, FiledTo, Unlinked, Uncounted, Unfiled
<1>5. ListAt("idle", IdleLoc)  BY <1>3 DEF ListAt, Unlinked
<1>6. BytesAt("idle", IdleLoc) /\ FiledAt("idle")
  BY <1>2, <1>3, <1>4, EmptyChain DEF BytesAt, FiledAt
<1>7. Active("idle", IdleLoc)  BY DEF Active, Init
<1>8. InUse  BY <1>5, <1>6, <1>7, IdleType DEF InUse, StoreAt
<1>9. fa.pc = "idle" /\ life = "open"  BY DEF Init, IdleCloser
<1> QED  BY <1>8, <1>9 DEF SeqInv

\* A new store.
LEMMA OpenSeq ==
  ASSUME TypeOK, Open, fa.pc = "idle"
  PROVE  SeqInv'
<1>1. /\ life' = "open" /\ Quiet /\ base' = EmptyBase
      /\ index' = [h \in Hashes |-> EmptyList]
      /\ UNCHANGED <<ent, alloc, pc, fa>>
  BY DEF Open, procVars
<1>2. ent' \in [Addrs -> Entry] /\ alloc' \in Pointer
  BY <1>1 DEF TypeOK, NvmType
<1>3. /\ base'.head = 0 /\ base'.tail = 0 /\ base'.bytes_written = 0
      /\ \A h \in Hashes : index'[h].list = <<>>
  BY <1>1 DEF EmptyBase, EmptyList
<1>4. /\ LastOf("idle")' = alloc' /\ Missing("idle")' = 0
      /\ FiledTo("idle")' = alloc'
  BY DEF LastOf, Missing, FiledTo, Unlinked, Uncounted, Unfiled
<1>5. ListAt("idle", IdleLoc)'  BY <1>3 DEF ListAt, Unlinked
<1>6. BytesAt("idle", IdleLoc)' /\ FiledAt("idle")'
  <2> DEFINE e == ent'
             k == alloc'
  <2>1. e \in [Addrs -> Entry] /\ k \in Pointer  BY <1>2
  <2> HIDE DEF e, k
  <2>2. /\ Congruent(0, BytesFrom(e, 0, k) - 0)
        /\ \A h \in Hashes : Collected(e, 0, h, k) = <<>>
    BY <2>1, EmptyChain
  <2> QED  BY <1>3, <1>4, <2>2 DEF BytesAt, FiledAt, e, k
<1>7. Active("idle", IdleLoc)'  BY <1>1 DEF Active, Quiet
<1>8. InUse'  BY <1>5, <1>6, <1>7, IdleType DEF InUse, StoreAt
<1> QED  BY <1>1, <1>8 DEF SeqInv

\* free_all starts at the head of a list whose bytes are all counted.
LEMMA FreeingStarts ==
  ASSUME TypeOK, InUse, Quiet, fa'.pc = "walk", fa'.cur = base.head,
         UNCHANGED <<base, ent, alloc>>
  PROVE  Freeing'
<1>1. PICK p \in PutLabels, l \in Locals : Active(p, l) /\ StoreAt(p, l)
  BY DEF InUse
<1>2. p = "idle"  BY <1>1 DEF Active, Quiet
<1>3. LastOf(p) = alloc /\ Missing(p) = 0
  BY <1>2 DEF LastOf, Missing, Unlinked, Uncounted
<1>4. base.head = 0 \/ Chained(ent, base.head, alloc)
  BY <1>1, <1>3 DEF StoreAt, ListAt
<1>5. alloc \in Pointer /\ ent \in [Addrs -> Entry] /\ base.head \in Pointer
  BY DEF TypeOK, NvmType, Base
<1>6. base.head \in 0 .. alloc
  BY <1>4, <1>5, ConstantsAssumption DEF Chained, Pointer
<1>7. BytesFrom(ent, base.head, alloc) \in Int  BY <1>5, <1>6, BytesFromIs
<1>8. Congruent(base.bytes_written, BytesFrom(ent, base.head, alloc) - 0)
  BY <1>1, <1>3 DEF StoreAt, BytesAt
<1>9. Congruent(base.bytes_written, BytesFrom(ent, base.head, alloc))
  <2>1. BytesFrom(ent, base.head, alloc) - 0 = BytesFrom(ent, base.head, alloc)
    BY <1>7
  <2> QED  BY <1>8, <2>1
<1>10. Congruent(base'.bytes_written, BytesFrom(ent', fa'.cur, alloc'))
  BY <1>9
<1>11. fa'.cur = 0 \/ Chained(ent', fa'.cur, alloc')  BY <1>4
<1> QED  BY <1>10, <1>11 DEF Freeing

\* The loop of free_all subtracts the size of one entry and goes on with the
\* next.
LEMMA FreeingSubtracts ==
  ASSUME TypeOK, Freeing, FaSubStore
  PROVE  Freeing'
<1> DEFINE c == fa.cur
           x == base.bytes_written
           y == BytesFrom(ent, c, alloc)
           d == ent[c].size
           n == ent[c].next
<1>1. /\ fa.pc = "subStore" /\ UNCHANGED <<ent, alloc>>
      /\ base' = [base EXCEPT !.bytes_written = Sub64(fa.tmp, fa.size)]
      /\ fa' = [fa EXCEPT !.pc = "walk", !.cur = fa.next]
  BY DEF FaSubStore
<1>2. /\ c # 0 /\ Chained(ent, c, alloc) /\ Congruent(x, y)
      /\ fa.size = d /\ fa.next = n /\ fa.tmp = x
  BY <1>1 DEF Freeing
<1>3. base \in Base /\ fa \in CloserLocals /\ ent \in [Addrs -> Entry]
      /\ alloc \in Pointer /\ c \in Pointer
  BY DEF TypeOK, NvmType, CloserType, CloserLocals
<1>4. fa'.pc = "walk" /\ fa'.cur = n /\ base'.bytes_written = (x - d) % W
  BY <1>1, <1>2, <1>3 DEF CloserLocals, Base, Sub64
<1>5. /\ MaxEntries \in Nat /\ alloc \in Nat /\ alloc <= MaxEntries
      /\ c \in 1 .. alloc /\ c \in Nat /\ c \in 0 .. alloc /\ c \in Addrs
  BY <1>2, <1>3, ConstantsAssumption DEF Chained, Pointer, Addrs
<1>6. d \in Nat /\ x \in Int
  <2>1. ent[c] \in Entry  BY <1>3, <1>5
  <2>2. d \in Nat  BY <2>1 DEF Entry
  <2>3. x \in Int  BY <1>3, ConstantsAssumption DEF Base, Counter
  <2> QED  BY <2>2, <2>3
<1>7. y \in Int /\ (c = alloc => y = d)
      /\ (c < alloc => y = d + BytesFrom(ent, c + 1, alloc))
  BY <1>2, <1>3, <1>5, BytesFromIs
<1>8. n = IF c = alloc THEN 0 ELSE c + 1
  BY <1>2, <1>5 DEF Chained
<1>9. /\ n = 0 \/ Chained(ent, n, alloc)
      /\ BytesFrom(ent, n, alloc) = y - d
  <2>1. CASE c = alloc
    <3>1. BytesFrom(ent, n, alloc) = 0  BY <1>8, <2>1 DEF BytesFrom
    <3>2. n = 0 /\ y - d = 0
      <4>1. y = d  BY <1>7, <2>1
      <4> HIDE DEF y, d
      <4> QED  BY <1>6, <1>8, <2>1, <4>1
    <3> QED  BY <3>1, <3>2
  <2>2. CASE c # alloc
    <3>1. c < alloc /\ c + 1 \in Nat /\ c + 1 \in 0 .. alloc /\ c + 1 \in 1 .. alloc
          /\ \A a \in c + 1 .. alloc : a \in c .. alloc
      <4> HIDE DEF c
      <4> QED  BY <1>5, <2>2
    <3>2. Chained(ent, n, alloc)
      <4>1. \A a \in c .. alloc : ent[a].next = IF a = alloc THEN 0 ELSE a + 1
        BY <1>2 DEF Chained
      <4>2. n = c + 1  BY <1>8, <2>2
      <4> HIDE DEF n, c
      <4> QED  BY <3>1, <4>1, <4>2 DEF Chained
    <3>3. BytesFrom(ent, n, alloc) = y - d
      <4>1. n = c + 1  BY <1>8, <2>2
      <4>2. y = d + BytesFrom(ent, c + 1, alloc)  BY <1>7, <3>1
      <4>3. BytesFrom(ent, c + 1, alloc) \in Int  BY <1>3, <3>1, BytesFromIs
      <4> DEFINE z == BytesFrom(ent, c + 1, alloc)
      <4>4. y = d + z /\ z \in Int /\ BytesFrom(ent, n, alloc) = z  BY <4>1, <4>2, <4>3
      <4> HIDE DEF y, d, z, n
      <4> QED  BY <1>6, <4>4
    <3> QED  BY <3>2, <3>3
  <2> QED  BY <2>1, <2>2
<1>10. Congruent((x - d) % W, y - d)
  <2> HIDE DEF x, y, d
  <2>1. -d \in Int /\ x + (-d) = x - d /\ y + (-d) = y - d  BY <1>6, <1>7
  <2>2. Congruent((x + (-d)) % W, y + (-d))  BY <1>2, <1>6, <1>7, <2>1, ModCongruent
  <2> QED  BY <2>1, <2>2
<1>11. Congruent(base'.bytes_written, BytesFrom(ent', fa'.cur, alloc'))
  <2>1. Congruent(base'.bytes_written, BytesFrom(ent, n, alloc))
    BY <1>4, <1>9, <1>10
  <2> QED  BY <1>1, <1>4, <2>1
<1>12. fa'.cur = 0 \/ Chained(ent', fa'.cur, alloc')
  BY <1>1, <1>4, <1>9
<1> QED  BY <1>4, <1>11, <1>12 DEF Freeing

\* The other steps of free_all.
LEMMA FreeingMoves ==
  ASSUME TypeOK, Freeing, FaVisit \/ FaSubLoad \/ FaClearHead \/ FaClearTail
  PROVE  Freeing'
<1>1. base \in Base /\ fa \in CloserLocals  BY DEF TypeOK, NvmType, CloserType
<1>2. CASE FaVisit
  <2>1. /\ fa.pc = "walk" /\ fa.cur # 0 /\ UNCHANGED <<base, ent, alloc>>
        /\ fa' = [fa EXCEPT !.pc = "subLoad", !.size = ent[fa.cur].size,
                            !.next = ent[fa.cur].next]
    BY <1>2 DEF FaVisit, nvmVars
  <2>2. /\ fa'.pc = "subLoad" /\ fa'.cur = fa.cur /\ fa'.size = ent[fa.cur].size
        /\ fa'.next = ent[fa.cur].next
    BY <1>1, <2>1 DEF CloserLocals
  <2>3. Chained(ent, fa.cur, alloc)
        /\ Congruent(base.bytes_written, BytesFrom(ent, fa.cur, alloc))
    BY <2>1 DEF Freeing
  <2> QED  BY <2>1, <2>2, <2>3 DEF Freeing
<1>3. CASE FaSubLoad
  <2>1. /\ fa.pc = "subLoad" /\ UNCHANGED <<base, ent, alloc>>
        /\ fa' = [fa EXCEPT !.pc = "subStore", !.tmp = base.bytes_written]
    BY <1>3 DEF FaSubLoad, nvmVars
  <2>2. /\ fa'.pc = "subStore" /\ fa'.cur = fa.cur /\ fa'.size = fa.size
        /\ fa'.next = fa.next /\ fa'.tmp = base.bytes_written
    BY <1>1, <2>1 DEF CloserLocals
  <2>3. Chained(ent, fa.cur, alloc) /\ fa.cur # 0
        /\ Congruent(base.bytes_written, BytesFrom(ent, fa.cur, alloc))
        /\ fa.size = ent[fa.cur].size /\ fa.next = ent[fa.cur].next
    BY <2>1 DEF Freeing
  <2> QED  BY <2>1, <2>2, <2>3 DEF Freeing
<1>4. CASE FaClearHead
  <2>1. /\ fa.pc = "walk" /\ fa.cur = 0
        /\ base' = [base EXCEPT !.head = 0] /\ fa' = [fa EXCEPT !.pc = "clearTail"]
    BY <1>4 DEF FaClearHead
  <2>2. base'.bytes_written = base.bytes_written /\ fa'.pc = "clearTail"
    BY <1>1, <2>1 DEF Base, CloserLocals
  <2>3. Congruent(base.bytes_written, 0)
    BY <2>1 DEF Freeing, BytesFrom
  <2>4. base.bytes_written = 0  BY <1>1, <2>3, CongruentZero DEF Base
  <2> QED  BY <2>2, <2>4 DEF Freeing
<1>5. CASE FaClearTail
  <2>1. /\ fa.pc = "clearTail"
        /\ base' = [base EXCEPT !.tail = 0] /\ fa' = [fa EXCEPT !.pc = "assert"]
    BY <1>5 DEF FaClearTail
  <2>2. base'.bytes_written = base.bytes_written /\ fa'.pc = "assert"
    BY <1>1, <2>1 DEF Base, CloserLocals
  <2>3. base.bytes_written = 0  BY <2>1 DEF Freeing
  <2> QED  BY <2>2, <2>3 DEF Freeing
<1> QED  BY <1>2, <1>3, <1>4, <1>5

\* Closing and opening the store, when no put is running.
LEMMA CloserSeq ==
  ASSUME ~CloseConcurrent, TypeOK, ClosedQuietly, SeqInv, CloserNext
  PROVE  SeqInv'
<1>0. fa \in CloserLocals /\ ent \in [Addrs -> Entry] /\ alloc \in Pointer
  BY DEF TypeOK, NvmType, CloserType
<1>1. CASE FaStart
  <2>1. Running /\ Quiet /\ InUse /\ life = "open" /\ life' = life
    BY <1>1 DEF FaStart, SeqInv, lifeVars, Running
  <2>2. fa'.pc = "walk" /\ fa'.cur = base.head /\ UNCHANGED <<base, ent, alloc>>
    BY <1>1 DEF FaStart, IdleCloser, nvmVars
  <2>3. Freeing'  BY <2>1, <2>2, FreeingStarts
  <2> QED  BY <2>1, <2>2, <2>3 DEF SeqInv
<1>2. ASSUME life' = life, life = "open", fa'.pc \in {"metaLock", "freeMeta"}
      PROVE  SeqInv'
  BY <1>2 DEF SeqInv, Freeing
<1>3. CASE StartDelete \/ FreeMetaLock \/ \E h \in Hashes : FreeMetaList(h)
  <2>1. life = "open" /\ life' = life
    BY <1>3 DEF StartDelete, FreeMetaLock, FreeMetaList, Running, lifeVars
  <2>2. fa'.pc \in {"metaLock", "freeMeta"}
    BY <1>0, <1>3 DEF StartDelete, FreeMetaLock, FreeMetaList, IdleCloser,
                      CloserLocals, procVars
  <2> QED  BY <1>2, <2>1, <2>2
<1>4. CASE FreeMetaDone
  <2>1. life = "open"  BY <1>4 DEF FreeMetaDone, Running
  <2>2. CASE life' = "deleted" /\ fa' = IdleCloser
    BY <2>2 DEF SeqInv, Running, IdleCloser
  <2>3. CASE life' = life /\ fa' = [fa EXCEPT !.pc = "metaLock", !.stage = "destroy"]
    <3>1. fa'.pc = "metaLock"  BY <1>0, <2>3 DEF CloserLocals
    <3> QED  BY <1>2, <2>1, <2>3, <3>1
  <2>4. CASE fault' # "none" /\ life' = life
    BY <2>1, <2>4 DEF SeqInv, Running
  <2> QED  BY <1>4, <2>2, <2>3, <2>4 DEF FreeMetaDone, Die
<1>5. CASE FaVisit \/ FaSubLoad \/ FaSubStore \/ FaClearHead \/ FaClearTail
  <2>1. Running /\ fa.pc # "idle" /\ life = "open" /\ life' = life
    BY <1>5 DEF FaVisit, FaSubLoad, FaSubStore, FaClearHead, FaClearTail,
                lifeVars, Running
  <2>2. fa'.pc # "idle"
    BY <1>0, <1>5 DEF FaVisit, FaSubLoad, FaSubStore, FaClearHead, FaClearTail,
                      CloserLocals
  <2>3. Freeing  BY <2>1 DEF SeqInv
  <2>4. Freeing'  BY <1>5, <2>3, FreeingMoves, FreeingSubtracts
  <2> QED  BY <2>1, <2>2, <2>4 DEF SeqInv
<1>6. CASE FaAssert
  <2>1. life = "open" /\ life' = life  BY <1>6 DEF FaAssert, Running
  <2>2. CASE fault' # "none"  BY <2>1, <2>2 DEF SeqInv, Running
  <2>3. CASE fa' = [fa EXCEPT !.pc = "metaLock"]
    <3>1. fa'.pc = "metaLock"  BY <1>0, <2>3 DEF CloserLocals
    <3> QED  BY <1>2, <2>1, <3>1
  <2> QED  BY <1>6, <2>2, <2>3 DEF FaAssert, Die
<1>7. CASE UseAfterFree
  BY <1>7 DEF UseAfterFree, procVars, SeqInv, Running, Die
<1>8. CASE Open
  <2>1. fa.pc = "idle"  BY <1>8 DEF Open, SeqInv
  <2> QED  BY <1>8, <2>1, OpenSeq
<1> QED  BY <1>1, <1>3, <1>4, <1>5, <1>6, <1>7, <1>8 DEF CloserNext, CloserStep

-----------------------------------------------------------------------------
\* Every step, as long as puts do not overlap.
LEMMA SeqStep ==
  ASSUME ~CloseConcurrent, TypeOK, TypeOK', ListStructure, PutEntry,
         ClosedQuietly, SeqInv, OneAtATime', [Next]_vars
  PROVE  SeqInv'
<1>1. ASSUME NEW t \in Threads, PutNext(t) PROVE SeqInv'
  BY <1>1, PutSeq
<1>2. ASSUME NEW r \in Readers, ReaderNext(r) PROVE SeqInv'
  BY <1>2, ReaderSeq
<1>3. CASE CloserNext  BY <1>3, CloserSeq
<1>4. CASE UNCHANGED vars
  <2>1. UNCHANGED <<base, ent, alloc, index, pc, loc, fa, life, fault>>
    BY <1>4 DEF vars
  <2>2. CASE Running /\ fa.pc = "idle"
    <3>1. InUse'  BY <2>1, <2>2, InUseSame DEF SeqInv
    <3> QED  BY <2>1, <2>2, <3>1 DEF SeqInv, Running
  <2>3. CASE Running /\ fa.pc # "idle"
    <3>1. Freeing'  BY <2>1, <2>3 DEF SeqInv, Freeing
    <3> QED  BY <2>1, <2>3, <3>1 DEF SeqInv, Running
  <2>4. CASE ~Running
    BY <2>1, <2>4 DEF SeqInv, Running
  <2> QED  BY <2>2, <2>3, <2>4
<1> QED  BY <1>1, <1>2, <1>3, <1>4, NextSplit

\* When puts do not overlap (one task thread, or threads that take turns), list,
\* counter and index stay together through every put, close and reopening.
THEOREM SequentialInvariant ==
  ASSUME ~CloseConcurrent
  PROVE  Spec /\ []OneAtATime => []SeqInv
<1>1. Init => SeqInv  BY SeqInit
<1>2. /\ TypeOK /\ ListStructure /\ IndexInv /\ QuietInv /\ SeqInv
      /\ TypeOK' /\ OneAtATime' /\ [Next]_vars
      => SeqInv'
  BY SeqStep DEF IndexInv, QuietInv
<1>3. Spec => [](TypeOK /\ ListStructure)  BY StructureInvariant, PTL
<1> QED  BY <1>1, <1>2, <1>3, IndexInvariant, QuietInvariant, PTL DEF Spec

\* assert(bytes_written == 0) at the end of free_all never fails when puts do
\* not overlap: the walk subtracts what they added, also when the counter has
\* wrapped around.
THEOREM WrittenFreed ==
  ASSUME ~CloseConcurrent
  PROVE  Spec /\ []OneAtATime => []BytesWrittenAssert
<1>1. Init => BytesWrittenAssert  BY DEF Init, BytesWrittenAssert
<1>2. SeqInv /\ BytesWrittenAssert /\ [Next]_vars => BytesWrittenAssert'
  <2> SUFFICES ASSUME SeqInv, BytesWrittenAssert, [Next]_vars,
                      fault' = "assert_bytes_written"
               PROVE  FALSE
    BY DEF BytesWrittenAssert
  <2>1. fault' # fault  BY DEF BytesWrittenAssert
  <2>2. ASSUME NEW t \in Threads, PutNext(t) PROVE fault' \in {fault, "segv"}
    BY <2>2
    DEF PutNext, PutStep, PutAlloc, PutFill, PutReadTail, PutSetHead,
        PutLoadTail, PutLink, PutSetTail, PutLoadBytes, PutStoreBytes,
        UpdateMeta, UpdateTotal, UpdateLength, PutReturn, lifeVars
  <2>3. ASSUME NEW r \in Readers, ReaderNext(r)
        PROVE  fault' \in {fault, "meta_overrun", "uninit_length",
                           "wild_pointer", "assert_bml", "use_after_free"}
    BY <2>3
    DEF ReaderNext, ReaderStep, SizeContains, SizeFind, GetMeta, Get, ListFind,
        GetMetaWalk, GetCopy, GetReturn, Die, lifeVars
  <2>4. CASE CloserNext
    <3>1. FaAssert
      BY <2>1, <2>4 DEF CloserNext, CloserStep, FaStart, StartDelete, FaVisit,
         FaSubLoad, FaSubStore, FaClearHead, FaClearTail, FreeMetaDone,
         FreeMetaLock, FreeMetaList, UseAfterFree, Open, Die, lifeVars
    <3>2. base.bytes_written # 0 /\ fa.pc = "assert" /\ Running
      BY <2>1, <3>1 DEF FaAssert
    <3> QED  BY <3>2 DEF SeqInv, Freeing
  <2> QED  BY <2>1, <2>2, <2>3, <2>4, NextSplit DEF vars
<1> QED  BY <1>1, <1>2, SequentialInvariant, PTL DEF Spec

\* The index is behind the list by at most the entry of the running put.
LEMMA IndexBehind ==
  ASSUME ~MallocMayFail, TypeOK, SeqInv
  PROVE  IndexOnList
<1> SUFFICES ASSUME life = "open", fa.pc = "idle", fault = "none", NEW h \in Hashes
             PROVE  /\ IsInitialSegment(index[h].list, Rebuilt(h))
                    /\ Quiet => index[h].list = Rebuilt(h)
  BY DEF IndexOnList
<1>1. InUse  BY DEF SeqInv, Running
<1>2. PICK p \in PutLabels, l \in Locals : Active(p, l) /\ StoreAt(p, l)
  BY <1>1 DEF InUse
<1> DEFINE C(k) == Collected(ent, base.head, h, k)
<1>3. /\ ent \in [Addrs -> Entry] /\ base.head \in Pointer /\ alloc \in Pointer
      /\ MaxEntries \in Nat /\ alloc \in Nat /\ alloc <= MaxEntries
      /\ index[h].list \in Seq(Meta)
  BY ConstantsAssumption DEF TypeOK, NvmType, Base, IndexType, MetaList, Pointer
<1>4. base.head = 0 \/ Chained(ent, base.head, LastOf(p))
  BY <1>2 DEF StoreAt, ListAt
<1>5. index[h].list = C(FiledTo(p))  BY <1>2 DEF StoreAt, FiledAt
<1>6. CASE base.head = 0
  <2>1. Rebuilt(h) = C(alloc)  BY <1>3, <1>6, RebuiltCollects
  <2>2. C(alloc) = <<>>  BY <1>3, <1>6, CollectedNone
  <2>3. p \notin Unfiled
    BY <1>2, <1>6 DEF StoreAt, ListAt, Unfiled
  <2>4. index[h].list = <<>>
    <3>1. CASE p \notin Unlinked
      BY <1>5, <2>2, <2>3, <3>1 DEF FiledTo, LastOf
    <3>2. CASE p \in Unlinked /\ alloc # 0
      <4>1. alloc - 1 \in Pointer  BY <1>3, <3>2 DEF Pointer
      <4>2. C(alloc - 1) = <<>>  BY <1>3, <1>6, <4>1, CollectedNone
      <4> QED  BY <1>5, <2>3, <3>2, <4>2 DEF FiledTo, LastOf
    <3>3. CASE p \in Unlinked /\ alloc = 0
      <4>1. PICK t \in Threads : pc[t] = p /\ loc[t] = l /\ p # "idle"
        BY <1>2, <3>3 DEF Active, Unlinked
      <4>2. l.bep = alloc  BY <1>2, <4>1 DEF StoreAt, ListAt
      <4> QED  BY <3>3, <4>1, <4>2 DEF TypeOK, PutWellFormed
    <3> QED  BY <3>1, <3>2, <3>3
  <2>5. Rebuilt(h) = <<>>  BY <2>1, <2>2
  <2> QED  BY <2>4, <2>5 DEF IsInitialSegment
<1>7. CASE base.head # 0
  <2> DEFINE n == LastOf(p)
  <2>0. n \in {alloc, alloc - 1}  BY DEF LastOf
  <2>1. base.head \in 1 .. n  BY <1>4, <1>7 DEF Chained
  <2>2. n \in Nat /\ n \in Pointer /\ n \in Addrs /\ n - 1 \in Pointer
        /\ ~(base.head = 0 \/ n < base.head)
    <3>1. base.head \in Nat /\ 1 <= base.head /\ base.head <= n /\ n \in Int
      BY <1>3, <2>0, <2>1 DEF Pointer
    <3> QED  BY <1>3, <1>7, <2>0, <3>1 DEF Pointer, Addrs
  <2>3. Rebuilt(h) = C(n)  BY <1>3, <1>4, <1>7, <2>2, RebuiltCollects
  <2>4. C(n) \in Seq(Meta) /\ C(n - 1) \in Seq(Meta)
        /\ C(n) = CollectOne(ent, base.head, h, n, C(n - 1))
    BY <1>3, <2>2, CollectedIs
  <2>5. C(n) = C(n - 1) \/ \E m \in Meta : C(n) = Append(C(n - 1), m)
    <3>1. ent[n] \in Entry  BY <1>3, <2>2
    <3>2. MetaAt(ent, n) \in Meta
      BY <3>1 DEF Entry, MetaAt, Meta, Pointer
    <3> QED  BY <2>2, <2>4, <3>2 DEF CollectOne
  <2>6. CASE p \notin Unfiled
    <3>1. index[h].list = C(n)  BY <1>5, <2>6 DEF FiledTo
    <3>2. Len(C(n)) \in Nat /\ C(n) = SubSeq(C(n), 1, Len(C(n)))  BY <2>4
    <3> QED  BY <2>3, <3>1, <3>2 DEF IsInitialSegment
  <2>7. CASE p \in Unfiled
    <3>1. n = alloc /\ index[h].list = C(n - 1)
      BY <1>5, <2>7 DEF FiledTo, LastOf, Unfiled, Unlinked
    <3>2. ~Quiet  BY <1>2, <2>7 DEF Active, Quiet, Unfiled
    <3>3. IsInitialSegment(C(n - 1), C(n))
      <4> DEFINE x == C(n - 1)
                 z == C(n)
      <4>1. x \in Seq(Meta) /\ z \in Seq(Meta)
            /\ (z = x \/ \E m \in Meta : z = Append(x, m))
        BY <2>4, <2>5
      <4> HIDE DEF x, z
      <4>2. ASSUME z = x PROVE IsInitialSegment(x, z)
        <5>1. Len(x) \in Nat /\ SubSeq(x, 1, Len(x)) = x  BY <4>1
        <5> QED  BY <4>2, <5>1 DEF IsInitialSegment
      <4>3. ASSUME NEW m \in Meta, z = Append(x, m) PROVE IsInitialSegment(x, z)
        <5>1. Len(x) \in Nat /\ Len(z) = Len(x) + 1  BY <4>1, <4>3
        <5>2. SubSeq(z, 1, Len(x)) = x  BY <4>1, <4>3, AppendParts
        <5> QED  BY <5>1, <5>2 DEF IsInitialSegment
      <4>4. IsInitialSegment(x, z)  BY <4>1, <4>2, <4>3
      <4> QED  BY <4>4 DEF x, z
    <3> QED  BY <2>3, <3>1, <3>2, <3>3
  <2> QED  BY <2>6, <2>7
<1> QED  BY <1>6, <1>7

\* Durable before visible: when puts do not overlap, an index rebuilt from the
\* list in non-volatile memory has every block of the index, in its order, and
\* between calls the two agree.
THEOREM DurableFirst ==
  ASSUME ~CloseConcurrent, ~MallocMayFail
  PROVE  Spec /\ []OneAtATime => []IndexOnList
<1>1. TypeOK /\ SeqInv => IndexOnList  BY IndexBehind
<1>2. Spec => []TypeOK  BY TypeCorrect
<1> QED  BY <1>1, <1>2, SequentialInvariant, PTL

=============================================================================
