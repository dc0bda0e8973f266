-------------------------- MODULE PmemKVRefinement --------------------------
(***************************************************************************)
(* pmemkv implements AppendStore: seen through the index, put appends its   *)
(* value exactly once and at one instant (the publication of the block_meta *)
(* under mtx), although the list in non-volatile memory is not locked.      *)
(***************************************************************************)
EXTENDS PmemKV

\* The data a reader finds behind a block_meta.
Content(m) == IF m.off = 0 THEN NoVal ELSE pm[m.off]

storeBar ==
  [h \in Hashes |->
     [i \in 1 .. Len(index[h].list) |-> Content(index[h].list[i])]]

callBar ==
  [t \in Threads |->
     IF pc[t] = "idle" THEN [st |-> "idle"]
     ELSE IF pc[t] \in {"total", "length", "done", "failed"}
       THEN [st |-> "applied"]
       ELSE [st |-> "pending", hash |-> loc[t].hash, val |-> loc[t].val]]

Abstract == INSTANCE AppendStore
  WITH store <- storeBar, call <- callBar, Lost <- NoVal,
       MayLose <- AllocMayFail, MaySkip <- MallocMayFail

\* Every behaviour of pmemkv is one of the append store: no interleaving of
\* puts loses, duplicates, reorders or corrupts a block that readers see.
ImplementsAppendStore == Abstract!ASpec
=============================================================================
