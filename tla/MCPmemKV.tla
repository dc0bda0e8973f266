------------------------------ MODULE MCPmemKV ------------------------------
(***************************************************************************)
(* Instances of PmemKV for TLC.                                            *)
(***************************************************************************)
EXTENDS PmemKVRefinement, TLC

CONSTANTS t1, t2, r1, h1, h2, v1, v2

\* Two buffers of different size, so that an exchange of two blocks shows in
\* the totals.
MCSizeOf == v1 :> 1 @@ v2 :> 2
MCSizeOfOne == v1 :> 1

\* Threads are alike, and so are hashes.
MCSymmetry == Permutations({t1, t2}) \cup Permutations({h1, h2})

=============================================================================
