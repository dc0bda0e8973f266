---------------------------- MODULE MCNvmSorter ----------------------------
(***************************************************************************)
(* Instances of NvmSorter for TLC: keys 1 and 3 share a hash code and, with *)
(* two partitions, a partition; key 4 shares neither with them.             *)
(***************************************************************************)
EXTENDS NvmSorter

MCHashCode == [k \in Keys |-> k \div 4]
MCPartitioner == [n \in 1 .. 2 |-> [k \in Keys |-> k % n]]

\* BaseShuffleReader sorts one partition; nvmShuffleWriter combines for all
\* partitions; merging with aggregation and plain merging are left to others.
MCModes ==
  {[stage |-> "reduce", ordering |-> TRUE, aggregate |-> FALSE, partitions |-> 1],
   [stage |-> "map", ordering |-> FALSE, aggregate |-> TRUE, partitions |-> 2],
   [stage |-> "reduce", ordering |-> FALSE, aggregate |-> TRUE, partitions |-> 2],
   [stage |-> "reduce", ordering |-> TRUE, aggregate |-> TRUE, partitions |-> 1],
   [stage |-> "reduce", ordering |-> FALSE, aggregate |-> FALSE, partitions |-> 2]}
=============================================================================
