----------------------------- MODULE PrefixSums -----------------------------
(***************************************************************************)
(* Sums over the start of a sequence, for the properties that compare       *)
(* counters of the program with what it has stored.                         *)
(***************************************************************************)
EXTENDS Integers, Sequences

\* The sum of the first n numbers of s.
SumFirst(s, n) ==
  LET sum[i \in 0 .. Len(s)] == IF i = 0 THEN 0 ELSE sum[i - 1] + s[i]
  IN  sum[n]
=============================================================================
