----------------------------- MODULE DataLemmas -----------------------------
(***************************************************************************)
(* Facts about naturals and sequences that the proofs of this project share *)
(* and that say nothing of the program.  Induction over an initial segment  *)
(* of the naturals is stated for a set instead of a predicate.              *)
(***************************************************************************)
EXTENDS Integers, Sequences, PrefixSums, TLAPS, WellFoundedInduction

\* Every non-empty set of naturals has a least element.
LEMMA LeastNat ==
  ASSUME NEW T \in SUBSET Nat, T # {}
  PROVE  \E m \in T : \A k \in T : m <= k
<1>1. PICK m \in T : \A k \in T : ~(<<k, m>> \in OpToRel(<, Nat))
  BY WFMin, NatLessThanWellFounded
<1>2. ASSUME NEW k \in T, k < m PROVE FALSE
  <2> DEFINE p == <<k, m>>
  <2>1. p \in Nat \X Nat  OBVIOUS
  <2>2. p[1] < p[2]  BY <1>2
  <2>3. p \in OpToRel(<, Nat)  BY <2>1, <2>2, Zenon DEF OpToRel
  <2> QED  BY <1>1, <2>3
<1>3. m \in Nat /\ \A k \in T : k \in Nat /\ ~(k < m)  BY <1>2
<1> QED  BY <1>3

\* A set of naturals up to n that has 0, and with every number but n the next
\* one, has them all.
LEMMA UpTo ==
  ASSUME NEW n \in Nat, NEW G, 0 \in G,
         \A k \in 0 .. n : k \in G /\ k < n => k + 1 \in G
  PROVE  0 .. n \subseteq G
<1> DEFINE Bad == (0 .. n) \ G
<1>1. Bad \in SUBSET Nat  OBVIOUS
<1>2. ASSUME Bad # {} PROVE FALSE
  <2>1. PICK m \in Bad : \A k \in Bad : m <= k  BY <1>1, <1>2, LeastNat
  <2>2. m \in 1 .. n  BY <2>1
  <2>3. m - 1 \in 0 .. n /\ m - 1 < n /\ ~(m <= m - 1) /\ (m - 1) + 1 = m
    BY <2>2
  <2>4. m - 1 \in G  BY <2>1, <2>3
  <2>5. (m - 1) + 1 \in G  BY <2>3, <2>4
  <2> QED  BY <2>1, <2>3, <2>5
<1> QED  BY <1>2

\* The first n + 1 values of f are base and what step makes of each value.
IsRec(f, n, base, step) ==
  f[0] = base /\ \A i \in 1 .. n : f[i] = step[i][f[i - 1]]

\* Such a function exists, which is what a recursive definition needs.
LEMMA RecExists ==
  ASSUME NEW n \in Nat, NEW T, NEW base \in T, NEW step \in [1 .. n -> [T -> T]]
  PROVE  \E f \in [0 .. n -> T] : IsRec(f, n, base, step)
<1> DEFINE Good(f, k) == /\ f[0] = base
                         /\ \A i \in 1 .. k : f[i] = step[i][f[i - 1]]
           G == {k \in 0 .. n : \E f \in [0 .. n -> T] : Good(f, k)}
<1>1. 0 \in G
  <2> DEFINE f == [i \in 0 .. n |-> base]
  <2>1. f \in [0 .. n -> T] /\ Good(f, 0)  OBVIOUS
  <2> HIDE DEF f, Good
  <2>2. \E x \in [0 .. n -> T] : Good(x, 0)  BY <2>1
  <2> QED  BY <2>2
<1>2. ASSUME NEW k \in 0 .. n, k \in G, k < n PROVE k + 1 \in G
  <2>1. PICK f \in [0 .. n -> T] : Good(f, k)  BY <1>2
  <2>2. k + 1 \in 1 .. n /\ k \in 0 .. n /\ (k + 1) - 1 = k  BY <1>2
  <2> DEFINE v == step[k + 1][f[k]]
             g == [f EXCEPT ![k + 1] = v]
  <2>3. v \in T  BY <2>2
  <2> HIDE DEF v
  <2>4. /\ g \in [0 .. n -> T] /\ g[k + 1] = v
        /\ \A i \in 0 .. n : i # k + 1 => g[i] = f[i]
    BY <2>2, <2>3
  <2> HIDE DEF g
  <2>5. g[0] = base  BY <2>1, <2>2, <2>4
  <2>6. ASSUME NEW i \in 1 .. k + 1 PROVE g[i] = step[i][g[i - 1]]
    <3>1. i \in 0 .. n /\ i - 1 \in 0 .. n /\ i - 1 # k + 1  BY <2>2
    <3>2. g[i - 1] = f[i - 1]  BY <2>4, <3>1
    <3>3. CASE i = k + 1  BY <2>2, <2>4, <3>2, <3>3 DEF v
    <3>4. CASE i # k + 1
      <4>1. i \in 1 .. k  BY <3>4
      <4>2. f[i] = step[i][f[i - 1]]  BY <2>1, <4>1
      <4> QED  BY <2>4, <3>1, <3>2, <3>4, <4>2
    <3> QED  BY <3>3, <3>4
  <2>7. Good(g, k + 1)  BY <2>5, <2>6
  <2> HIDE DEF Good
  <2>8. \E x \in [0 .. n -> T] : Good(x, k + 1)  BY <2>4, <2>7
  <2> QED  BY <2>2, <2>8
<1> HIDE DEF G
<1>3. 0 .. n \subseteq G  BY <1>1, <1>2, UpTo
<1>4. n \in G  BY <1>3
<1> QED  BY <1>4 DEF G, IsRec

\* f and g start with the same value at m and from one value to the next,
\* up to n, do the same.
SameSteps(f, g, m, n) ==
  /\ f[m] = g[m]
  /\ \A i \in m + 1 .. n : f[i - 1] = g[i - 1] => f[i] = g[i]

\* f and g are the same from m to n.
Agree(f, g, m, n) == \A i \in m .. n : f[i] = g[i]

\* Functions that start and go on in the same way are the same up to n.
LEMMA RecUnique ==
  ASSUME NEW m \in Nat, NEW n \in Nat, NEW f, NEW g, SameSteps(f, g, m, n)
  PROVE  Agree(f, g, m, n)
<1> DEFINE G == {k \in 0 .. n : k < m \/ f[k] = g[k]}
<1>1. 0 \in G  BY DEF SameSteps
<1>2. ASSUME NEW k \in 0 .. n, k \in G, k < n PROVE k + 1 \in G
  <2>1. k + 1 \in 0 .. n /\ (k + 1) - 1 = k  BY <1>2
  <2>2. CASE k + 1 <= m
    <3>1. k + 1 = m \/ k + 1 < m  BY <2>1, <2>2
    <3>2. f[m] = g[m]  BY DEF SameSteps
    <3> QED  BY <2>1, <3>1, <3>2
  <2>3. CASE m < k + 1
    <3>1. k + 1 \in m + 1 .. n /\ ~(k < m)  BY <2>1, <2>3
    <3> QED  BY <1>2, <2>1, <3>1 DEF SameSteps
  <2> QED  BY <2>2, <2>3
<1> HIDE DEF G
<1>3. 0 .. n \subseteq G  BY <1>1, <1>2, UpTo
<1>4. \A i \in m .. n : i \in G /\ ~(i < m)  BY <1>3
<1> QED  BY <1>4 DEF G, Agree

-----------------------------------------------------------------------------
\* A sequence is a function.
LEMMA SeqFun ==
  ASSUME NEW S, NEW s \in Seq(S)
  PROVE  s \in [1 .. Len(s) -> S] /\ Len(s) \in Nat
  OBVIOUS

\* A function on an initial segment is a sequence.
LEMMA FunSeq ==
  ASSUME NEW S, NEW n \in Nat, NEW s \in [1 .. n -> S]
  PROVE  s \in Seq(S) /\ Len(s) = n
  OBVIOUS

\* Sequences of the same length with the same elements are the same.
LEMMA SameSeq ==
  ASSUME NEW S, NEW s \in Seq(S), NEW u \in Seq(S), Len(s) = Len(u),
         \A i \in 1 .. Len(s) : s[i] = u[i]
  PROVE  s = u
<1>1. /\ s = [i \in 1 .. Len(s) |-> s[i]]
      /\ u = [i \in 1 .. Len(s) |-> u[i]]
  OBVIOUS
<1> QED  BY <1>1

\* A sequence over a set is one over a larger set.
LEMMA SeqWiden ==
  ASSUME NEW S, NEW T, S \subseteq T, NEW s \in Seq(S)
  PROVE  s \in Seq(T)
<1>1. s \in [1 .. Len(s) -> S] /\ Len(s) \in Nat  OBVIOUS
<1>2. s \in [1 .. Len(s) -> T]  BY <1>1
<1> QED  BY <1>1, <1>2

\* The elements of a subsequence.
LEMMA SubSeqAt ==
  ASSUME NEW S, NEW s \in Seq(S), NEW j \in Nat, NEW k \in Nat,
         j + k <= Len(s)
  PROVE  /\ SubSeq(s, j + 1, j + k) \in Seq(S)
         /\ Len(SubSeq(s, j + 1, j + k)) = k
         /\ \A i \in 1 .. k : SubSeq(s, j + 1, j + k)[i] = s[j + i]
<1>1. Len(s) \in Nat  OBVIOUS
<1> DEFINE a == SubSeq(s, j + 1, j + k)
<1>2. a = [i \in 1 .. ((j + k) - (j + 1) + 1) |-> s[i + (j + 1) - 1]]
  OBVIOUS
<1>3. (j + k) - (j + 1) + 1 = k  OBVIOUS
<1>4. \A i \in 1 .. k : i + (j + 1) - 1 = j + i /\ j + i \in 1 .. Len(s)
  BY <1>1
<1>5. a = [i \in 1 .. k |-> s[j + i]]  BY <1>2, <1>3, <1>4
<1>6. \A i \in 1 .. k : s[j + i] \in S  BY <1>4
<1> HIDE DEF a
<1>7. a \in Seq(S) /\ Len(a) = k /\ \A i \in 1 .. k : a[i] = s[j + i]
  BY <1>5, <1>6
<1> QED  BY <1>7 DEF a

\* The elements of a concatenation.
LEMMA ConcatIs ==
  ASSUME NEW S, NEW s \in Seq(S), NEW t \in Seq(S)
  PROVE  /\ s \o t \in Seq(S) /\ Len(s \o t) = Len(s) + Len(t)
         /\ \A i \in 1 .. Len(s) : (s \o t)[i] = s[i]
         /\ \A i \in 1 .. Len(t) : (s \o t)[Len(s) + i] = t[i]
<1>1. Len(s) \in Nat /\ Len(t) \in Nat  OBVIOUS
<1>2. ASSUME NEW i \in 1 .. Len(t) PROVE (s \o t)[Len(s) + i] = t[i]
  <2>1. Len(s) + i \in 1 .. Len(s) + Len(t) /\ ~(Len(s) + i <= Len(s))
        /\ (Len(s) + i) - Len(s) = i
    BY <1>1
  <2> QED  BY <2>1
<1> QED  BY <1>2

\* What makes a sequence a concatenation.
LEMMA IsConcat ==
  ASSUME NEW S, NEW s \in Seq(S), NEW t \in Seq(S), NEW u \in Seq(S),
         Len(u) = Len(s) + Len(t),
         \A i \in 1 .. Len(s) : u[i] = s[i],
         \A i \in 1 .. Len(t) : u[Len(s) + i] = t[i]
  PROVE  u = s \o t
<1>1. Len(s \o t) = Len(u)  OBVIOUS
<1>2. ASSUME NEW i \in 1 .. Len(u) PROVE (s \o t)[i] = u[i]
  <2>1. CASE i <= Len(s)  BY <2>1
  <2>2. CASE ~(i <= Len(s))
    <3>1. i - Len(s) \in 1 .. Len(t) /\ Len(s) + (i - Len(s)) = i
      BY <1>2, <2>2
    <3> QED  BY <2>2, <3>1
  <2> QED  BY <2>1, <2>2
<1>3. s \o t \in Seq(S)  OBVIOUS
<1> QED  BY <1>1, <1>2, <1>3, SameSeq

\* A sequence that has one element more is an Append.
LEMMA IsAppend ==
  ASSUME NEW S, NEW s \in Seq(S), NEW x \in S, NEW u \in Seq(S),
         Len(u) = Len(s) + 1, \A i \in 1 .. Len(s) : u[i] = s[i],
         u[Len(s) + 1] = x
  PROVE  u = Append(s, x)
  OBVIOUS

-----------------------------------------------------------------------------
\* The recursive function inside SumFirst satisfies its equation.
LEMMA SumStep ==
  ASSUME NEW s \in Seq(Nat)
  PROVE  /\ SumFirst(s, 0) = 0
         /\ \A i \in 1 .. Len(s) : SumFirst(s, i) = SumFirst(s, i - 1) + s[i]
         /\ \A i \in 0 .. Len(s) : SumFirst(s, i) \in Nat
<1> DEFINE n == Len(s)
           step == [i \in 1 .. n |-> [x \in Nat |-> x + s[i]]]
<1>1. n \in Nat /\ \A i \in 1 .. n : s[i] \in Nat  OBVIOUS
<1> HIDE DEF n
<1>3. step \in [1 .. n -> [Nat -> Nat]]  BY <1>1
<1>4. \A i \in 1 .. n, x \in Nat : step[i][x] = x + s[i]  OBVIOUS
<1> HIDE DEF step
<1>5. PICK f \in [0 .. n -> Nat] : IsRec(f, n, 0, step)
  BY <1>1, <1>3, RecExists
<1>6. ASSUME NEW i \in 1 .. n PROVE f[i] = f[i - 1] + s[i]
  <2>1. i - 1 \in 0 .. n  BY <1>1
  <2>2. f[i - 1] \in Nat  BY <2>1
  <2> QED  BY <1>4, <1>5, <2>2 DEF IsRec
<1>7. f[0] = 0  BY <1>5 DEF IsRec
<1>8. ASSUME NEW i \in 0 .. n PROVE f[i] = IF i = 0 THEN 0 ELSE f[i - 1] + s[i]
  <2>1. CASE i = 0  BY <1>7, <2>1
  <2>2. CASE i # 0  BY <1>1, <1>6, <2>2
  <2> QED  BY <2>1, <2>2
<1>9. f = [i \in 0 .. n |-> IF i = 0 THEN 0 ELSE f[i - 1] + s[i]]
  BY <1>8
<1> DEFINE F == CHOOSE g : g = [i \in 0 .. n |->
                                  IF i = 0 THEN 0 ELSE g[i - 1] + s[i]]
<1>10. F = [i \in 0 .. n |-> IF i = 0 THEN 0 ELSE F[i - 1] + s[i]]
  BY <1>9
<1>11. \A i : SumFirst(s, i) = F[i]  BY DEF SumFirst, n
<1> HIDE DEF F
<1>12. F[0] = 0  BY <1>1, <1>10
<1>13. ASSUME NEW i \in 1 .. n PROVE F[i] = F[i - 1] + s[i]
  BY <1>1, <1>10
<1>14. SameSteps(F, f, 0, n)
  <2>1. F[0] = f[0]  BY <1>7, <1>12
  <2>2. ASSUME NEW i \in 0 + 1 .. n, F[i - 1] = f[i - 1] PROVE F[i] = f[i]
    <3>1. i \in 1 .. n  OBVIOUS
    <3>2. F[i] = F[i - 1] + s[i] /\ f[i] = f[i - 1] + s[i]
      BY <1>6, <1>13, <3>1
    <3> QED  BY <2>2, <3>2
  <2> QED  BY <2>1, <2>2 DEF SameSteps
<1>15. Agree(F, f, 0, n)
  <2>1. 0 \in Nat /\ n \in Nat  BY <1>1
  <2> QED  BY <1>14, <2>1, RecUnique
<1>16. \A i \in 0 .. n : F[i] = f[i]  BY <1>15 DEF Agree
<1>17. \A i \in 0 .. n : F[i] \in Nat  BY <1>16
<1> QED  BY <1>11, <1>12, <1>13, <1>17 DEF n

\* Sequences that start with the same n numbers have the same sums up to n.
LEMMA SumPrefix ==
  ASSUME NEW s \in Seq(Nat), NEW u \in Seq(Nat), NEW n \in Nat,
         n <= Len(s), n <= Len(u), \A i \in 1 .. n : u[i] = s[i]
  PROVE  \A i \in 0 .. n : SumFirst(u, i) = SumFirst(s, i)
<1> DEFINE G == {k \in 0 .. n : SumFirst(u, k) = SumFirst(s, k)}
<1>1. 0 \in G
  <2>1. SumFirst(u, 0) = 0  BY SumStep
  <2>2. SumFirst(s, 0) = 0  BY SumStep
  <2> QED  BY <2>1, <2>2
<1>2. ASSUME NEW k \in 0 .. n, k \in G, k < n PROVE k + 1 \in G
  <2>1. /\ k + 1 \in 1 .. Len(u) /\ k + 1 \in 1 .. Len(s) /\ (k + 1) - 1 = k
        /\ k + 1 \in 0 .. n /\ k + 1 \in 1 .. n
    BY <1>2
  <2>2. SumFirst(u, k + 1) = SumFirst(u, k) + u[k + 1]  BY <2>1, SumStep
  <2>3. SumFirst(s, k + 1) = SumFirst(s, k) + s[k + 1]  BY <2>1, SumStep
  <2> QED  BY <1>2, <2>1, <2>2, <2>3
<1> HIDE DEF G
<1>3. 0 .. n \subseteq G  BY <1>1, <1>2, UpTo
<1> QED  BY <1>3 DEF G

\* A longer start has no smaller sum.
LEMMA SumMonotone ==
  ASSUME NEW s \in Seq(Nat), NEW j \in 0 .. Len(s), NEW i \in 0 .. j
  PROVE  SumFirst(s, i) <= SumFirst(s, j)
<1>0. Len(s) \in Nat /\ j \in Nat /\ i \in Nat /\ i <= j /\ j <= Len(s)  OBVIOUS
<1> DEFINE G == {k \in 0 .. j : k < i \/ SumFirst(s, i) <= SumFirst(s, k)}
<1>1. 0 \in G
  <2>1. i = 0 \/ 0 < i  BY <1>0
  <2>2. SumFirst(s, 0) = 0  BY SumStep
  <2> QED  BY <1>0, <2>1, <2>2
<1>2. ASSUME NEW k \in 0 .. j, k \in G, k < j PROVE k + 1 \in G
  <2>1. /\ k + 1 \in 1 .. Len(s) /\ (k + 1) - 1 = k /\ k + 1 \in 0 .. j
        /\ k \in 0 .. Len(s) /\ i \in 0 .. Len(s) /\ k + 1 \in 0 .. Len(s)
    BY <1>0, <1>2
  <2>2. SumFirst(s, k + 1) = SumFirst(s, k) + s[k + 1]  BY <2>1, SumStep
  <2>3. /\ SumFirst(s, k) \in Nat /\ SumFirst(s, i) \in Nat
        /\ SumFirst(s, k + 1) \in Nat /\ s[k + 1] \in Nat
    BY <2>1, SumStep
  <2>4. CASE k < i
    <3>1. k + 1 < i \/ k + 1 = i  BY <1>0, <2>1, <2>4
    <3>2. SumFirst(s, k + 1) <= SumFirst(s, k + 1)  BY <2>3
    <3> QED  BY <2>1, <3>1, <3>2
  <2>5. CASE SumFirst(s, i) <= SumFirst(s, k)
    <3>1. SumFirst(s, i) <= SumFirst(s, k + 1)  BY <2>2, <2>3, <2>5
    <3> QED  BY <2>1, <3>1
  <2> QED  BY <1>2, <2>4, <2>5
<1> HIDE DEF G
<1>3. 0 .. j \subseteq G  BY <1>0, <1>1, <1>2, UpTo
<1>4. j \in G /\ ~(j < i)  BY <1>0, <1>3
<1> QED  BY <1>4 DEF G

\* One number more.
LEMMA SumAppend ==
  ASSUME NEW s \in Seq(Nat), NEW e \in Nat
  PROVE  /\ SumFirst(s, Len(s)) \in Nat
         /\ SumFirst(Append(s, e), Len(Append(s, e))) = SumFirst(s, Len(s)) + e
<1> DEFINE u == Append(s, e)
           n == Len(s)
<1>1. /\ u \in Seq(Nat) /\ Len(u) = n + 1 /\ u[n + 1] = e /\ n \in Nat
      /\ \A i \in 1 .. n : u[i] = s[i]
  OBVIOUS
<1> HIDE DEF u
<1>2. n \in 0 .. Len(s) /\ n \in 0 .. n /\ n <= Len(s) /\ n <= Len(u)  BY <1>1
<1>3. SumFirst(s, n) \in Nat  BY <1>2, SumStep
<1>4. n + 1 \in 1 .. Len(u) /\ (n + 1) - 1 = n  BY <1>1
<1>5. SumFirst(u, n + 1) = SumFirst(u, n) + u[n + 1]  BY <1>1, <1>4, SumStep
<1>6. SumFirst(u, n) = SumFirst(s, n)
  <2> HIDE DEF n
  <2>1. \A i \in 0 .. n : SumFirst(u, i) = SumFirst(s, i)
    BY <1>1, <1>2, SumPrefix
  <2> QED  BY <1>2, <2>1
<1> QED  BY <1>1, <1>3, <1>5, <1>6 DEF u

=============================================================================
