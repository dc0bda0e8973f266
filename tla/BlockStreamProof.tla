------------------------- MODULE BlockStreamProof --------------------------
(***************************************************************************)
(* What BlockStream promises, for any number of attempts, any throttle, any *)
(* sizes of records and any way the serializer cuts them.                   *)
(*                                                                         *)
(* BlockStreamInv is the inductive invariant.  Its first part, WriterInv,   *)
(* numbers the bytes of an attempt: those in the store, then those in       *)
(* byteBuffer, then those the serializer keeps back; and it ties the        *)
(* counters of the stream to the blocks and bytes of that attempt in the    *)
(* store.  The second, CountInv, says which bytes total_size counts: all,   *)
(* or all but the last block while its put is in update_meta.  The third,   *)
(* InputInv, says that a reader holds the blocks it found, which contain    *)
(* all bytes of the committed attempt, and that what it has read and what   *)
(* it has loaded make up all of them, or all but a last one that was not    *)
(* counted and is not of the committed attempt.                             *)
(***************************************************************************)
EXTENDS BlockStream, DataLemmas, FiniteSetTheorems
-----------------------------------------------------------------------------
(***************************************************************************)
(* Concatenation of blocks.                                                *)
(***************************************************************************)
\* The recursive function inside FlattenSeq.
Flat(s) == CHOOSE f : f = [i \in 1 .. Len(s) |->
                             IF i = 1 THEN s[i] ELSE f[i - 1] \o s[i]]

\* It satisfies its equation, and its values are sequences.
LEMMA FlatStep ==
  ASSUME NEW S, NEW s \in Seq(Seq(S)), Len(s) > 0
  PROVE  /\ Flat(s)[1] = s[1]
         /\ \A i \in 2 .. Len(s) : Flat(s)[i] = Flat(s)[i - 1] \o s[i]
         /\ \A i \in 1 .. Len(s) : Flat(s)[i] \in Seq(S)
<1> DEFINE n == Len(s)
           T == Seq(S)
           step == [i \in 1 .. n |-> [x \in T |-> x \o s[i]]]
<1>1. n \in Nat /\ \A i \in 1 .. n : s[i] \in T  OBVIOUS
<1> HIDE DEF n
<1>2. <<>> \in T /\ \A x \in T, y \in T : x \o y \in T  OBVIOUS
<1> DEFINE nil == <<>>
<1>a. nil \in T  BY <1>2
<1> HIDE DEF T, nil
<1>3. step \in [1 .. n -> [T -> T]]  BY <1>1, <1>2
<1>4. \A i \in 1 .. n, x \in T : step[i][x] = x \o s[i]  OBVIOUS
<1> HIDE DEF step
<1>5. PICK f \in [0 .. n -> T] : IsRec(f, n, nil, step)
  BY <1>1, <1>3, <1>a, RecExists
<1>6. ASSUME NEW i \in 1 .. n PROVE f[i - 1] \in T /\ f[i] = f[i - 1] \o s[i]
  <2>1. i - 1 \in 0 .. n  BY <1>1
  <2>2. f[i - 1] \in T  BY <2>1
  <2> QED  BY <1>4, <1>5, <2>2 DEF IsRec
<1>7. f[1] = s[1]
  <2>1. 1 \in 1 .. n /\ 1 - 1 = 0  BY <1>1 DEF n
  <2>2. f[1] = <<>> \o s[1] /\ s[1] \in T
    BY <1>1, <1>5, <1>6, <2>1 DEF nil, IsRec
  <2> QED  BY <2>2 DEF T
<1> DEFINE g == [i \in 1 .. n |-> f[i]]
<1>8. ASSUME NEW i \in 1 .. n
      PROVE  g[i] = IF i = 1 THEN s[i] ELSE g[i - 1] \o s[i]
  <2>1. CASE i = 1  BY <1>7, <2>1
  <2>2. CASE i # 1
    <3>1. i - 1 \in 1 .. n  BY <1>1, <2>2
    <3>2. g[i - 1] = f[i - 1] /\ g[i] = f[i]  BY <3>1
    <3> QED  BY <1>6, <2>2, <3>2
  <2> QED  BY <2>1, <2>2
<1>9. g = [i \in 1 .. n |-> IF i = 1 THEN s[i] ELSE g[i - 1] \o s[i]]
  BY <1>8
<1> HIDE DEF g
<1> DEFINE F == Flat(s)
<1>10. F = [i \in 1 .. n |-> IF i = 1 THEN s[i] ELSE F[i - 1] \o s[i]]
  BY <1>9 DEF Flat, n
<1> HIDE DEF F
<1>11. F[1] = s[1]  BY <1>1, <1>10 DEF n
<1>12. ASSUME NEW i \in 2 .. n PROVE F[i] = F[i - 1] \o s[i]
  <2>1. i \in 1 .. n /\ i # 1  BY <1>1
  <2> QED  BY <1>10, <2>1
<1>13. \A i \in 1 .. n : F[i] = f[i]
  <2>1. ASSUME NEW i \in 2 .. n, F[i - 1] = f[i - 1] PROVE F[i] = f[i]
    <3>1. i \in 1 .. n  BY <1>1
    <3> QED  BY <1>6, <1>12, <2>1, <3>1
  <2>2. F[1] = f[1] /\ 1 \in Nat /\ n \in Nat  BY <1>1, <1>7, <1>11
  <2>3. SameSteps(F, f, 1, n)  BY <2>1, <2>2 DEF SameSteps
  <2>4. Agree(F, f, 1, n)  BY <2>2, <2>3, RecUnique
  <2> QED  BY <2>4 DEF Agree
<1>14. \A i \in 1 .. n : F[i] \in Seq(S)  BY <1>1, <1>5, <1>13 DEF T
<1> QED  BY <1>11, <1>12, <1>14 DEF F, n

\* FlattenSeq in terms of that function.
LEMMA FlattenIs ==
  ASSUME NEW s
  PROVE  FlattenSeq(s) = IF Len(s) = 0 THEN s ELSE Flat(s)[Len(s)]
  BY DEF FlattenSeq, Flat

\* The blocks of nothing, and of one block more.
LEMMA FlattenAppend ==
  ASSUME NEW S, NEW s \in Seq(Seq(S)), NEW b \in Seq(S)
  PROVE  /\ FlattenSeq(s) \in Seq(S)
         /\ FlattenSeq(Append(s, b)) = FlattenSeq(s) \o b
<1> DEFINE u == Append(s, b)
           n == Len(s)
<1>1. /\ n \in Nat /\ u \in Seq(Seq(S)) /\ Len(u) = n + 1 /\ u[n + 1] = b
      /\ \A i \in 1 .. n : u[i] = s[i]
  OBVIOUS
<1> HIDE DEF u
<1>2. CASE n = 0
  <2>1. s = <<>>  BY <1>2
  <2>2. FlattenSeq(s) = <<>>  BY <1>2, <2>1, FlattenIs
  <2>3. FlattenSeq(u) = Flat(u)[1] /\ Flat(u)[1] = u[1] /\ u[1] = b
    <3>1. Len(u) = 1 /\ Len(u) > 0 /\ ~(Len(u) = 0) /\ u[1] = b  BY <1>1, <1>2
    <3>a. FlattenSeq(u) = IF Len(u) = 0 THEN u ELSE Flat(u)[Len(u)]
      BY FlattenIs
    <3>2. FlattenSeq(u) = Flat(u)[1]  BY <3>1, <3>a
    <3>b. u \in Seq(Seq(S))  BY <1>1
    <3> HIDE DEF n
    <3>3. Flat(u)[1] = u[1]  BY <3>1, <3>b, FlatStep
    <3> QED  BY <3>1, <3>2, <3>3
  <2> QED  BY <2>2, <2>3 DEF u
<1>3. CASE n > 0
  <2> HIDE DEF n
  <2>1. \A i \in 1 .. n : Flat(u)[i] = Flat(s)[i]
    <3> DEFINE f == Flat(u)
               g == Flat(s)
    <3>1. 1 \in 1 .. n /\ Len(u) > 0  BY <1>1, <1>3
    <3>2. f[1] = u[1] /\ g[1] = s[1] /\ u[1] = s[1]
      <4>1. u[1] = s[1]  BY <1>1, <3>1
      <4>2. f[1] = u[1]  BY <1>1, <3>1, FlatStep
      <4>3. g[1] = s[1]  BY <1>3, FlatStep DEF n
      <4> QED  BY <4>1, <4>2, <4>3
    <3>3. ASSUME NEW i \in 2 .. n, f[i - 1] = g[i - 1] PROVE f[i] = g[i]
      <4>1. i \in 2 .. Len(u) /\ i \in 1 .. n /\ i \in 2 .. Len(s)
        BY <1>1 DEF n
      <4>2. f[i] = f[i - 1] \o u[i]  BY <1>1, <3>1, <4>1, FlatStep
      <4>3. g[i] = g[i - 1] \o s[i]  BY <1>3, <4>1, FlatStep DEF n
      <4> QED  BY <1>1, <3>3, <4>1, <4>2, <4>3
    <3> HIDE DEF f, g
    <3>4. SameSteps(f, g, 1, n)  BY <3>2, <3>3 DEF SameSteps
    <3>5. n \in Nat /\ 1 \in Nat  BY <1>1
    <3>6. Agree(f, g, 1, n)  BY <3>4, <3>5, RecUnique
    <3> QED  BY <3>6 DEF Agree, f, g
  <2>2. n \in 1 .. n /\ n + 1 \in 2 .. Len(u) /\ (n + 1) - 1 = n /\ Len(u) > 0
    BY <1>1, <1>3
  <2>3. Flat(u)[n + 1] = Flat(u)[n] \o u[n + 1]
    BY <1>1, <2>2, FlatStep
  <2>4. FlattenSeq(u) = Flat(u)[n + 1]  BY <1>1, <2>2, FlattenIs
  <2>5. FlattenSeq(s) = Flat(s)[n]  BY <1>3, FlattenIs DEF n
  <2>6. Flat(s)[n] \in Seq(S)  BY <1>3, <2>2, FlatStep DEF n
  <2> QED  BY <1>1, <2>1, <2>2, <2>3, <2>4, <2>5, <2>6 DEF u
<1> QED  BY <1>1, <1>2, <1>3

\* Of no block there is nothing.
LEMMA FlattenEmpty == FlattenSeq(<<>>) = <<>>
  BY FlattenIs

-----------------------------------------------------------------------------
(***************************************************************************)
(* The bytes of one attempt.                                               *)
(***************************************************************************)
\* x and, if it is one of a, the byte b.
Kept(a, x, b) == IF b[1] = a THEN Append(x, b) ELSE x

\* The recursive function inside OfFirst satisfies its equation.
LEMMA OfStep ==
  ASSUME NEW S, NEW s \in Seq(S), NEW a
  PROVE  /\ OfFirst(a, s, 0) = <<>>
         /\ \A i \in 1 .. Len(s) :
              OfFirst(a, s, i) = Kept(a, OfFirst(a, s, i - 1), s[i])
         /\ \A i \in 0 .. Len(s) : OfFirst(a, s, i) \in Seq(S)
<1> DEFINE n == Len(s)
           T == Seq(S)
           nil == <<>>
           Next(x, i) == IF s[i][1] = a THEN Append(x, s[i]) ELSE x
           step == [i \in 1 .. n |-> [x \in T |-> Next(x, i)]]
<1>1. n \in Nat /\ nil \in T  OBVIOUS
<1>2. \A i \in 1 .. n, x \in T : Next(x, i) \in T
  <2> SUFFICES ASSUME NEW i \in 1 .. n, NEW x \in T PROVE Next(x, i) \in T
    OBVIOUS
  <2>1. s[i] \in S  OBVIOUS
  <2>2. Append(x, s[i]) \in T  BY <2>1
  <2> QED  BY <2>2
<1> HIDE DEF n, T, nil, Next
<1>3. step \in [1 .. n -> [T -> T]]  BY <1>2
<1>4. \A i \in 1 .. n, x \in T : step[i][x] = Next(x, i)  OBVIOUS
<1> HIDE DEF step
<1>5. PICK f \in [0 .. n -> T] : IsRec(f, n, nil, step)
  BY <1>1, <1>3, RecExists
<1>6. ASSUME NEW i \in 1 .. n PROVE f[i] = Next(f[i - 1], i)
  <2>1. i - 1 \in 0 .. n  BY <1>1
  <2>2. f[i - 1] \in T  BY <2>1
  <2> QED  BY <1>4, <1>5, <2>2 DEF IsRec
<1>7. f[0] = nil  BY <1>5 DEF IsRec
<1>8. ASSUME NEW i \in 0 .. n
      PROVE  f[i] = IF i = 0 THEN nil ELSE Next(f[i - 1], i)
  <2>1. CASE i = 0  BY <1>7, <2>1
  <2>2. CASE i # 0  BY <1>1, <1>6, <2>2
  <2> QED  BY <2>1, <2>2
<1>9. f = [i \in 0 .. n |-> IF i = 0 THEN nil ELSE Next(f[i - 1], i)]
  BY <1>8
<1> DEFINE F == CHOOSE g : g = [i \in 0 .. n |->
                                  IF i = 0 THEN nil ELSE Next(g[i - 1], i)]
<1>10. F = [i \in 0 .. n |-> IF i = 0 THEN nil ELSE Next(F[i - 1], i)]
  BY <1>9
<1>11. \A i : OfFirst(a, s, i) = F[i]  BY DEF OfFirst, Next, n, nil
<1> HIDE DEF F
<1>12. F[0] = nil  BY <1>1, <1>10
<1>13. ASSUME NEW i \in 1 .. n PROVE F[i] = Next(F[i - 1], i)
  BY <1>1, <1>10
<1>14. SameSteps(F, f, 0, n)
  <2>1. F[0] = f[0]  BY <1>7, <1>12
  <2>2. ASSUME NEW i \in 0 + 1 .. n, F[i - 1] = f[i - 1] PROVE F[i] = f[i]
    <3>1. i \in 1 .. n  OBVIOUS
    <3> QED  BY <1>6, <1>13, <2>2, <3>1
  <2> QED  BY <2>1, <2>2 DEF SameSteps
<1>15. Agree(F, f, 0, n)
  <2>1. 0 \in Nat /\ n \in Nat  BY <1>1
  <2> QED  BY <1>14, <2>1, RecUnique
<1>16. \A i \in 0 .. n : F[i] = f[i]  BY <1>15 DEF Agree
<1>17. \A i \in 0 .. n : F[i] \in T  BY <1>16
<1>18. OfFirst(a, s, 0) = <<>>  BY <1>11, <1>12 DEF nil
<1>19. ASSUME NEW i \in 1 .. n
       PROVE  OfFirst(a, s, i) = Kept(a, OfFirst(a, s, i - 1), s[i])
  BY <1>11, <1>13 DEF Next, Kept
<1>20. \A i \in 0 .. n : OfFirst(a, s, i) \in Seq(S)  BY <1>11, <1>17 DEF T
<1> QED  BY <1>18, <1>19, <1>20 DEF n

\* Only the first n bytes count.
LEMMA OfPrefix ==
  ASSUME NEW S, NEW s \in Seq(S), NEW u \in Seq(S), NEW a, NEW n \in Nat,
         n <= Len(s), n <= Len(u), \A i \in 1 .. n : s[i] = u[i]
  PROVE  OfFirst(a, s, n) = OfFirst(a, u, n)
<1> DEFINE G == {k \in 0 .. n : OfFirst(a, s, k) = OfFirst(a, u, k)}
<1>1. 0 \in G
  <2>1. OfFirst(a, s, 0) = <<>>  BY OfStep
  <2>2. OfFirst(a, u, 0) = <<>>  BY OfStep
  <2> QED  BY <2>1, <2>2
<1>2. ASSUME NEW k \in 0 .. n, k \in G, k < n PROVE k + 1 \in G
  <2>1. /\ k + 1 \in 1 .. n /\ (k + 1) - 1 = k /\ k + 1 \in 0 .. n
        /\ k + 1 \in 1 .. Len(s) /\ k + 1 \in 1 .. Len(u)
    BY <1>2
  <2>2. OfFirst(a, s, k + 1) = Kept(a, OfFirst(a, s, k), s[k + 1])
    BY <2>1, OfStep
  <2>3. OfFirst(a, u, k + 1) = Kept(a, OfFirst(a, u, k), u[k + 1])
    BY <2>1, OfStep
  <2>4. s[k + 1] = u[k + 1]  BY <2>1
  <2> QED  BY <1>2, <2>1, <2>2, <2>3, <2>4
<1> HIDE DEF G
<1>3. 0 .. n \subseteq G  BY <1>1, <1>2, UpTo
<1>4. n \in G  BY <1>3
<1> QED  BY <1>4 DEF G

\* One byte more of t behind x.
LEMMA ConcatNext ==
  ASSUME NEW S, NEW x \in Seq(S), NEW t \in Seq(S), NEW k \in Nat, k < Len(t)
  PROVE  Append(x \o SubSeq(t, 1, k), t[k + 1]) = x \o SubSeq(t, 1, k + 1)
<1> DEFINE p == SubSeq(t, 1, k)
           q == SubSeq(t, 1, k + 1)
<1>1. Len(t) \in Nat /\ k + 1 \in 1 .. Len(t)  OBVIOUS
<1>2. /\ p \in Seq(S) /\ Len(p) = k /\ \A i \in 1 .. k : p[i] = t[i]
  <2>1. SubSeq(t, 0 + 1, 0 + k) = p  OBVIOUS
  <2>2. 0 + k <= Len(t) /\ 0 \in Nat  BY <1>1
  <2> HIDE DEF p
  <2>3. /\ p \in Seq(S) /\ Len(p) = k /\ \A i \in 1 .. k : p[i] = t[0 + i]
    BY <2>1, <2>2, SubSeqAt
  <2> QED  BY <2>3
<1>3. q \in Seq(S) /\ Len(q) = k + 1 /\ \A i \in 1 .. k + 1 : q[i] = t[i]
  <2> DEFINE m == k + 1
  <2>1. SubSeq(t, 0 + 1, 0 + m) = q  OBVIOUS
  <2>2. 0 + m <= Len(t) /\ 0 \in Nat /\ m \in Nat  BY <1>1
  <2> HIDE DEF q, m
  <2>3. /\ q \in Seq(S) /\ Len(q) = m /\ \A i \in 1 .. m : q[i] = t[0 + i]
    BY <2>1, <2>2, SubSeqAt
  <2> QED  BY <2>3 DEF m
<1> HIDE DEF p, q
<1> DEFINE e == t[k + 1]
<1>4. e \in S /\ q[Len(p) + 1] = e /\ Len(q) = Len(p) + 1
  BY <1>1, <1>2, <1>3
<1> HIDE DEF e
<1>5. \A i \in 1 .. Len(p) : q[i] = p[i]
  <2> SUFFICES ASSUME NEW i \in 1 .. k PROVE q[i] = p[i]  BY <1>2
  <2>1. i \in 1 .. k + 1  OBVIOUS
  <2> QED  BY <1>2, <1>3, <2>1
<1>6. p \in Seq(S) /\ q \in Seq(S)  BY <1>2, <1>3
<1> DEFINE u == Append(x \o p, e)
<1>7. /\ u \in Seq(S) /\ Len(u) = Len(x) + Len(p) + 1
      /\ u[Len(x) + Len(p) + 1] = e
      /\ \A i \in 1 .. Len(x) : u[i] = x[i]
      /\ \A i \in 1 .. Len(p) : u[Len(x) + i] = p[i]
  BY <1>4, <1>6
<1>8. Len(x) \in Nat /\ Len(p) \in Nat  BY <1>6
<1> HIDE DEF u
<1>9. Len(u) = Len(x) + Len(q)  BY <1>4, <1>7, <1>8
<1>10. ASSUME NEW i \in 1 .. Len(q) PROVE u[Len(x) + i] = q[i]
  <2>1. CASE i = Len(p) + 1
    <3>1. Len(x) + i = Len(x) + Len(p) + 1  BY <1>8, <2>1
    <3> QED  BY <1>4, <1>7, <2>1, <3>1
  <2>2. CASE i \in 1 .. Len(p)  BY <1>5, <1>7, <2>2
  <2> QED  BY <1>4, <1>8, <2>1, <2>2
<1>11. u = x \o q  BY <1>6, <1>7, <1>9, <1>10, IsConcat
<1> QED  BY <1>11 DEF p, q, e, u

\* Behind s come bytes of a only, or no byte of a.
LEMMA OfConcat ==
  ASSUME NEW S, NEW s \in Seq(S), NEW t \in Seq(S), NEW a
  PROVE  /\ Of(a, s) \in Seq(S)
         /\ (\A i \in 1 .. Len(t) : t[i][1] = a) =>
              Of(a, s \o t) = Of(a, s) \o t
         /\ (\A i \in 1 .. Len(t) : t[i][1] # a) => Of(a, s \o t) = Of(a, s)
<1> DEFINE u == s \o t
           m == Len(s)
           n == Len(t)
           x == Of(a, s)
<1>1. /\ m \in Nat /\ n \in Nat /\ u \in Seq(S) /\ Len(u) = m + n
      /\ \A i \in 1 .. m : u[i] = s[i]
      /\ \A i \in 1 .. n : u[m + i] = t[i]
  OBVIOUS
<1>2. x \in Seq(S) /\ x = OfFirst(a, s, m)
  <2>1. m \in 0 .. Len(s)  OBVIOUS
  <2>2. OfFirst(a, s, m) \in Seq(S)  BY <2>1, OfStep
  <2> QED  BY <2>2 DEF Of
<1> HIDE DEF u, m, n, x
<1>3. OfFirst(a, u, m) = x
  <2>1. m <= Len(s) /\ m <= Len(u)  BY <1>1 DEF m
  <2>2. OfFirst(a, u, m) = OfFirst(a, s, m)  BY <1>1, <2>1, OfPrefix
  <2> QED  BY <1>2, <2>2
<1>4. ASSUME NEW k \in 0 .. n, k < n
      PROVE  OfFirst(a, u, m + (k + 1)) =
               Kept(a, OfFirst(a, u, m + k), t[k + 1])
  <2>1. /\ m + (k + 1) \in 1 .. Len(u) /\ (m + (k + 1)) - 1 = m + k
        /\ k + 1 \in 1 .. n
    BY <1>1, <1>4
  <2>2. u[m + (k + 1)] = t[k + 1]  BY <1>1, <2>1
  <2> DEFINE j == m + (k + 1)
  <2>3. j \in 1 .. Len(u) /\ j - 1 = m + k /\ u[j] = t[k + 1]  BY <2>1, <2>2
  <2> HIDE DEF j
  <2>4. OfFirst(a, u, j) = Kept(a, OfFirst(a, u, j - 1), u[j])
    BY <1>1, <2>3, OfStep
  <2> QED  BY <2>3, <2>4 DEF j
<1>5. Of(a, u) = OfFirst(a, u, m + n)  BY <1>1 DEF Of
<1>6. ASSUME \A i \in 1 .. n : t[i][1] = a PROVE Of(a, u) = x \o t
  <2> DEFINE G == {k \in 0 .. n : OfFirst(a, u, m + k) = x \o SubSeq(t, 1, k)}
  <2>1. 0 \in G
    <3>1. SubSeq(t, 1, 0) = <<>>  OBVIOUS
    <3>2. x \o SubSeq(t, 1, 0) = x  BY <1>2, <3>1
    <3> QED  BY <1>1, <1>3, <3>2
  <2>2. ASSUME NEW k \in 0 .. n, k \in G, k < n PROVE k + 1 \in G
    <3>1. k + 1 \in 1 .. n /\ k \in Nat /\ k < Len(t)  BY <1>1, <2>2 DEF n
    <3>2. OfFirst(a, u, m + (k + 1)) = Append(OfFirst(a, u, m + k), t[k + 1])
      BY <1>4, <1>6, <2>2, <3>1 DEF Kept
    <3>3. OfFirst(a, u, m + k) = x \o SubSeq(t, 1, k)  BY <2>2
    <3>4. Append(x \o SubSeq(t, 1, k), t[k + 1]) = x \o SubSeq(t, 1, k + 1)
      BY <1>2, <3>1, ConcatNext
    <3>5. k + 1 \in 0 .. n  BY <3>1
    <3> QED  BY <3>2, <3>3, <3>4, <3>5
  <2> HIDE DEF G
  <2>3. 0 .. n \subseteq G  BY <1>1, <2>1, <2>2, UpTo
  <2>4. n \in G  BY <1>1, <2>3
  <2>5. OfFirst(a, u, m + n) = x \o SubSeq(t, 1, n)  BY <2>4 DEF G
  <2>6. SubSeq(t, 1, n) = t  BY DEF n
  <2> QED  BY <1>5, <2>5, <2>6
<1>7. ASSUME \A i \in 1 .. n : t[i][1] # a PROVE Of(a, u) = x
  <2> DEFINE G == {k \in 0 .. n : OfFirst(a, u, m + k) = x}
  <2>1. 0 \in G  BY <1>1, <1>3
  <2>2. ASSUME NEW k \in 0 .. n, k \in G, k < n PROVE k + 1 \in G
    <3>1. k + 1 \in 1 .. n /\ k + 1 \in 0 .. n  BY <1>1, <2>2
    <3> QED  BY <1>4, <1>7, <2>2, <3>1 DEF Kept
  <2> HIDE DEF G
  <2>3. 0 .. n \subseteq G  BY <1>1, <2>1, <2>2, UpTo
  <2>4. n \in G  BY <1>1, <2>3
  <2> QED  BY <1>5, <2>4 DEF G
<1> QED  BY <1>2, <1>6, <1>7 DEF u, n, x

\* In nothing there is nothing of anybody.
LEMMA OfEmpty ==
  ASSUME NEW a
  PROVE  Of(a, <<>>) = <<>>
<1>1. <<>> \in Seq({}) /\ Len(<<>>) = 0  OBVIOUS
<1> QED  BY <1>1, OfStep DEF Of

-----------------------------------------------------------------------------
(***************************************************************************)
(* The invariant.                                                          *)
(***************************************************************************)
Bytes == Nat \X Nat

StreamStates == {"new", "run", "flushed", "done", "dead", "overflow"}

Streams == [st : StreamStates, ser : Seq(Bytes), bb : Seq(Bytes), rem : Nat,
            fl : Nat, size : Nat, records : Nat, recordsPerBlock : Nat,
            arr : Seq(Nat), made : Nat]

\* The bytes of s are those attempt a serialized after the first k.
Numbered(a, s, k) == \A i \in 1 .. Len(s) : s[i] = <<a, k + i>>

\* X, byteBuffer and what the serializer keeps back are, in this order, all
\* that attempt a has serialized.
Placed(a, X, x) ==
  /\ Len(X) + Len(x.bb) + Len(x.ser) = x.made
  /\ Numbered(a, X, 0)
  /\ Numbered(a, x.bb, Len(X))
  /\ Numbered(a, x.ser, Len(X) + Len(x.bb))

\* The counters of a stream between two calls.
Counted(x) ==
  /\ x.rem = Len(x.bb) /\ x.fl = 0
  /\ Len(x.ser) <= SerCap
  /\ x.st \in {"flushed", "done"} => Len(x.bb) = 0 /\ Len(x.ser) = 0
  /\ x.recordsPerBlock > 0 => Len(x.bb) + Len(x.ser) > 0
  /\ SumFirst(x.arr, Len(x.arr)) + x.recordsPerBlock = x.records

\* The output stream x of attempt a, of which the store holds X in n blocks.
StreamInv(a, x, X, n) ==
  /\ x \in Streams /\ Counted(x) /\ Placed(a, X, x)
  /\ x.size = Len(X) /\ Len(x.arr) = n

\* While records are written, less than the throttle is left in byteBuffer.
Throttled(th, x) ==
  x.st \in {"new", "run"} /\ th # -1 => x.rem < th \/ x.rem = 0

RoomEnough(th) == th > 0 /\ th + SerCap + MaxRecord <= BufCap + 1

Blocks(s) == s \in Seq(Seq(Bytes)) /\ \A i \in 1 .. Len(s) : Len(s[i]) > 0

\* The output streams w of all attempts, with throttle th and commit c, when
\* the blocks s are stored.
Writers(th, s, w, c) ==
  /\ th \in SpillThrottles
  /\ Blocks(s)
  /\ DOMAIN w = Attempts
  /\ \A a \in Attempts : /\ StreamInv(a, w[a], Of(a, FlattenSeq(s)),
                                     Cardinality(BlocksOf(a, s)))
                         /\ Throttled(th, w[a])
                         /\ RoomEnough(th) => w[a].st # "overflow"
  /\ c \in {0} \cup Attempts
  /\ c # 0 => w[c].st = "done"

WriterInv == Writers(throttle, store, wr, commit)

Inputs == [st : {"none", "info", "open", "eof"}, info : Seq(Seq(Bytes)),
           index : Nat, available : Int, buf : Seq(Bytes), got : Seq(Bytes)]

\* All that attempt c has serialized when it made m bytes.
AllBytes(c, m) == [i \in 1 .. m |-> <<c, i>>]

\* The blocks t are the first ones of s.
FirstBlocks(t, s) == /\ Len(t) <= Len(s)
                     /\ \A i \in 1 .. Len(t) : t[i] = s[i]

\* The number of bytes in the first k blocks of s.
FirstBytes(s, k) == Len(FlattenSeq(SubSeq(s, 1, k)))

\* total_size is n and attempt a is adding a block, or nobody if a is 0, when
\* s is stored and the streams are w: only the last block may not be counted,
\* and then it is of a stream that is not closed, and not the first one.
Counting(s, n, a, w) ==
  /\ a \in {0} \cup Attempts
  /\ a = 0 => n = Len(FlattenSeq(s))
  /\ a # 0 => /\ Len(s) > 1
              /\ n = FirstBytes(s, Len(s) - 1)
              /\ \A i \in 1 .. Len(s[Len(s)]) : s[Len(s)][i][1] = a
              /\ w[a].st # "done"

CountInv == Counting(store, total, adding, wr)

\* All blocks that the reader x found are loaded.
AllLoaded(x) == x.index = Len(x.info) /\ x.got \o x.buf = FlattenSeq(x.info)

\* All but the last one are loaded; it is not of attempt c and was not counted
\* in the size.
LastMissing(x, c) ==
  LET n == Len(x.info)
  IN  /\ n > 0
      /\ x.index = n - 1
      /\ x.got \o x.buf = FlattenSeq(SubSeq(x.info, 1, n - 1))
      /\ x.available = Len(x.buf)
      /\ \A i \in 1 .. Len(x.info[n]) : x.info[n][i][1] # c

\* The reader x when s is stored and attempt c, committed, made m bytes.
Reader(x, s, c, m) ==
  /\ Blocks(x.info)
  /\ Of(c, FlattenSeq(x.info)) = AllBytes(c, m)
  /\ x.st = "info" => FirstBlocks(x.info, s) /\ x.got = <<>>
  /\ x.st \in {"open", "eof"} => AllLoaded(x) \/ LastMissing(x, c)
  /\ x.st = "eof" => x.buf = <<>>

InputInv ==
  /\ in \in Inputs
  /\ in.st = "none" => in.got = <<>>
  /\ in.st # "none" => /\ commit # 0
                       /\ Reader(in, store, commit, wr[commit].made)

BlockStreamInv == WriterInv /\ CountInv /\ InputInv

\* Numbered sequences one after the other.
LEMMA NumberedConcat ==
  ASSUME NEW a, NEW s \in Seq(Bytes), NEW t \in Seq(Bytes), NEW k \in Nat,
         Numbered(a, s, k), Numbered(a, t, k + Len(s))
  PROVE  /\ s \o t \in Seq(Bytes) /\ Len(s \o t) = Len(s) + Len(t)
         /\ Numbered(a, s \o t, k)
<1> DEFINE u == s \o t
<1>1. /\ u \in Seq(Bytes) /\ Len(u) = Len(s) + Len(t)
      /\ \A i \in 1 .. Len(s) : u[i] = s[i]
      /\ \A i \in 1 .. Len(t) : u[Len(s) + i] = t[i]
      /\ Len(s) \in Nat /\ Len(t) \in Nat
  OBVIOUS
<1> HIDE DEF u
<1>2. ASSUME NEW i \in 1 .. Len(u) PROVE u[i] = <<a, k + i>>
  <2>1. CASE i <= Len(s)
    <3>1. i \in 1 .. Len(s)  BY <1>1, <2>1
    <3> QED  BY <1>1, <3>1 DEF Numbered
  <2>2. CASE ~(i <= Len(s))
    <3> DEFINE j == i - Len(s)
    <3>1. j \in 1 .. Len(t) /\ Len(s) + j = i /\ (k + Len(s)) + j = k + i
      BY <1>1, <2>2
    <3> HIDE DEF j
    <3>2. u[Len(s) + j] = t[j] /\ t[j] = <<a, (k + Len(s)) + j>>
      BY <1>1, <3>1 DEF Numbered
    <3> QED  BY <3>1, <3>2
  <2> QED  BY <2>1, <2>2
<1> QED  BY <1>1, <1>2 DEF u, Numbered

\* A numbered sequence cut after d bytes.
LEMMA NumberedCut ==
  ASSUME NEW a, NEW s \in Seq(Bytes), NEW k \in Nat, NEW d \in 0 .. Len(s),
         Numbered(a, s, k)
  PROVE  /\ SubSeq(s, 1, d) \in Seq(Bytes) /\ Len(SubSeq(s, 1, d)) = d
         /\ Numbered(a, SubSeq(s, 1, d), k)
         /\ SubSeq(s, d + 1, Len(s)) \in Seq(Bytes)
         /\ Len(SubSeq(s, d + 1, Len(s))) = Len(s) - d
         /\ Numbered(a, SubSeq(s, d + 1, Len(s)), k + d)
<1>0. Len(s) \in Nat /\ d \in Nat /\ d <= Len(s)  OBVIOUS
<1> DEFINE p == SubSeq(s, 1, d)
           q == SubSeq(s, d + 1, Len(s))
           e == Len(s) - d
<1>1. p \in Seq(Bytes) /\ Len(p) = d /\ \A i \in 1 .. d : p[i] = s[0 + i]
  <2>1. SubSeq(s, 0 + 1, 0 + d) = p  OBVIOUS
  <2>2. 0 + d <= Len(s) /\ 0 \in Nat  BY <1>0
  <2> HIDE DEF p
  <2> QED  BY <1>0, <2>1, <2>2, SubSeqAt
<1>2. q \in Seq(Bytes) /\ Len(q) = e /\ \A i \in 1 .. e : q[i] = s[d + i]
  <2>1. e \in Nat /\ d + e = Len(s) /\ d + e <= Len(s)  BY <1>0
  <2> HIDE DEF e
  <2>2. SubSeq(s, d + 1, d + e) = q  BY <2>1
  <2> HIDE DEF q
  <2>3. /\ SubSeq(s, d + 1, d + e) \in Seq(Bytes)
        /\ Len(SubSeq(s, d + 1, d + e)) = e
        /\ \A i \in 1 .. e : SubSeq(s, d + 1, d + e)[i] = s[d + i]
    BY <1>0, <2>1, SubSeqAt
  <2> QED  BY <2>2, <2>3
<1> HIDE DEF p, q
<1>3. Numbered(a, p, k)
  <2> SUFFICES ASSUME NEW i \in 1 .. d PROVE p[i] = <<a, k + i>>
    BY <1>1 DEF Numbered
  <2>1. i \in 1 .. Len(s) /\ 0 + i = i  BY <1>0
  <2> QED  BY <1>1, <2>1 DEF Numbered
<1>4. Numbered(a, q, k + d)
  <2> SUFFICES ASSUME NEW i \in 1 .. e PROVE q[i] = <<a, (k + d) + i>>
    BY <1>2 DEF Numbered
  <2>1. d + i \in 1 .. Len(s) /\ k + (d + i) = (k + d) + i  BY <1>0
  <2>2. s[d + i] = <<a, k + (d + i)>>  BY <2>1 DEF Numbered
  <2> QED  BY <1>2, <2>1, <2>2
<1> QED  BY <1>1, <1>2, <1>3, <1>4 DEF p, q, e

\* The bytes of a new record.
FreshBytes(a, m, k) == [i \in 1 .. k |-> <<a, m + i>>]

\* They are numbered.
LEMMA NumberedFresh ==
  ASSUME NEW a \in Nat, NEW m \in Nat, NEW k \in Nat
  PROVE  /\ FreshBytes(a, m, k) \in Seq(Bytes) /\ Len(FreshBytes(a, m, k)) = k
         /\ Numbered(a, FreshBytes(a, m, k), m)
<1> DEFINE f == FreshBytes(a, m, k)
<1>1. \A i \in 1 .. k : <<a, m + i>> \in Bytes  BY DEF Bytes
<1>2. f \in [1 .. k -> Bytes]  BY <1>1 DEF FreshBytes
<1>3. \A i \in 1 .. k : f[i] = <<a, m + i>>  BY DEF FreshBytes
<1> HIDE DEF f
<1>4. f \in Seq(Bytes) /\ Len(f) = k  BY <1>2
<1>5. Numbered(a, f, m)  BY <1>3, <1>4 DEF Numbered
<1> QED  BY <1>4, <1>5 DEF f

\* Numbered bytes of a are bytes of a and of nobody else.
LEMMA NumberedOwn ==
  ASSUME NEW a, NEW s \in Seq(Bytes), NEW k \in Nat, Numbered(a, s, k)
  PROVE  \A i \in 1 .. Len(s) : s[i][1] = a
  BY DEF Numbered

-----------------------------------------------------------------------------
\* The store is s, then u, and has got the block b of attempt a.
AddedBlock(a, b, s, u) ==
  /\ Blocks(u)
  /\ Of(a, FlattenSeq(s)) \in Seq(Bytes)
  /\ Of(a, FlattenSeq(u)) = Of(a, FlattenSeq(s)) \o b
  /\ \A c : c # a => Of(c, FlattenSeq(u)) = Of(c, FlattenSeq(s))
  /\ Cardinality(BlocksOf(a, u)) = Cardinality(BlocksOf(a, s)) + 1
  /\ \A c : c # a => BlocksOf(c, u) = BlocksOf(c, s)

\* A block of attempt a is stored: its bytes come behind those stored before.
LEMMA BlockAdded ==
  ASSUME NEW s, Blocks(s), NEW a, NEW b \in Seq(Bytes), Len(b) > 0,
         NEW k \in Nat, Numbered(a, b, k), NEW u, u = Append(s, b)
  PROVE  AddedBlock(a, b, s, u)
<1>1. s \in Seq(Seq(Bytes)) /\ \A i \in 1 .. Len(s) : Len(s[i]) > 0
  BY DEF Blocks
<1> DEFINE n == Len(s)
<1>2. /\ n \in Nat /\ u \in Seq(Seq(Bytes)) /\ Len(u) = n + 1 /\ u[n + 1] = b
      /\ \A i \in 1 .. n : u[i] = s[i]
  BY <1>1
<1>3. Blocks(u)
  <2> SUFFICES ASSUME NEW i \in 1 .. n + 1 PROVE Len(u[i]) > 0
    BY <1>2 DEF Blocks
  <2>1. CASE i = n + 1  BY <1>2, <2>1
  <2>2. CASE i \in 1 .. n  BY <1>1, <1>2, <2>2
  <2> QED  BY <1>2, <2>1, <2>2
<1> DEFINE F == FlattenSeq(s)
<1>4. F \in Seq(Bytes) /\ FlattenSeq(u) = F \o b
  <2>1. FlattenSeq(Append(s, b)) = F \o b /\ F \in Seq(Bytes)
    BY <1>1, FlattenAppend
  <2> QED  BY <2>1
<1> HIDE DEF F
<1>5. \A i \in 1 .. Len(b) : b[i][1] = a  BY NumberedOwn
<1>6. Of(a, F) \in Seq(Bytes) /\ Of(a, F \o b) = Of(a, F) \o b
  BY <1>4, <1>5, OfConcat
<1>7. ASSUME NEW c, c # a PROVE Of(c, F \o b) = Of(c, F)
  <2>1. \A i \in 1 .. Len(b) : b[i][1] # c  BY <1>5, <1>7
  <2> QED  BY <1>4, <2>1, OfConcat
<1>8. b[1][1] = a
  <2>1. 1 \in 1 .. Len(b)  OBVIOUS
  <2> QED  BY <1>5, <2>1
<1>9. DOMAIN s = 1 .. n /\ DOMAIN u = 1 .. n + 1  BY <1>1, <1>2
<1> HIDE DEF n
<1>10. ASSUME NEW c
       PROVE  BlocksOf(c, u) =
                BlocksOf(c, s) \cup (IF c = a THEN {n + 1} ELSE {})
  <2>1. ASSUME NEW i \in BlocksOf(c, u)
        PROVE  i \in BlocksOf(c, s) \cup (IF c = a THEN {n + 1} ELSE {})
    <3>1. i \in 1 .. n + 1 /\ u[i][1][1] = c  BY <1>9 DEF BlocksOf
    <3>2. CASE i = n + 1  BY <1>2, <1>8, <3>1, <3>2
    <3>3. CASE i # n + 1
      <4>1. i \in 1 .. n  BY <1>2, <3>1, <3>3
      <4> QED  BY <1>2, <1>9, <3>1, <4>1 DEF BlocksOf
    <3> QED  BY <3>2, <3>3
  <2>2. ASSUME NEW i \in BlocksOf(c, s) PROVE i \in BlocksOf(c, u)
    <3>1. i \in 1 .. n /\ s[i][1][1] = c  BY <1>9 DEF BlocksOf
    <3>2. i \in 1 .. n + 1 /\ u[i] = s[i]  BY <1>2, <3>1
    <3> QED  BY <1>9, <3>1, <3>2 DEF BlocksOf
  <2>3. c = a => n + 1 \in BlocksOf(c, u)
    <3>1. n + 1 \in 1 .. n + 1  BY <1>2
    <3> QED  BY <1>2, <1>8, <1>9, <3>1 DEF BlocksOf
  <2> QED  BY <2>1, <2>2, <2>3
<1>11. \A c : c # a => BlocksOf(c, u) = BlocksOf(c, s)  BY <1>10
<1>12. Cardinality(BlocksOf(a, u)) = Cardinality(BlocksOf(a, s)) + 1
  <2>1. BlocksOf(a, u) = BlocksOf(a, s) \cup {n + 1}  BY <1>10
  <2>2. BlocksOf(a, s) \subseteq 1 .. n /\ n + 1 \notin 1 .. n
    BY <1>2, <1>9 DEF BlocksOf
  <2>3. IsFiniteSet(1 .. n)  BY <1>2, FS_Interval
  <2>4. IsFiniteSet(BlocksOf(a, s))  BY <2>2, <2>3, FS_Subset
  <2>5. n + 1 \notin BlocksOf(a, s)  BY <2>2
  <2> QED  BY <2>1, <2>4, <2>5, FS_AddElement
<1> QED  BY <1>3, <1>4, <1>6, <1>7, <1>11, <1>12 DEF F, AddedBlock

\* What a store holds of an attempt, and in how many blocks.
LEMMA StoredType ==
  ASSUME NEW s, Blocks(s), NEW a
  PROVE  /\ Of(a, FlattenSeq(s)) \in Seq(Bytes)
         /\ Cardinality(BlocksOf(a, s)) \in Nat
<1>1. s \in Seq(Seq(Bytes)) /\ <<>> \in Seq(Bytes)  BY DEF Blocks
<1>2. FlattenSeq(s) \in Seq(Bytes)  BY <1>1, FlattenAppend
<1>3. Of(a, FlattenSeq(s)) \in Seq(Bytes)  BY <1>1, <1>2, OfConcat
<1>4. BlocksOf(a, s) \subseteq 1 .. Len(s) /\ Len(s) \in Nat
  BY <1>1 DEF BlocksOf
<1>5. IsFiniteSet(1 .. Len(s))  BY <1>4, FS_Interval
<1>6. IsFiniteSet(BlocksOf(a, s))  BY <1>4, <1>5, FS_Subset
<1> QED  BY <1>3, <1>6, FS_CardinalityType

\* What holds of a stream in the middle of maybeSpill, before the flush.
BeforeSpill(a, y, X, n) ==
  /\ y \in Streams /\ Placed(a, X, y)
  /\ y.rem = Len(y.bb) /\ y.fl = 0
  /\ Len(y.ser) <= SerCap
  /\ y.st \in {"flushed", "done"} => Len(y.ser) = 0
  /\ y.recordsPerBlock > 0 => Len(y.bb) + Len(y.ser) > 0
  /\ SumFirst(y.arr, Len(y.arr)) + y.recordsPerBlock = y.records
  /\ y.size = Len(X) /\ Len(y.arr) = n

\* byteBuffer of y is full of bytes of attempt a up to bufferRemainingSize.
Own(a, y) == /\ y.bb \in Seq(Bytes) /\ y.rem = Len(y.bb)
             /\ \A i \in 1 .. Len(y.bb) : y.bb[i][1] = a

\* It is, in and outside of maybeSpill.
LEMMA OwnBytes ==
  ASSUME NEW a \in Nat, NEW X \in Seq(Bytes), NEW n, NEW y,
         BeforeSpill(a, y, X, n) \/ StreamInv(a, y, X, n)
  PROVE  Own(a, y)
<1>1. y \in Streams /\ Numbered(a, y.bb, Len(X)) /\ y.rem = Len(y.bb)
  BY DEF BeforeSpill, StreamInv, Placed, Counted
<1>2. y.bb \in Seq(Bytes) /\ Len(X) \in Nat  BY <1>1 DEF Streams
<1> QED  BY <1>1, <1>2, NumberedOwn DEF Own

\* A step puts nothing, or a block of attempt a.
Puts(a) == PutNothing \/ \E y : Own(a, y) /\ PutBlock(a, y)

\* The flush and the accounting of maybeSpill: all of byteBuffer is in the
\* store, as one block if there was anything.
LEMMA SpillInv ==
  ASSUME NEW a \in Nat, NEW X \in Seq(Bytes), NEW n \in Nat,
         NEW y, BeforeSpill(a, y, X, n)
  PROVE  /\ y.rem > 0 => StreamInv(a, Account(Flushed(y)), X \o y.bb, n + 1)
         /\ y.rem = 0 => StreamInv(a, Account(Flushed(y)), X, n)
<1>0. /\ y.rem \in Nat /\ y.size \in Nat /\ y.recordsPerBlock \in Nat
      /\ y.arr \in Seq(Nat) /\ y.bb \in Seq(Bytes) /\ y.ser \in Seq(Bytes)
      /\ y.records \in Nat /\ y.made \in Nat /\ y.st \in StreamStates
      /\ Len(X) \in Nat /\ Len(y.bb) \in Nat /\ Len(y.ser) \in Nat
      /\ Len(y.arr) \in Nat /\ <<>> \in Seq(Bytes) /\ Len(<<>>) = 0
  BY DEF BeforeSpill, Streams
<1>1. SumFirst(y.arr, Len(y.arr)) \in Nat  BY <1>0, SumAppend
<1>a. /\ y \in Streams /\ y.rem = Len(y.bb) /\ y.fl = 0
      /\ Len(y.ser) <= SerCap /\ y.size = Len(X) /\ Len(y.arr) = n
      /\ y.st \in {"flushed", "done"} => Len(y.ser) = 0
      /\ y.recordsPerBlock > 0 => Len(y.bb) + Len(y.ser) > 0
      /\ SumFirst(y.arr, Len(y.arr)) + y.recordsPerBlock = y.records
  BY DEF BeforeSpill
<1>b. /\ Len(X) + Len(y.bb) + Len(y.ser) = y.made
      /\ Numbered(a, X, 0) /\ Numbered(a, y.bb, Len(X))
      /\ Numbered(a, y.ser, Len(X) + Len(y.bb))
  BY DEF BeforeSpill, Placed
<1> DEFINE z == Account(Flushed(y))
<1>2. ASSUME y.rem > 0 PROVE StreamInv(a, z, X \o y.bb, n + 1)
  <2> DEFINE f == [y EXCEPT !.fl = y.rem, !.rem = 0]
             g == [f EXCEPT !.arr = Append(y.arr, y.recordsPerBlock),
                     !.recordsPerBlock = 0, !.size = y.size + y.rem]
             w == [g EXCEPT !.rem = 0, !.fl = 0, !.bb = <<>>]
  <2>a. Flushed(y) = f
    <3>1. y.fl + y.rem = y.rem  BY <1>0, <1>a
    <3> QED  BY <3>1 DEF Flushed
  <2>b. /\ f \in Streams /\ f.fl = y.rem /\ f.arr = y.arr /\ f.size = y.size
        /\ f.recordsPerBlock = y.recordsPerBlock /\ f.st = y.st
        /\ f.ser = y.ser /\ f.records = y.records /\ f.made = y.made
    BY <1>0, <1>a DEF Streams
  <2> HIDE DEF f
  <2>c. Account(f) = Reset(g)
    BY <1>0, <1>2, <2>b DEF Account
  <2>2. Append(y.arr, y.recordsPerBlock) \in Seq(Nat) /\ y.size + y.rem \in Nat
    BY <1>0
  <2>d. /\ g \in Streams /\ g.arr = Append(y.arr, y.recordsPerBlock)
        /\ g.recordsPerBlock = 0 /\ g.size = y.size + y.rem /\ g.st = y.st
        /\ g.ser = y.ser /\ g.records = y.records /\ g.made = y.made
    BY <2>2, <2>b DEF Streams
  <2> HIDE DEF g
  <2>1. z = w  BY <2>a, <2>c DEF Reset
  <2>3. w \in Streams  BY <1>0, <2>d DEF Streams
  <2>4. /\ w.arr = Append(y.arr, y.recordsPerBlock)
        /\ w.recordsPerBlock = 0 /\ w.size = y.size + y.rem
        /\ w.rem = 0 /\ w.fl = 0 /\ w.bb = <<>>
        /\ w.st = y.st /\ w.ser = y.ser /\ w.records = y.records
        /\ w.made = y.made
    BY <2>d DEF Streams
  <2> HIDE DEF w
  <2>5. /\ Len(w.arr) = n + 1
        /\ SumFirst(w.arr, Len(w.arr)) =
             SumFirst(y.arr, Len(y.arr)) + y.recordsPerBlock
    <3>1. Len(Append(y.arr, y.recordsPerBlock)) = n + 1  BY <1>0, <1>a
    <3>2. SumFirst(Append(y.arr, y.recordsPerBlock),
                   Len(Append(y.arr, y.recordsPerBlock))) =
             SumFirst(y.arr, Len(y.arr)) + y.recordsPerBlock
      BY <1>0, SumAppend
    <3> QED  BY <2>4, <3>1, <3>2
  <2>6. Counted(w)  BY <1>0, <1>1, <1>a, <2>4, <2>5 DEF Counted
  <2> DEFINE Y == X \o y.bb
  <2>7. Y \in Seq(Bytes) /\ Len(Y) = Len(X) + Len(y.bb) /\ Numbered(a, Y, 0)
    <3>1. 0 + Len(X) = Len(X) /\ 0 \in Nat  BY <1>0
    <3>2. Numbered(a, X, 0) /\ Numbered(a, y.bb, 0 + Len(X))
      BY <1>b, <3>1
    <3> QED  BY <1>0, <3>1, <3>2, NumberedConcat
  <2> HIDE DEF Y
  <2>8. Placed(a, Y, w)
    <3>0. Len(w.bb) = 0  BY <1>0, <2>4
    <3>1. Numbered(a, w.bb, Len(Y))  BY <3>0 DEF Numbered
    <3>2. Numbered(a, w.ser, Len(Y) + Len(w.bb))
      <4>1. Len(Y) + Len(w.bb) = Len(X) + Len(y.bb)  BY <1>0, <2>7, <3>0
      <4> QED  BY <1>b, <2>4, <4>1
    <3>3. Len(Y) + Len(w.bb) + Len(w.ser) = w.made
      <4>1. Len(Y) + Len(w.bb) = Len(X) + Len(y.bb)  BY <1>0, <2>7, <3>0
      <4>2. w.made = y.made /\ w.ser = y.ser  BY <2>4
      <4>3. Len(X) + Len(y.bb) + Len(y.ser) = y.made  BY <1>b
      <4> QED  BY <4>1, <4>2, <4>3
    <3> QED  BY <2>7, <3>1, <3>2, <3>3 DEF Placed
  <2>9. w.size = Len(Y)  BY <1>0, <1>a, <2>4, <2>7
  <2> QED  BY <2>1, <2>3, <2>5, <2>6, <2>8, <2>9 DEF StreamInv, Y
<1>3. ASSUME y.rem = 0 PROVE StreamInv(a, z, X, n)
  <2>1. z = y
    <3>1. Flushed(y) = y
      <4>1. y = [y EXCEPT !.fl = y.fl, !.rem = y.rem]  BY <1>a DEF Streams
      <4>2. y.fl + y.rem = y.fl  BY <1>0, <1>3, <1>a
      <4> QED  BY <1>3, <4>1, <4>2 DEF Flushed
    <3> QED  BY <1>a, <3>1 DEF Account
  <2>2. Counted(y)  BY <1>0, <1>3, <1>a DEF Counted
  <2>3. Placed(a, X, y)  BY DEF BeforeSpill
  <2> QED  BY <1>a, <2>1, <2>2, <2>3 DEF StreamInv
<1> QED  BY <1>2, <1>3

\* What the serializer has when a record of k bytes is written.
WithRecord(ser, a, m, k) == ser \o [i \in 1 .. k |-> <<a, m + i>>]

\* Those are the bytes that it kept back and the next k.
LEMMA WithRecordBytes ==
  ASSUME NEW a \in Nat, NEW ser \in Seq(Bytes), NEW o \in Nat,
         Numbered(a, ser, o), NEW k \in Nat, NEW m \in Nat, m = o + Len(ser)
  PROVE  /\ WithRecord(ser, a, m, k) \in Seq(Bytes)
         /\ Len(WithRecord(ser, a, m, k)) = Len(ser) + k
         /\ Numbered(a, WithRecord(ser, a, m, k), o)
<1> DEFINE new == [i \in 1 .. k |-> <<a, m + i>>]
<1>1. new \in Seq(Bytes) /\ Len(new) = k /\ Numbered(a, new, m)
  <2> HIDE DEF new
  <2>1. new = FreshBytes(a, m, k)  BY DEF new, FreshBytes
  <2> QED  BY <2>1, NumberedFresh
<1>2. WithRecord(ser, a, m, k) = ser \o new  BY DEF WithRecord
<1> HIDE DEF new
<1>3. Numbered(a, new, o + Len(ser))  BY <1>1
<1>4. /\ ser \o new \in Seq(Bytes) /\ Len(ser \o new) = Len(ser) + Len(new)
      /\ Numbered(a, ser \o new, o)
  BY <1>1, <1>3, NumberedConcat
<1> QED  BY <1>1, <1>2, <1>4

\* A record of k bytes is written: p goes to byteBuffer and q is kept back.
Serialized(x, p, q, k) ==
  [Emit(x, p) EXCEPT !.ser = q, !.made = @ + k, !.records = @ + 1,
                     !.recordsPerBlock = @ + 1]

\* The fields of that stream.
IsSerialized(y, x, p, q, k) ==
  /\ y \in Streams
  /\ y.bb = x.bb \o p /\ y.rem = x.rem + Len(p) /\ y.ser = q
  /\ y.made = x.made + k /\ y.records = x.records + 1
  /\ y.recordsPerBlock = x.recordsPerBlock + 1
  /\ y.st = x.st /\ y.fl = x.fl /\ y.arr = x.arr /\ y.size = x.size

\* They are what they should be.
LEMMA SerializedFields ==
  ASSUME NEW x \in Streams, NEW k \in Nat, NEW p \in Seq(Bytes),
         NEW q \in Seq(Bytes)
  PROVE  IsSerialized(Serialized(x, p, q, k), x, p, q, k)
<1> DEFINE bb == x.bb \o p
           rem == x.rem + Len(p)
           e == [x EXCEPT !.bb = bb, !.rem = rem]
           y == Serialized(x, p, q, k)
<1>1. bb \in Seq(Bytes) /\ rem \in Nat  BY DEF Streams
<1>2. e = Emit(x, p)  BY DEF Emit
<1> HIDE DEF bb, rem
<1>3. /\ e \in Streams /\ e.bb = bb /\ e.rem = rem /\ e.made = x.made
      /\ e.records = x.records /\ e.recordsPerBlock = x.recordsPerBlock
      /\ e.st = x.st /\ e.fl = x.fl /\ e.arr = x.arr /\ e.size = x.size
  BY <1>1 DEF Streams
<1>4. y = [e EXCEPT !.ser = q, !.made = e.made + k,
             !.records = e.records + 1,
             !.recordsPerBlock = e.recordsPerBlock + 1]
  BY <1>2 DEF Serialized
<1> HIDE DEF e
<1>a. /\ e.made + k \in Nat /\ e.records + 1 \in Nat
      /\ e.recordsPerBlock + 1 \in Nat
  <2>1. e.made \in Nat /\ e.records \in Nat /\ e.recordsPerBlock \in Nat
    BY <1>3 DEF Streams
  <2> QED  BY <2>1
<1>b. e \in Streams  BY <1>3
<1>5. /\ y \in Streams
      /\ y.bb = e.bb /\ y.rem = e.rem /\ y.ser = q
      /\ y.made = e.made + k /\ y.records = e.records + 1
      /\ y.recordsPerBlock = e.recordsPerBlock + 1
      /\ y.st = e.st /\ y.fl = e.fl /\ y.arr = e.arr /\ y.size = e.size
  <2> DEFINE m == e.made + k
             r == e.records + 1
             b == e.recordsPerBlock + 1
  <2>1. m \in Nat /\ r \in Nat /\ b \in Nat  BY <1>a
  <2>2. y = [e EXCEPT !.ser = q, !.made = m, !.records = r,
                      !.recordsPerBlock = b]
    BY <1>4
  <2> HIDE DEF m, r, b, y
  <2>3. /\ y \in Streams
        /\ y.bb = e.bb /\ y.rem = e.rem /\ y.ser = q /\ y.made = m
        /\ y.records = r /\ y.recordsPerBlock = b /\ y.st = e.st
        /\ y.fl = e.fl /\ y.arr = e.arr /\ y.size = e.size
    BY <1>b, <2>1, <2>2 DEF Streams
  <2> QED  BY <2>3 DEF m, r, b
<1> HIDE DEF y
<1>6. /\ y.bb = x.bb \o p /\ y.rem = x.rem + Len(p)
  BY <1>3, <1>5 DEF bb, rem
<1> QED  BY <1>3, <1>5, <1>6 DEF y, IsSerialized

\* All bytes are still there, in order.
LEMMA SerializeInv ==
  ASSUME NEW a \in Nat, NEW X \in Seq(Bytes), NEW n, NEW x,
         StreamInv(a, x, X, n), x.st = "run", NEW k \in Nat, k > 0,
         NEW p \in Seq(Bytes), NEW q \in Seq(Bytes),
         Len(p) + Len(q) = Len(x.ser) + k, Len(q) <= SerCap,
         Numbered(a, p, Len(X) + Len(x.bb)),
         Numbered(a, q, (Len(X) + Len(x.bb)) + Len(p))
  PROVE  /\ BeforeSpill(a, Serialized(x, p, q, k), X, n)
         /\ Serialized(x, p, q, k).st = "run"
         /\ Serialized(x, p, q, k).rem = x.rem + Len(p)
<1> DEFINE y == Serialized(x, p, q, k)
<1>0. /\ x \in Streams /\ Counted(x) /\ x.size = Len(X) /\ Len(x.arr) = n
      /\ Len(X) + Len(x.bb) + Len(x.ser) = x.made
      /\ Numbered(a, X, 0) /\ Numbered(a, x.bb, Len(X))
  BY DEF StreamInv, Placed
<1>1. /\ x.rem \in Nat /\ x.size \in Nat /\ x.recordsPerBlock \in Nat
      /\ x.arr \in Seq(Nat) /\ x.bb \in Seq(Bytes) /\ x.ser \in Seq(Bytes)
      /\ x.records \in Nat /\ x.made \in Nat
  BY <1>0 DEF Streams
<1>2. /\ Len(X) \in Nat /\ Len(x.bb) \in Nat /\ Len(x.ser) \in Nat
      /\ Len(p) \in Nat /\ Len(q) \in Nat
  BY <1>1, SeqFun
<1>3. /\ y \in Streams
      /\ y.bb = x.bb \o p /\ y.rem = x.rem + Len(p) /\ y.ser = q
      /\ y.made = x.made + k /\ y.records = x.records + 1
      /\ y.recordsPerBlock = x.recordsPerBlock + 1
      /\ y.st = x.st /\ y.fl = x.fl /\ y.arr = x.arr
      /\ y.size = x.size
  <2>1. IsSerialized(y, x, p, q, k)  BY <1>0, SerializedFields
  <2> HIDE DEF y
  <2> QED  BY <2>1 DEF IsSerialized
<1> DEFINE bb == x.bb \o p
<1>4. /\ bb \in Seq(Bytes) /\ Len(bb) = Len(x.bb) + Len(p)
      /\ Numbered(a, bb, Len(X))
  BY <1>0, <1>1, <1>2, NumberedConcat
<1>5. y.bb = bb  BY <1>3
<1> HIDE DEF bb, y
<1>6. Placed(a, X, y)
  <2>1. Numbered(a, q, Len(X) + Len(bb))
    <3>1. Len(X) + Len(bb) = (Len(X) + Len(x.bb)) + Len(p)  BY <1>2, <1>4
    <3> QED  BY <3>1
  <2>2. Len(X) + Len(bb) + Len(q) = x.made + k
    <3> DEFINE lX == Len(X)
               lb == Len(x.bb)
               ls == Len(x.ser)
               lp == Len(p)
               lq == Len(q)
               m == x.made
    <3>1. /\ lX + lb + ls = m /\ Len(bb) = lb + lp /\ lp + lq = ls + k
          /\ lX \in Nat /\ lb \in Nat /\ ls \in Nat /\ lp \in Nat
          /\ lq \in Nat /\ m \in Nat
      BY <1>0, <1>1, <1>2, <1>4
    <3> HIDE DEF lX, lb, ls, lp, lq, m
    <3>2. lX + (lb + lp) + lq = m + k  BY <3>1
    <3> QED  BY <3>1, <3>2 DEF lX, lq, m
  <2> QED  BY <1>0, <1>3, <1>4, <1>5, <2>1, <2>2 DEF Placed
<1>7. Len(y.bb) + Len(y.ser) > 0
  <2>1. Len(bb) = Len(x.bb) + Len(p)  BY <1>4
  <2> QED  BY <1>2, <1>3, <1>5, <2>1
<1>8. /\ SumFirst(x.arr, Len(x.arr)) + x.recordsPerBlock = x.records
      /\ x.rem = Len(x.bb) /\ x.fl = 0
  BY <1>0 DEF Counted
<1>9. SumFirst(x.arr, Len(x.arr)) \in Nat  BY <1>1, SumAppend
<1>10. SumFirst(y.arr, Len(y.arr)) + y.recordsPerBlock = y.records
  <2> DEFINE sum == SumFirst(x.arr, Len(x.arr))
  <2>1. /\ SumFirst(y.arr, Len(y.arr)) = sum
        /\ y.recordsPerBlock = x.recordsPerBlock + 1
        /\ y.records = x.records + 1
    BY <1>3
  <2>2. /\ sum \in Nat /\ x.recordsPerBlock \in Nat /\ x.records \in Nat
        /\ sum + x.recordsPerBlock = x.records
    BY <1>1, <1>8, <1>9
  <2> HIDE DEF sum
  <2> QED  BY <2>1, <2>2
<1>11. y.rem = Len(y.bb) /\ y.fl = 0 /\ y.size = Len(X) /\ Len(y.arr) = n
  <2>1. Len(bb) = Len(x.bb) + Len(p)  BY <1>4
  <2> QED  BY <1>0, <1>3, <1>5, <1>8, <2>1
<1>12. y.st = "run" /\ y.ser = q /\ y.rem = x.rem + Len(p)  BY <1>3
<1>13. y \in Streams  BY <1>3
<1>14. BeforeSpill(a, y, X, n)
  BY <1>6, <1>7, <1>10, <1>11, <1>12, <1>13 DEF BeforeSpill
<1> QED  BY <1>12, <1>14 DEF y

\* The streams are w, then v, and only that of attempt a is another, z.
OnlyStream(w, v, a, z) ==
  /\ DOMAIN v = DOMAIN w /\ v[a] = z
  /\ \A b \in DOMAIN w : b # a => v[b] = w[b]

\* The stored blocks are s, then t; what was added is of attempt a, and its
\* stream is z now.
Advanced(a, z, s, t) ==
  /\ Blocks(t)
  /\ StreamInv(a, z, Of(a, FlattenSeq(t)), Cardinality(BlocksOf(a, t)))
  /\ \A b : b # a => /\ Of(b, FlattenSeq(t)) = Of(b, FlattenSeq(s))
                     /\ BlocksOf(b, t) = BlocksOf(b, s)

\* Every step of a writer is of this form.
LEMMA WritersAfter ==
  ASSUME NEW th, NEW s, NEW w, NEW c, Writers(th, s, w, c),
         NEW a \in Attempts, NEW z, NEW v, OnlyStream(w, v, a, z),
         NEW t, Advanced(a, z, s, t), Throttled(th, z),
         RoomEnough(th) => z.st # "overflow",
         NEW d, \/ d = c /\ w[a].st # "done"
                \/ d = a /\ z.st = "done"
  PROVE  Writers(th, t, v, d)
<1>1. /\ th \in SpillThrottles /\ Blocks(s) /\ DOMAIN w = Attempts
      /\ \A b \in Attempts : /\ StreamInv(b, w[b], Of(b, FlattenSeq(s)),
                                         Cardinality(BlocksOf(b, s)))
                             /\ Throttled(th, w[b])
                             /\ RoomEnough(th) => w[b].st # "overflow"
      /\ c \in {0} \cup Attempts
      /\ c # 0 => w[c].st = "done"
  BY DEF Writers
<1>2. /\ DOMAIN v = Attempts /\ v[a] = z
      /\ \A b \in Attempts : b # a => v[b] = w[b]
  BY <1>1 DEF OnlyStream
<1>3. ASSUME NEW b \in Attempts
      PROVE  /\ StreamInv(b, v[b], Of(b, FlattenSeq(t)),
                          Cardinality(BlocksOf(b, t)))
             /\ Throttled(th, v[b])
             /\ RoomEnough(th) => v[b].st # "overflow"
  <2>1. CASE b = a
    <3>1. StreamInv(a, z, Of(a, FlattenSeq(t)), Cardinality(BlocksOf(a, t)))
      BY DEF Advanced
    <3> QED  BY <1>2, <2>1, <3>1
  <2>2. CASE b # a
    <3>1. /\ Of(b, FlattenSeq(t)) = Of(b, FlattenSeq(s))
          /\ BlocksOf(b, t) = BlocksOf(b, s)
      BY <2>2 DEF Advanced
    <3> QED  BY <1>1, <1>2, <2>2, <3>1
  <2> QED  BY <2>1, <2>2
<1>4. d \in {0} \cup Attempts /\ (d # 0 => v[d].st = "done")
  <2>1. CASE d = c /\ w[a].st # "done"  BY <1>1, <1>2, <2>1
  <2>2. CASE d = a /\ z.st = "done"  BY <1>2, <2>2
  <2> QED  BY <2>1, <2>2
<1>5. Blocks(t)  BY DEF Advanced
<1> QED  BY <1>1, <1>2, <1>3, <1>4, <1>5 DEF Writers

\* Nothing is stored.
LEMMA NothingAdded ==
  ASSUME NEW th, NEW s, NEW w, NEW c, Writers(th, s, w, c),
         NEW a \in Attempts, NEW z,
         StreamInv(a, z, Of(a, FlattenSeq(s)), Cardinality(BlocksOf(a, s)))
  PROVE  Advanced(a, z, s, s)
  BY DEF Advanced, Writers

\* A block of attempt a is stored.
LEMMA BlockAdvanced ==
  ASSUME NEW s, Blocks(s), NEW a, NEW b \in Seq(Bytes), Len(b) > 0,
         NEW k \in Nat, Numbered(a, b, k), NEW t, t = Append(s, b), NEW z,
         StreamInv(a, z, Of(a, FlattenSeq(s)) \o b,
                   Cardinality(BlocksOf(a, s)) + 1)
  PROVE  Advanced(a, z, s, t)
<1>1. AddedBlock(a, b, s, t)  BY BlockAdded
<1>2. Of(a, FlattenSeq(t)) = Of(a, FlattenSeq(s)) \o b
  BY <1>1 DEF AddedBlock
<1>3. Cardinality(BlocksOf(a, t)) = Cardinality(BlocksOf(a, s)) + 1
  BY <1>1 DEF AddedBlock
<1>4. StreamInv(a, z, Of(a, FlattenSeq(t)), Cardinality(BlocksOf(a, t)))
  BY <1>2, <1>3
<1> QED  BY <1>1, <1>4 DEF Advanced, AddedBlock

\* The spill of y: what is in its byteBuffer is stored.
LEMMA SpillAdvances ==
  ASSUME NEW s, Blocks(s), NEW a \in Nat, NEW y,
         BeforeSpill(a, y, Of(a, FlattenSeq(s)), Cardinality(BlocksOf(a, s)))
  PROVE  /\ s \o Stored(y) = (IF y.rem = 0 THEN s ELSE Append(s, y.bb))
         /\ Advanced(a, Account(Flushed(y)), s, s \o Stored(y))
<1> DEFINE X == Of(a, FlattenSeq(s))
           n == Cardinality(BlocksOf(a, s))
           z == Account(Flushed(y))
           t == s \o Stored(y)
<1>1. X \in Seq(Bytes) /\ n \in Nat  BY StoredType
<1>2. /\ y \in Streams /\ y.rem = Len(y.bb)
      /\ Numbered(a, y.bb, Len(X))
  BY DEF BeforeSpill, Placed
<1>3. y.bb \in Seq(Bytes) /\ y.rem \in Nat /\ Len(X) \in Nat
  BY <1>1, <1>2 DEF Streams
<1>4. s \in Seq(Seq(Bytes))  BY DEF Blocks
<1> HIDE DEF X, n, z
<1>5. BeforeSpill(a, y, X, n)  BY DEF X, n
<1>6. /\ y.rem > 0 => StreamInv(a, z, X \o y.bb, n + 1)
      /\ y.rem = 0 => StreamInv(a, z, X, n)
  BY <1>1, <1>5, SpillInv DEF z
<1>7. CASE y.rem = 0
  <2>1. t = s  BY <1>4, <1>7 DEF Stored
  <2> HIDE DEF t
  <2>2. Advanced(a, z, s, t)
    BY <1>6, <1>7, <2>1 DEF Advanced, X, n
  <2> QED  BY <1>7, <2>1, <2>2 DEF t, z
<1>8. CASE y.rem # 0
  <2> DEFINE b == y.bb
  <2>1. y.rem > 0  BY <1>3, <1>8
  <2>2. SubSeq(b, 1, y.rem) = b
    <3> HIDE DEF b
    <3>1. b \in Seq(Bytes) /\ Len(b) = y.rem  BY <1>2, <1>3 DEF b
    <3>2. SubSeq(b, 1, Len(b)) = b  BY <3>1
    <3> QED  BY <3>1, <3>2
  <2>3. Stored(y) = <<b>>  BY <2>1, <2>2 DEF Stored
  <2> HIDE DEF b
  <2>4. b \in Seq(Bytes) /\ Len(b) > 0 /\ Numbered(a, b, Len(X))
    BY <1>2, <1>3, <2>1 DEF b
  <2>5. s \o <<b>> = Append(s, b)  BY <1>4, <2>4
  <2>6. t = Append(s, b)  BY <2>3, <2>5
  <2> HIDE DEF t
  <2>7. StreamInv(a, z, X \o b, n + 1)  BY <1>6, <2>1 DEF b
  <2>8. Advanced(a, z, s, t)
    BY <1>3, <2>4, <2>6, <2>7, BlockAdvanced DEF X, n
  <2> QED  BY <1>8, <2>6, <2>8 DEF t, z, b
<1> QED  BY <1>7, <1>8

\* What the invariant says of one attempt.
LEMMA StreamOf ==
  ASSUME NEW th, NEW s, NEW w, NEW c, Writers(th, s, w, c),
         NEW a \in Attempts
  PROVE  /\ a \in Nat /\ a # 0 /\ th \in Int
         /\ Blocks(s) /\ a \in DOMAIN w
         /\ StreamInv(a, w[a], Of(a, FlattenSeq(s)),
                      Cardinality(BlocksOf(a, s)))
         /\ Throttled(th, w[a])
         /\ RoomEnough(th) => w[a].st # "overflow"
         /\ Of(a, FlattenSeq(s)) \in Seq(Bytes)
         /\ Cardinality(BlocksOf(a, s)) \in Nat
<1>1. /\ Blocks(s) /\ a \in DOMAIN w
      /\ StreamInv(a, w[a], Of(a, FlattenSeq(s)),
                   Cardinality(BlocksOf(a, s)))
      /\ Throttled(th, w[a])
      /\ RoomEnough(th) => w[a].st # "overflow"
      /\ th \in SpillThrottles
  BY DEF Writers
<1>2. a \in Nat /\ a # 0 /\ th \in Int  BY <1>1, StreamAssumption
<1>3. /\ Of(a, FlattenSeq(s)) \in Seq(Bytes)
      /\ Cardinality(BlocksOf(a, s)) \in Nat
  BY <1>1, StoredType
<1> QED  BY <1>1, <1>2, <1>3

\* A step that replaces the stream of one attempt.
LEMMA ExceptOnly ==
  ASSUME NEW w, NEW a \in DOMAIN w, NEW z
  PROVE  OnlyStream(w, [w EXCEPT ![a] = z], a, z)
  BY DEF OnlyStream

\* A stream whose st changes.
WithState(x, st) == [x EXCEPT !.st = st]

\* It is as it was before otherwise.
LEMMA WithStateInv ==
  ASSUME NEW a, NEW X, NEW n, NEW x, StreamInv(a, x, X, n),
         NEW st \in StreamStates,
         st \in {"flushed", "done"} => Len(x.bb) = 0 /\ Len(x.ser) = 0
  PROVE  /\ StreamInv(a, WithState(x, st), X, n)
         /\ WithState(x, st).st = st /\ WithState(x, st).rem = x.rem
         /\ WithState(x, st).made = x.made
<1> DEFINE y == WithState(x, st)
<1>1. x \in Streams /\ Counted(x) /\ Placed(a, X, x) /\ x.size = Len(X)
      /\ Len(x.arr) = n
  BY DEF StreamInv
<1>2. /\ y \in Streams /\ y.st = st /\ y.ser = x.ser /\ y.bb = x.bb
      /\ y.rem = x.rem /\ y.fl = x.fl /\ y.size = x.size
      /\ y.records = x.records /\ y.recordsPerBlock = x.recordsPerBlock
      /\ y.arr = x.arr /\ y.made = x.made
  BY <1>1 DEF WithState, Streams
<1> HIDE DEF y
<1>3. Placed(a, X, y)  BY <1>1, <1>2 DEF Placed
<1>4. Counted(y)  BY <1>1, <1>2 DEF Counted
<1> QED  BY <1>1, <1>2, <1>3, <1>4 DEF StreamInv, y

\* An attempt starts, dies or overflows.
LEMMA StateStep ==
  ASSUME NEW th, NEW s, NEW w, NEW c, Writers(th, s, w, c),
         NEW a \in Attempts, w[a].st # "done",
         NEW st \in {"run", "dead", "overflow"},
         st = "run" => w[a].st = "new",
         st = "overflow" => ~RoomEnough(th)
  PROVE  Writers(th, s, [w EXCEPT ![a].st = st], c)
<1> DEFINE x == w[a]
           z == WithState(x, st)
           v == [w EXCEPT ![a] = z]
<1>1. v = [w EXCEPT ![a].st = st]  BY DEF WithState
<1>2. /\ a \in DOMAIN w /\ Throttled(th, x)
      /\ StreamInv(a, x, Of(a, FlattenSeq(s)), Cardinality(BlocksOf(a, s)))
  BY StreamOf
<1>3. st \in StreamStates /\ ~(st \in {"flushed", "done"})
  BY DEF StreamStates
<1>4. OnlyStream(w, v, a, z)  BY <1>2, ExceptOnly
<1> HIDE DEF z, x, v
<1>5. /\ StreamInv(a, z, Of(a, FlattenSeq(s)), Cardinality(BlocksOf(a, s)))
      /\ z.st = st /\ z.rem = x.rem
  BY <1>2, <1>3, WithStateInv DEF z
<1>6. Advanced(a, z, s, s)  BY <1>5, NothingAdded
<1>7. Throttled(th, z)
  <2>1. z.st \in {"new", "run"} => x.st \in {"new", "run"}  BY <1>5 DEF x
  <2> QED  BY <1>2, <1>5, <2>1 DEF Throttled
<1>8. RoomEnough(th) => z.st # "overflow"  BY <1>5
<1>9. \/ c = c /\ w[a].st # "done"
      \/ c = a /\ z.st = "done"
  OBVIOUS
<1>10. Writers(th, s, v, c)
  BY <1>4, <1>6, <1>7, <1>8, <1>9, WritersAfter
<1> QED  BY <1>1, <1>10

\* Its state afterwards.
LEMMA StateAfter ==
  ASSUME NEW th, NEW s, NEW w, NEW c, Writers(th, s, w, c),
         NEW a \in Attempts, NEW st
  PROVE  [w EXCEPT ![a].st = st][a].st = st
<1>1. a \in DOMAIN w /\ w[a] \in Streams  BY DEF Writers, StreamInv
<1> QED  BY <1>1 DEF Streams

\* Start
LEMMA StartInv ==
  ASSUME WriterInv, NEW a \in Attempts, Start(a)
  PROVE  WriterInv' /\ Puts(a) /\ wr'[a].st # "done"
<1>1. Writers(throttle, store, wr, commit) /\ wr[a].st = "new"
  BY DEF WriterInv, Start
<1>a. wr'[a].st # "done"  BY <1>1, StateAfter DEF Start
<1>2. Writers(throttle, store, [wr EXCEPT ![a].st = "run"], commit)
  BY <1>1, StateStep
<1> QED  BY <1>2, <1>a DEF WriterInv, Start, Puts, PutNothing

\* Fail
LEMMA FailInv ==
  ASSUME WriterInv, NEW a \in Attempts, Fail(a)
  PROVE  WriterInv' /\ Puts(a) /\ wr'[a].st # "done"
<1>1. Writers(throttle, store, wr, commit) /\ wr[a].st # "done"
  BY DEF WriterInv, Fail
<1>a. wr'[a].st # "done"  BY <1>1, StateAfter DEF Fail
<1>2. Writers(throttle, store, [wr EXCEPT ![a].st = "dead"], commit)
  BY <1>1, StateStep
<1> QED  BY <1>2, <1>a DEF WriterInv, Fail, Puts, PutNothing

\* all is what the serializer of x has when a record of k bytes is written.
IsRecord(all, x, a, k) == all = WithRecord(x.ser, a, x.made, k)

\* A record of k bytes is cut after d bytes: both parts are where the bytes of
\* attempt a go on.
LEMMA RecordCut ==
  ASSUME NEW a \in Nat, NEW X \in Seq(Bytes), NEW n, NEW x,
         StreamInv(a, x, X, n), NEW k \in Nat, NEW all,
         IsRecord(all, x, a, k), NEW d \in 0 .. Len(all)
  PROVE  /\ Len(all) = Len(x.ser) + k
         /\ SubSeq(all, 1, d) \in Seq(Bytes) /\ Len(SubSeq(all, 1, d)) = d
         /\ SubSeq(all, d + 1, Len(all)) \in Seq(Bytes)
         /\ Len(SubSeq(all, d + 1, Len(all))) = Len(all) - d
         /\ Numbered(a, SubSeq(all, 1, d), Len(X) + Len(x.bb))
         /\ Numbered(a, SubSeq(all, d + 1, Len(all)),
                     (Len(X) + Len(x.bb)) + d)
<1> DEFINE o == Len(X) + Len(x.bb)
<1>1. /\ x \in Streams /\ Len(X) + Len(x.bb) + Len(x.ser) = x.made
      /\ Numbered(a, x.ser, o)
  BY DEF StreamInv, Placed
<1>2. x.ser \in Seq(Bytes) /\ x.bb \in Seq(Bytes) /\ x.made \in Nat
  BY <1>1 DEF Streams
<1>3. o \in Nat /\ x.made = o + Len(x.ser)
  <2> DEFINE i == Len(X)
             j == Len(x.bb)
             l == Len(x.ser)
  <2>1. i \in Nat /\ j \in Nat /\ l \in Nat  BY <1>2
  <2>2. i + j + l = x.made /\ o = i + j  BY <1>1
  <2> HIDE DEF o, i, j, l
  <2>3. o \in Nat /\ x.made = o + l  BY <2>1, <2>2
  <2> QED  BY <2>3 DEF l
<1> HIDE DEF o
<1>4. /\ all \in Seq(Bytes) /\ Len(all) = Len(x.ser) + k
      /\ Numbered(a, all, o)
  <2> DEFINE ser == x.ser
             m == x.made
             r == WithRecord(ser, a, m, k)
  <2>1. /\ ser \in Seq(Bytes) /\ m \in Nat /\ Numbered(a, ser, o)
        /\ m = o + Len(ser)
    BY <1>1, <1>2, <1>3
  <2> HIDE DEF ser, m
  <2>2. /\ r \in Seq(Bytes) /\ Len(r) = Len(ser) + k
        /\ Numbered(a, r, o)
    BY <1>3, <2>1, WithRecordBytes
  <2> QED  BY <2>2 DEF IsRecord, ser, m
<1>5. /\ SubSeq(all, 1, d) \in Seq(Bytes) /\ Len(SubSeq(all, 1, d)) = d
      /\ Numbered(a, SubSeq(all, 1, d), o)
      /\ SubSeq(all, d + 1, Len(all)) \in Seq(Bytes)
      /\ Len(SubSeq(all, d + 1, Len(all))) = Len(all) - d
      /\ Numbered(a, SubSeq(all, d + 1, Len(all)), o + d)
  BY <1>3, <1>4, NumberedCut
<1> QED  BY <1>4, <1>5 DEF o

\* There is room for what a stream hands on.
LEMMA NoOverflowStep ==
  ASSUME NEW th \in Int, RoomEnough(th), NEW x, NEW a, NEW X, NEW n,
         StreamInv(a, x, X, n), x.st = "run", Throttled(th, x),
         NEW p \in Seq(Bytes), Len(p) <= Len(x.ser) + MaxRecord
  PROVE  Room(x, p)
<1>1. /\ x \in Streams /\ x.rem = Len(x.bb) /\ Len(x.ser) <= SerCap
      /\ th > 0 /\ th + SerCap + MaxRecord <= BufCap + 1
  BY DEF StreamInv, Counted, RoomEnough
<1>2. x.rem < th \/ x.rem = 0  BY <1>1 DEF Throttled
<1> DEFINE r == x.rem
           ls == Len(x.ser)
           lp == Len(p)
<1>3. r \in Nat /\ ls \in Nat /\ lp \in Nat  BY <1>1 DEF Streams
<1>4. SerCap \in Nat /\ MaxRecord \in Nat /\ BufCap \in Nat
  BY StreamAssumption
<1>5. /\ lp <= ls + MaxRecord /\ ls <= SerCap /\ (r < th \/ r = 0)
      /\ th > 0 /\ th + SerCap + MaxRecord <= BufCap + 1
  BY <1>1, <1>2
<1> HIDE DEF r, ls, lp
<1>6. r + lp <= BufCap  BY <1>3, <1>4, <1>5
<1> QED  BY <1>1, <1>6 DEF Room, r, lp

\* What a spill leaves of the other fields.
LEMMA SpillFields ==
  ASSUME NEW y \in Streams, y.fl = 0
  PROVE  /\ Account(Flushed(y)).rem = 0 /\ Account(Flushed(y)).st = y.st
         /\ Account(Flushed(y)).made = y.made
<1> DEFINE f == Flushed(y)
<1>1. y.rem \in Nat  BY DEF Streams
<1>a. y.fl + y.rem = y.rem  BY <1>1
<1>b. f = [y EXCEPT !.fl = y.rem, !.rem = 0]  BY <1>a DEF Flushed
<1>2. /\ f.rem = 0 /\ f.fl = y.rem /\ f.st = y.st /\ f.made = y.made
      /\ f \in Streams
  BY <1>1, <1>b DEF Streams
<1> HIDE DEF f
<1>3. CASE f.fl = 0  BY <1>2, <1>3 DEF Account, f
<1>4. CASE f.fl # 0
  <2> DEFINE g == [f EXCEPT !.arr = Append(@, f.recordsPerBlock),
                            !.recordsPerBlock = 0, !.size = @ + f.fl]
  <2>1. Account(f) = Reset(g)  BY <1>4 DEF Account
  <2>2. g.st = f.st /\ g.made = f.made /\ g.rem = f.rem
    BY <1>2 DEF Streams
  <2>3. DOMAIN g = DOMAIN f  OBVIOUS
  <2>4. {"st", "made", "rem", "fl", "bb"} \subseteq DOMAIN f
    BY <1>2 DEF Streams
  <2> HIDE DEF g
  <2>5. Reset(g).rem = 0 /\ Reset(g).st = g.st /\ Reset(g).made = g.made
    BY <2>3, <2>4 DEF Reset
  <2> QED  BY <1>2, <2>1, <2>2, <2>5 DEF f
<1> QED  BY <1>3, <1>4

\* A spill of y, which the stream of attempt a has become.
LEMMA SpillStep ==
  ASSUME NEW th, NEW s, NEW w, NEW c, Writers(th, s, w, c),
         NEW a \in Attempts, w[a].st # "done", NEW y,
         BeforeSpill(a, y, Of(a, FlattenSeq(s)), Cardinality(BlocksOf(a, s))),
         y.st # "overflow"
  PROVE  Writers(th, s \o Stored(y), [w EXCEPT ![a] = Account(Flushed(y))], c)
<1> DEFINE z == Account(Flushed(y))
           v == [w EXCEPT ![a] = z]
           t == s \o Stored(y)
<1>1. a \in Nat /\ Blocks(s) /\ a \in DOMAIN w  BY StreamOf
<1>2. OnlyStream(w, v, a, z)  BY <1>1, ExceptOnly
<1>3. Advanced(a, z, s, t)  BY <1>1, SpillAdvances
<1>4. z.rem = 0 /\ z.st = y.st
  BY SpillFields DEF BeforeSpill
<1> HIDE DEF z, v, t
<1>5. Throttled(th, z)  BY <1>4 DEF Throttled
<1>6. RoomEnough(th) => z.st # "overflow"  BY <1>4
<1>7. \/ c = c /\ w[a].st # "done"
      \/ c = a /\ z.st = "done"
  OBVIOUS
<1>8. Writers(th, t, v, c)
  BY <1>2, <1>3, <1>5, <1>6, <1>7, WritersAfter
<1> QED  BY <1>8 DEF z, v, t

\* A record is written that does not reach the throttle.
LEMMA KeepStep ==
  ASSUME NEW th, NEW s, NEW w, NEW c, Writers(th, s, w, c),
         NEW a \in Attempts, w[a].st # "done", NEW y,
         BeforeSpill(a, y, Of(a, FlattenSeq(s)), Cardinality(BlocksOf(a, s))),
         y.st = "run", Throttled(th, y)
  PROVE  Writers(th, s, [w EXCEPT ![a] = y], c)
<1> DEFINE v == [w EXCEPT ![a] = y]
<1>1. a \in DOMAIN w  BY StreamOf
<1>2. OnlyStream(w, v, a, y)  BY <1>1, ExceptOnly
<1>3. Counted(y)  BY DEF BeforeSpill, Counted
<1>4. StreamInv(a, y, Of(a, FlattenSeq(s)), Cardinality(BlocksOf(a, s)))
  BY <1>3 DEF BeforeSpill, StreamInv
<1>5. Advanced(a, y, s, s)  BY <1>4, NothingAdded
<1>6. \/ c = c /\ w[a].st # "done"
      \/ c = a /\ y.st = "done"
  OBVIOUS
<1>7. RoomEnough(th) => y.st # "overflow"  OBVIOUS
<1> HIDE DEF v
<1>8. Writers(th, s, v, c)  BY <1>2, <1>5, <1>6, <1>7, WritersAfter
<1> QED  BY <1>8 DEF v

\* The stream of attempt a with a record, of which and of what was kept back
\* before, all, the serializer hands on d bytes.
Recorded(w, a, k, all, d) ==
  Serialized(w[a], SubSeq(all, 1, d), SubSeq(all, d + 1, Len(all)), k)

\* WriteRecord, when the serializer hands on d of the bytes all.
Written(th, s, w, a, k, all, d, t, v) ==
  LET x == w[a]
      p == SubSeq(all, 1, d)
      y == Recorded(w, a, k, all, d)
      full == th # -1 /\ y.rem >= th
  IN  /\ Len(all) - d <= SerCap
      /\ \/ ~Room(x, p) /\ v = [w EXCEPT ![a].st = "overflow"] /\ t = s
         \/ /\ full /\ t = s \o Stored(y)
            /\ v = [w EXCEPT ![a] = Account(Flushed(y))]
         \/ ~full /\ v = [w EXCEPT ![a] = y] /\ t = s

\* The action has this form.
LEMMA WriteRecordForm ==
  ASSUME NEW a, NEW k, WriteRecord(a, k)
  PROVE  \E all : /\ IsRecord(all, wr[a], a, k)
                  /\ \E d \in 0 .. Len(all) :
                       /\ Written(throttle, store, wr, a, k, all, d, store', wr')
                       /\ \/ PutNothing
                          \/ PutBlock(a, Recorded(wr, a, k, all, d))
<1> DEFINE x == wr[a]
           all == WithRecord(x.ser, a, x.made, k)
<1>1. PICK d \in 0 .. Len(all) :
        /\ Written(throttle, store, wr, a, k, all, d, store', wr')
        /\ PutNothing \/ PutBlock(a, Recorded(wr, a, k, all, d))
  BY DEF WriteRecord, WithRecord, Written, Recorded, Serialized, Full,
         PutNothing, PutBlock
<1>2. IsRecord(all, wr[a], a, k)  BY DEF IsRecord
<1> HIDE DEF all
<1> QED  BY <1>1, <1>2

\* The step keeps the invariant.
LEMMA WrittenInv ==
  ASSUME NEW th, NEW s, NEW w, NEW c, Writers(th, s, w, c),
         NEW a \in Attempts, w[a].st = "run", NEW k \in 1 .. MaxRecord,
         NEW all, IsRecord(all, w[a], a, k), NEW d \in 0 .. Len(all),
         NEW t, NEW v, Written(th, s, w, a, k, all, d, t, v)
  PROVE  /\ Writers(th, t, v, c)
         /\ Own(a, Recorded(w, a, k, all, d)) /\ v[a].st # "done"
<1> DEFINE x == w[a]
           X == Of(a, FlattenSeq(s))
           n == Cardinality(BlocksOf(a, s))
           p == SubSeq(all, 1, d)
           q == SubSeq(all, d + 1, Len(all))
           y == Serialized(x, p, q, k)
<1>1. /\ a \in Nat /\ th \in Int /\ X \in Seq(Bytes) /\ n \in Nat
      /\ StreamInv(a, x, X, n) /\ Throttled(th, x)
  BY StreamOf
<1>2. k \in Nat /\ k > 0 /\ k <= MaxRecord  BY StreamAssumption
<1>3. IsRecord(all, x, a, k) /\ x.st = "run"  OBVIOUS
<1>4. /\ Len(all) - d <= SerCap
      /\ \/ ~Room(x, p) /\ v = [w EXCEPT ![a].st = "overflow"] /\ t = s
         \/ /\ t = s \o Stored(y)
            /\ v = [w EXCEPT ![a] = Account(Flushed(y))]
         \/ ~(th # -1 /\ y.rem >= th) /\ v = [w EXCEPT ![a] = y] /\ t = s
  BY DEF Written, Recorded
<1>5. /\ Len(all) = Len(x.ser) + k
      /\ p \in Seq(Bytes) /\ Len(p) = d
      /\ q \in Seq(Bytes) /\ Len(q) = Len(all) - d
      /\ Numbered(a, p, Len(X) + Len(x.bb))
      /\ Numbered(a, q, (Len(X) + Len(x.bb)) + d)
  <2> HIDE DEF x, X, n
  <2> QED  BY <1>1, <1>2, <1>3, RecordCut
<1> HIDE DEF x, X, n, p, q
<1>6. x.ser \in Seq(Bytes) /\ Len(x.ser) \in Nat /\ d \in Nat /\ x.rem \in Nat
  <2>1. x \in Streams  BY <1>1 DEF StreamInv
  <2>2. x.ser \in Seq(Bytes) /\ x.rem \in Nat  BY <2>1 DEF Streams
  <2>3. Len(x.ser) \in Nat  BY <2>2
  <2>4. d \in Nat  OBVIOUS
  <2> QED  BY <2>2, <2>3, <2>4
<1>7. Len(p) + Len(q) = Len(x.ser) + k /\ Len(q) <= SerCap
  <2> DEFINE l == Len(all)
             ls == Len(x.ser)
  <2>1. l = ls + k /\ Len(p) = d /\ Len(q) = l - d /\ ls \in Nat /\ d \in Nat
        /\ l - d <= SerCap
    BY <1>4, <1>5, <1>6
  <2> HIDE DEF l, ls
  <2>2. Len(p) + Len(q) = ls + k /\ Len(q) <= SerCap  BY <1>2, <2>1
  <2> QED  BY <2>2 DEF ls
<1>8. BeforeSpill(a, y, X, n) /\ y.st = "run" /\ y.rem = x.rem + Len(p)
  <2>1. Numbered(a, q, (Len(X) + Len(x.bb)) + Len(p))  BY <1>5
  <2>2. Numbered(a, p, Len(X) + Len(x.bb))  BY <1>5
  <2>3. p \in Seq(Bytes) /\ q \in Seq(Bytes)  BY <1>5
  <2> QED  BY <1>1, <1>2, <1>3, <1>7, <2>1, <2>2, <2>3, SerializeInv
<1>a. y = Recorded(w, a, k, all, d)  BY DEF Recorded, x, p, q
<1> HIDE DEF y
<1>b. Own(a, y)  BY <1>1, <1>8, OwnBytes
<1>c. /\ a \in DOMAIN w
      /\ Account(Flushed(y)).st = "run"
  <2>1. a \in DOMAIN w  BY StreamOf
  <2>2. y \in Streams /\ y.fl = 0  BY <1>8 DEF BeforeSpill
  <2> QED  BY <1>8, <2>1, <2>2, SpillFields
<1>9. CASE ~Room(x, p) /\ v = [w EXCEPT ![a].st = "overflow"] /\ t = s
  <2>1. Len(p) <= Len(x.ser) + MaxRecord
    <3>1. d <= Len(x.ser) + k  BY <1>5
    <3>2. MaxRecord \in Nat  BY StreamAssumption
    <3> QED  BY <1>2, <1>5, <1>6, <3>1, <3>2
  <2>2. ~RoomEnough(th)  BY <1>1, <1>3, <1>5, <1>9, <2>1, NoOverflowStep
  <2>3. Writers(th, s, [w EXCEPT ![a].st = "overflow"], c)
    BY <2>2, StateStep
  <2>4. v[a].st # "done"  BY <1>9, StateAfter
  <2> QED  BY <1>9, <1>a, <1>b, <2>3, <2>4
<1>10. CASE t = s \o Stored(y) /\ v = [w EXCEPT ![a] = Account(Flushed(y))]
  <2>1. Writers(th, s \o Stored(y), [w EXCEPT ![a] = Account(Flushed(y))], c)
    BY <1>8, SpillStep DEF X, n
  <2>2. v[a].st # "done"  BY <1>c, <1>10
  <2> QED  BY <1>10, <1>a, <1>b, <2>1, <2>2
<1>11. CASE ~(th # -1 /\ y.rem >= th) /\ v = [w EXCEPT ![a] = y] /\ t = s
  <2>1. y.rem \in Nat
    BY <1>8 DEF BeforeSpill, Streams
  <2>2. Throttled(th, y)  BY <1>1, <1>11, <2>1 DEF Throttled
  <2>3. Writers(th, s, [w EXCEPT ![a] = y], c)
    BY <1>8, <2>2, KeepStep DEF X, n
  <2>4. v[a].st # "done"  BY <1>8, <1>c, <1>11
  <2> QED  BY <1>11, <1>a, <1>b, <2>3, <2>4
<1> QED  BY <1>4, <1>9, <1>10, <1>11

\* WriteRecord
LEMMA WriteRecordInv ==
  ASSUME WriterInv, NEW a \in Attempts, NEW k \in 1 .. MaxRecord,
         WriteRecord(a, k)
  PROVE  WriterInv' /\ Puts(a) /\ wr'[a].st # "done"
<1>1. Writers(throttle, store, wr, commit)  BY DEF WriterInv
<1>2. wr[a].st = "run" /\ UNCHANGED <<throttle, commit>>  BY DEF WriteRecord
<1>3. PICK all : /\ IsRecord(all, wr[a], a, k)
                 /\ \E d \in 0 .. Len(all) :
                      /\ Written(throttle, store, wr, a, k, all, d, store', wr')
                      /\ \/ PutNothing
                         \/ PutBlock(a, Recorded(wr, a, k, all, d))
  BY WriteRecordForm
<1>4. PICK d \in 0 .. Len(all) :
        /\ Written(throttle, store, wr, a, k, all, d, store', wr')
        /\ PutNothing \/ PutBlock(a, Recorded(wr, a, k, all, d))
  BY <1>3
<1>5. /\ Writers(throttle, store', wr', commit)
      /\ Own(a, Recorded(wr, a, k, all, d)) /\ wr'[a].st # "done"
  BY <1>1, <1>2, <1>3, <1>4, WrittenInv
<1>6. Puts(a)  BY <1>4, <1>5 DEF Puts
<1> QED  BY <1>2, <1>5, <1>6 DEF WriterInv

\* What maybeSpill(force = true) flushes.
Forced(x, next) == [Emit(x, x.ser) EXCEPT !.ser = <<>>, !.st = next]

\* All that was serialized is in its byteBuffer.
LEMMA ForcedInv ==
  ASSUME NEW a \in Nat, NEW X \in Seq(Bytes), NEW n, NEW x,
         StreamInv(a, x, X, n), NEW next \in {"run", "flushed"}
  PROVE  BeforeSpill(a, Forced(x, next), X, n) /\ Forced(x, next).st = next
<1> DEFINE bb == x.bb \o x.ser
           rem == x.rem + Len(x.ser)
           e == [x EXCEPT !.bb = bb, !.rem = rem]
           y == Forced(x, next)
<1>0. /\ x \in Streams /\ x.size = Len(X) /\ Len(x.arr) = n
      /\ Len(X) + Len(x.bb) + Len(x.ser) = x.made
      /\ Numbered(a, X, 0) /\ Numbered(a, x.bb, Len(X))
      /\ Numbered(a, x.ser, Len(X) + Len(x.bb))
      /\ x.rem = Len(x.bb) /\ x.fl = 0
      /\ x.recordsPerBlock > 0 => Len(x.bb) + Len(x.ser) > 0
      /\ SumFirst(x.arr, Len(x.arr)) + x.recordsPerBlock = x.records
  BY DEF StreamInv, Placed, Counted
<1>1. /\ x.bb \in Seq(Bytes) /\ x.ser \in Seq(Bytes) /\ x.rem \in Nat
      /\ x.made \in Nat
  BY <1>0 DEF Streams
<1>2. Len(X) \in Nat /\ Len(x.bb) \in Nat /\ Len(x.ser) \in Nat  BY <1>1
<1>3. /\ bb \in Seq(Bytes) /\ Len(bb) = Len(x.bb) + Len(x.ser)
      /\ Numbered(a, bb, Len(X))
  BY <1>0, <1>1, <1>2, NumberedConcat
<1>4. rem \in Nat /\ rem = Len(bb)
  <2> DEFINE j == Len(x.bb)
             l == Len(x.ser)
  <2>1. rem = j + l /\ Len(bb) = j + l /\ j \in Nat /\ l \in Nat
    BY <1>0, <1>2, <1>3
  <2> HIDE DEF j, l, bb, rem
  <2> QED  BY <2>1
<1>5. e = Emit(x, x.ser)  BY DEF Emit
<1> HIDE DEF bb, rem
<1>6. /\ e \in Streams /\ e.bb = bb /\ e.rem = rem /\ e.made = x.made
      /\ e.records = x.records /\ e.recordsPerBlock = x.recordsPerBlock
      /\ e.fl = x.fl /\ e.arr = x.arr /\ e.size = x.size
  BY <1>0, <1>3, <1>4 DEF Streams
<1>7. y = [e EXCEPT !.ser = <<>>, !.st = next]  BY <1>5 DEF Forced
<1> HIDE DEF e
<1>8. <<>> \in Seq(Bytes) /\ Len(<<>>) = 0  OBVIOUS
<1>9. /\ y \in Streams /\ y.ser = <<>> /\ y.st = next
      /\ y.bb = e.bb /\ y.rem = e.rem /\ y.made = e.made
      /\ y.records = e.records /\ y.recordsPerBlock = e.recordsPerBlock
      /\ y.fl = e.fl /\ y.arr = e.arr /\ y.size = e.size
  BY <1>6, <1>7, <1>8 DEF Streams, StreamStates
<1> HIDE DEF y
<1>10. Placed(a, X, y)
  <2> DEFINE i == Len(X)
             j == Len(x.bb)
             l == Len(x.ser)
  <2>1. /\ i + j + l = x.made /\ i \in Nat /\ j \in Nat /\ l \in Nat
        /\ Len(bb) = j + l
    BY <1>0, <1>2, <1>3
  <2> HIDE DEF i, j, l
  <2>2. i + Len(bb) + 0 = x.made  BY <1>1, <2>1
  <2>3. /\ Len(X) + Len(y.bb) + Len(y.ser) = y.made
    BY <1>6, <1>8, <1>9, <2>2 DEF i
  <2>4. Numbered(a, y.ser, Len(X) + Len(y.bb))  BY <1>8, <1>9 DEF Numbered
  <2>5. Numbered(a, y.bb, Len(X))  BY <1>3, <1>6, <1>9
  <2> QED  BY <1>0, <2>3, <2>4, <2>5 DEF Placed
<1>11. Len(y.ser) = 0 /\ Len(y.ser) <= SerCap
  BY <1>8, <1>9, StreamAssumption
<1>12. y.recordsPerBlock > 0 => Len(y.bb) + Len(y.ser) > 0
  <2>1. y.recordsPerBlock > 0 => Len(x.bb) + Len(x.ser) > 0
    BY <1>0, <1>6, <1>9
  <2>2. Len(y.bb) = Len(x.bb) + Len(x.ser)  BY <1>3, <1>6, <1>9
  <2> DEFINE j == Len(x.bb)
             l == Len(x.ser)
  <2>3. /\ Len(y.bb) = j + l /\ Len(y.ser) = 0 /\ j \in Nat /\ l \in Nat
        /\ y.recordsPerBlock > 0 => j + l > 0
    BY <1>2, <1>11, <2>1, <2>2
  <2> HIDE DEF j, l
  <2> QED  BY <2>3
<1>13. SumFirst(y.arr, Len(y.arr)) + y.recordsPerBlock = y.records
  BY <1>0, <1>6, <1>9
<1>14. /\ y.rem = Len(y.bb) /\ y.fl = 0 /\ y.size = Len(X)
       /\ Len(y.arr) = n
  BY <1>0, <1>4, <1>6, <1>9
<1>15. BeforeSpill(a, y, X, n)
  BY <1>9, <1>10, <1>11, <1>12, <1>13, <1>14 DEF BeforeSpill
<1> QED  BY <1>9, <1>15 DEF y

\* ForceSpill
LEMMA ForceSpillInv ==
  ASSUME WriterInv, NEW a \in Attempts,
         NEW next \in {"run", "flushed"}, ForceSpill(a, next)
  PROVE  /\ WriterInv'
         /\ Puts(a) /\ wr'[a].st # "done"
<1> DEFINE x == wr[a]
           y == Forced(x, next)
           X == Of(a, FlattenSeq(store))
           n == Cardinality(BlocksOf(a, store))
<1>1. Writers(throttle, store, wr, commit)  BY DEF WriterInv
<1>2. x.st = "run" /\ UNCHANGED <<throttle, commit>>  BY DEF ForceSpill
<1>3. /\ a \in Nat /\ throttle \in Int /\ X \in Seq(Bytes) /\ n \in Nat
      /\ StreamInv(a, x, X, n) /\ Throttled(throttle, x)
  BY <1>1, StreamOf
<1>4. \/ /\ ~Room(x, x.ser)
         /\ wr' = [wr EXCEPT ![a].st = "overflow"]
         /\ PutNothing
      \/ /\ PutBlock(a, y)
         /\ wr' = [wr EXCEPT ![a] = Account(Flushed(y))]
  BY DEF ForceSpill, Forced
<1>5. CASE /\ ~Room(x, x.ser)
           /\ wr' = [wr EXCEPT ![a].st = "overflow"]
           /\ PutNothing
  <2>1. x.ser \in Seq(Bytes)  BY <1>3 DEF StreamInv, Streams
  <2>2. Len(x.ser) <= Len(x.ser) + MaxRecord  BY <2>1, StreamAssumption
  <2>3. ~RoomEnough(throttle)
    <3> HIDE DEF x, X, n
    <3> QED  BY <1>2, <1>3, <1>5, <2>1, <2>2, NoOverflowStep
  <2>4. Writers(throttle, store, [wr EXCEPT ![a].st = "overflow"], commit)
    BY <1>1, <1>2, <2>3, StateStep
  <2>5. wr'[a].st # "done"  BY <1>1, <1>5, StateAfter
  <2> QED  BY <1>2, <1>5, <2>4, <2>5 DEF WriterInv, Puts, PutNothing
<1>6. CASE /\ PutBlock(a, y)
           /\ wr' = [wr EXCEPT ![a] = Account(Flushed(y))]
  <2>1. BeforeSpill(a, y, X, n) /\ y.st = next
    <3> HIDE DEF x, X, n
    <3> QED  BY <1>3, ForcedInv
  <2>a. y.st \notin {"overflow", "done"}  BY <2>1
  <2> HIDE DEF y
  <2>b. Own(a, y)
    <3> HIDE DEF x, X, n
    <3> QED  BY <1>3, <2>1, OwnBytes
  <2>c. wr'[a].st # "done"
    <3>1. y \in Streams /\ y.fl = 0  BY <2>1 DEF BeforeSpill
    <3>2. a \in DOMAIN wr  BY <1>1, StreamOf
    <3> QED  BY <1>6, <2>a, <3>1, <3>2, SpillFields
  <2>2. Writers(throttle, store \o Stored(y),
                [wr EXCEPT ![a] = Account(Flushed(y))], commit)
    BY <1>1, <1>2, <2>1, <2>a, SpillStep
  <2>3. store' = store \o Stored(y)  BY <1>6 DEF PutBlock
  <2> QED  BY <1>2, <1>6, <2>2, <2>3, <2>b, <2>c DEF WriterInv, Puts
<1> QED  BY <1>4, <1>5, <1>6

\* Close: the spill before it has left nothing to store.
LEMMA CloseInv ==
  ASSUME WriterInv, NEW a \in Attempts, Close(a)
  PROVE  WriterInv' /\ wr[a].rem = 0 /\ PutBlock(a, wr[a])
<1> DEFINE x == wr[a]
           X == Of(a, FlattenSeq(store))
           n == Cardinality(BlocksOf(a, store))
           z == WithState(x, "done")
<1>1. Writers(throttle, store, wr, commit)  BY DEF WriterInv
<1>2. x.st = "flushed" /\ throttle' = throttle  BY DEF Close
<1>3. /\ a \in Nat /\ Blocks(store) /\ a \in DOMAIN wr
      /\ StreamInv(a, x, X, n) /\ Throttled(throttle, x)
  BY <1>1, StreamOf
<1>4. /\ x \in Streams /\ x.rem = Len(x.bb) /\ x.fl = 0
      /\ Len(x.bb) = 0 /\ Len(x.ser) = 0
  BY <1>2, <1>3 DEF StreamInv, Counted
<1>5. x.bb = <<>> /\ x.rem = 0
  <2>1. x.bb \in Seq(Bytes)  BY <1>4 DEF Streams
  <2> QED  BY <1>4, <2>1
<1>6. Stored(x) = <<>> /\ store \in Seq(Seq(Bytes))
  BY <1>3, <1>5 DEF Stored, Blocks
<1>7. store' = store
  <2>1. store' = store \o Stored(x)  BY DEF Close, PutBlock
  <2>2. store \o <<>> = store  BY <1>6
  <2> QED  BY <1>6, <2>1, <2>2
<1>8. Reset(x) = x  BY <1>4, <1>5 DEF Reset, Streams
<1>9. wr' = [wr EXCEPT ![a] = [Reset(x) EXCEPT !.st = "done"]]  BY DEF Close
<1>10. wr' = [wr EXCEPT ![a] = z]  BY <1>8, <1>9 DEF WithState
<1>11. OnlyStream(wr, wr', a, z)  BY <1>3, <1>10, ExceptOnly
<1>12. StreamInv(a, z, X, n) /\ z.st = "done"
  <2> HIDE DEF x, X, n
  <2>1. "done" \in StreamStates  BY DEF StreamStates
  <2> QED  BY <1>3, <1>4, <2>1, WithStateInv
<1> HIDE DEF z
<1>13. Advanced(a, z, store, store)  BY <1>1, <1>12, NothingAdded
<1>14. Throttled(throttle, z)  BY <1>12 DEF Throttled
<1>15. \/ commit' = commit /\ wr[a].st # "done"
       \/ commit' = a /\ z.st = "done"
  BY <1>2, <1>12 DEF Close
<1>16. RoomEnough(throttle) => z.st # "overflow"  BY <1>12
<1>17. Writers(throttle, store, wr', commit')
  BY <1>1, <1>11, <1>13, <1>14, <1>15, <1>16, WritersAfter
<1> QED  BY <1>2, <1>5, <1>7, <1>17 DEF WriterInv, Close

\* One block more means more bytes.
LEMMA FirstBytesStep ==
  ASSUME NEW s, Blocks(s), NEW k \in Nat, k < Len(s)
  PROVE  /\ FirstBytes(s, k) \in Nat /\ FirstBytes(s, k + 1) \in Nat
         /\ FirstBytes(s, k) < FirstBytes(s, k + 1)
         /\ FirstBytes(s, k + 1) = FirstBytes(s, k) + Len(s[k + 1])
         /\ FlattenSeq(SubSeq(s, 1, k)) \in Seq(Bytes)
         /\ FlattenSeq(SubSeq(s, 1, k + 1)) =
              FlattenSeq(SubSeq(s, 1, k)) \o s[k + 1]
<1> DEFINE p == SubSeq(s, 1, k)
           q == SubSeq(s, 1, k + 1)
           b == s[k + 1]
<1>1. s \in Seq(Seq(Bytes)) /\ \A i \in 1 .. Len(s) : Len(s[i]) > 0
  BY DEF Blocks
<1>2. Len(s) \in Nat /\ k + 1 \in 1 .. Len(s)  BY <1>1
<1>3. b \in Seq(Bytes) /\ Len(b) > 0 /\ Len(b) \in Nat  BY <1>1, <1>2
<1>4. p \in Seq(Seq(Bytes)) /\ Len(p) = k /\ \A i \in 1 .. k : p[i] = s[0 + i]
  <2>1. 0 \in Nat /\ 0 + k <= Len(s)  BY <1>2
  <2>2. /\ SubSeq(s, 0 + 1, 0 + k) \in Seq(Seq(Bytes))
        /\ Len(SubSeq(s, 0 + 1, 0 + k)) = k
        /\ \A i \in 1 .. k : SubSeq(s, 0 + 1, 0 + k)[i] = s[0 + i]
    BY <1>1, <2>1, SubSeqAt
  <2> QED  BY <2>2
<1>5. /\ q \in Seq(Seq(Bytes)) /\ Len(q) = k + 1
      /\ \A i \in 1 .. k + 1 : q[i] = s[0 + i]
  <2> DEFINE m == k + 1
  <2>1. 0 \in Nat /\ 0 + m <= Len(s) /\ m \in Nat  BY <1>2
  <2> HIDE DEF m
  <2>2. /\ SubSeq(s, 0 + 1, 0 + m) \in Seq(Seq(Bytes))
        /\ Len(SubSeq(s, 0 + 1, 0 + m)) = m
        /\ \A i \in 1 .. m : SubSeq(s, 0 + 1, 0 + m)[i] = s[0 + i]
    BY <1>1, <2>1, SubSeqAt
  <2> QED  BY <2>1, <2>2 DEF m
<1> HIDE DEF p, q, b
<1>6. q = Append(p, b)
  <2> DEFINE T == Seq(Bytes)
  <2>1. /\ p \in Seq(T) /\ q \in Seq(T) /\ b \in T /\ Len(q) = Len(p) + 1
        /\ q[Len(p) + 1] = b
    BY <1>2, <1>3, <1>4, <1>5 DEF b
  <2>2. ASSUME NEW i \in 1 .. Len(p) PROVE q[i] = p[i]
    <3>1. i \in 1 .. k /\ i \in 1 .. k + 1  BY <1>4
    <3> QED  BY <1>4, <1>5, <3>1
  <2> HIDE DEF T
  <2> QED  BY <2>1, <2>2, IsAppend
<1> DEFINE f == FlattenSeq(p)
<1>7. f \in Seq(Bytes) /\ FlattenSeq(q) = f \o b
  BY <1>3, <1>4, <1>6, FlattenAppend
<1> HIDE DEF f
<1>8. Len(f) \in Nat /\ Len(f \o b) = Len(f) + Len(b)  BY <1>3, <1>7
<1>9. FirstBytes(s, k) = Len(f) /\ FirstBytes(s, k + 1) = Len(f) + Len(b)
  BY <1>7, <1>8 DEF FirstBytes, f, p, q
<1> DEFINE l == Len(f)
           m == Len(b)
<1>10. l \in Nat /\ m \in Nat /\ m > 0  BY <1>3, <1>8
<1> HIDE DEF l, m
<1>11. l + m \in Nat /\ l < l + m  BY <1>10
<1>12. FlattenSeq(SubSeq(s, 1, k)) = f /\ FlattenSeq(SubSeq(s, 1, k + 1)) = f \o b
  BY <1>7 DEF f, p, q
<1> QED  BY <1>7, <1>9, <1>10, <1>11, <1>12 DEF l, m, b

\* More of the first blocks have more bytes.
LEMMA FirstBytesLess ==
  ASSUME NEW s, Blocks(s), NEW k \in Nat, NEW j \in Nat, k < j, j <= Len(s)
  PROVE  /\ FirstBytes(s, k) < FirstBytes(s, j)
         /\ FirstBytes(s, k) \in Nat
<1> DEFINE n == Len(s)
           G == {m \in 0 .. n : k < m => FirstBytes(s, k) < FirstBytes(s, m)}
<1>1. s \in Seq(Seq(Bytes)) /\ n \in Nat  BY DEF Blocks
<1>2. 0 \in G  BY <1>1
<1>a. k < Len(s)  BY <1>1
<1>3. ASSUME NEW m \in 0 .. n, m \in G, m < n PROVE m + 1 \in G
  <2>1. m + 1 \in 0 .. n /\ m \in Nat /\ m < Len(s)  BY <1>1, <1>3
  <2>2. /\ FirstBytes(s, m) \in Nat /\ FirstBytes(s, m + 1) \in Nat
        /\ FirstBytes(s, m) < FirstBytes(s, m + 1)
    BY <2>1, FirstBytesStep
  <2>3. FirstBytes(s, k) \in Nat  BY <1>a, FirstBytesStep
  <2>4. CASE k < m
    <3>1. FirstBytes(s, k) < FirstBytes(s, m)  BY <1>3, <2>4
    <3>2. FirstBytes(s, k) < FirstBytes(s, m + 1)  BY <2>2, <2>3, <3>1
    <3> QED  BY <2>1, <3>2
  <2>5. CASE k = m  BY <2>1, <2>2, <2>5
  <2>6. CASE ~(k <= m)
    <3>1. ~(k < m + 1)  BY <2>1, <2>6
    <3> QED  BY <2>1, <3>1
  <2> QED  BY <2>1, <2>4, <2>5, <2>6
<1>b. j \in 0 .. n  BY <1>1
<1> HIDE DEF G
<1>4. 0 .. n \subseteq G  BY <1>1, <1>2, <1>3, UpTo
<1> HIDE DEF n
<1>5. j \in G  BY <1>b, <1>4
<1>6. FirstBytes(s, k) < FirstBytes(s, j)  BY <1>5 DEF G
<1> QED  BY <1>6, <1>a, FirstBytesStep

\* All blocks are the first Len(s) of them.
LEMMA FirstBytesAll ==
  ASSUME NEW s, Blocks(s)
  PROVE  /\ SubSeq(s, 1, Len(s)) = s /\ FirstBytes(s, Len(s)) = Len(FlattenSeq(s))
         /\ Len(FlattenSeq(s)) \in Nat
<1>1. s \in Seq(Seq(Bytes)) /\ <<>> \in Seq(Bytes)  BY DEF Blocks
<1>2. SubSeq(s, 1, Len(s)) = s  BY <1>1
<1>3. FlattenSeq(s) \in Seq(Bytes)  BY <1>1, FlattenAppend
<1>4. Len(FlattenSeq(s)) \in Nat  BY <1>3
<1>5. FirstBytes(s, Len(s)) = Len(FlattenSeq(s))  BY <1>2 DEF FirstBytes
<1> QED  BY <1>2, <1>4, <1>5

\* What the first blocks of s and those of info have in common.
LEMMA FirstBytesSame ==
  ASSUME NEW info, NEW s, Blocks(info), Blocks(s), FirstBlocks(info, s),
         NEW m \in Nat, m <= Len(info)
  PROVE  FirstBytes(info, m) = FirstBytes(s, m) /\ m <= Len(s)
<1>1. /\ info \in Seq(Seq(Bytes)) /\ s \in Seq(Seq(Bytes))
      /\ Len(info) \in Nat /\ Len(s) \in Nat /\ Len(info) <= Len(s)
      /\ \A i \in 1 .. Len(info) : info[i] = s[i]
  BY DEF Blocks, FirstBlocks
<1> DEFINE T == Seq(Bytes)
           p == SubSeq(info, 0 + 1, 0 + m)
           q == SubSeq(s, 0 + 1, 0 + m)
<1>2. 0 \in Nat /\ 0 + m <= Len(info) /\ 0 + m <= Len(s) /\ m <= Len(s)
  BY <1>1
<1>3. info \in Seq(T) /\ s \in Seq(T)  BY <1>1
<1> HIDE DEF T
<1>4. /\ p \in Seq(T) /\ Len(p) = m
      /\ \A i \in 1 .. m : p[i] = info[0 + i]
  BY <1>2, <1>3, SubSeqAt
<1>5. /\ q \in Seq(T) /\ Len(q) = m
      /\ \A i \in 1 .. m : q[i] = s[0 + i]
  BY <1>2, <1>3, SubSeqAt
<1> HIDE DEF p, q
<1>6. ASSUME NEW i \in 1 .. m PROVE p[i] = q[i]
  <2>1. 0 + i = i /\ i \in 1 .. Len(info)  BY <1>1
  <2>2. p[i] = info[0 + i] /\ q[i] = s[0 + i]  BY <1>4, <1>5
  <2> QED  BY <1>1, <2>1, <2>2
<1>7. p = q  BY <1>4, <1>5, <1>6, SameSeq
<1>8. SubSeq(info, 1, m) = SubSeq(s, 1, m)  BY <1>7 DEF p, q
<1> QED  BY <1>2, <1>8 DEF FirstBytes

\* The constructor of nvmInputStream stops at block k when fewer blocks are
\* not enough, and k are, or are all.
LEMMA LoadIs ==
  ASSUME NEW info, Blocks(info), NEW len \in Nat, NEW k \in Nat,
         k <= Len(info),
         \A m \in Nat : m < k => ~(FirstBytes(info, m) >= len),
         k = Len(info) \/ (k > 0 /\ FirstBytes(info, k) >= len)
  PROVE  LoadCount(info, len) = k
<1> DEFINE N == Len(info)
           Enough(n) == \/ n = N
                        \/ n > 0 /\ Len(FlattenSeq(SubSeq(info, 1, n))) >= len
<1>1. N \in Nat  BY DEF Blocks
<1>2. ASSUME NEW m \in Nat, m < k PROVE ~Enough(m)
  BY <1>1, <1>2 DEF FirstBytes
<1>3. Enough(k)  BY DEF FirstBytes
<1> HIDE DEF Enough
<1>4. /\ k \in 0 .. N
      /\ Enough(k) /\ \A m \in 0 .. k - 1 : ~Enough(m)
  BY <1>1, <1>2, <1>3
<1>5. ASSUME NEW n \in 0 .. N, Enough(n), \A m \in 0 .. n - 1 : ~Enough(m)
      PROVE  n = k
  <2>1. ~(n < k)  BY <1>2, <1>5
  <2>2. ~(k < n)
    <3>1. k < n => k \in 0 .. n - 1  BY <1>1
    <3> QED  BY <1>3, <1>5, <3>1
  <2> QED  BY <1>1, <2>1, <2>2
<1>6. k = CHOOSE n \in 0 .. N : Enough(n) /\ \A m \in 0 .. n - 1 : ~Enough(m)
  BY <1>4, <1>5
<1>7. LoadCount(info, len) =
        CHOOSE n \in 0 .. N : Enough(n) /\ \A m \in 0 .. n - 1 : ~Enough(m)
  BY DEF LoadCount, Enough
<1> QED  BY <1>6, <1>7

\* The size that counts n bytes leaves the last block of info out.
LastUncounted(info, n, a) ==
  /\ Len(info) > 1
  /\ n = FirstBytes(info, Len(info) - 1)
  /\ \A i \in 1 .. Len(info[Len(info)]) : info[Len(info)][i][1] = a

\* The constructor loads every block that it has found, also when the size
\* it is told counts blocks that were stored later; but not the last one when
\* the size does not count it yet.
LEMMA LoadAll ==
  ASSUME NEW info, NEW s, Blocks(info), Blocks(s), FirstBlocks(info, s),
         NEW n, NEW a, NEW w, Counting(s, n, a, w)
  PROVE  /\ n \in Nat
         /\ \/ LoadCount(info, n) = Len(info)
            \/ /\ LoadCount(info, n) = Len(info) - 1
               /\ a # 0 /\ LastUncounted(info, n, a)
<1> DEFINE N == Len(info)
           L == Len(s)
           l == L - 1
<1>1. /\ N \in Nat /\ L \in Nat /\ N <= L
      /\ info \in Seq(Seq(Bytes)) /\ s \in Seq(Seq(Bytes))
      /\ \A i \in 1 .. N : info[i] = s[i]
  BY DEF Blocks, FirstBlocks
<1>2. \A m \in Nat : m <= N => FirstBytes(info, m) = FirstBytes(s, m)
  BY FirstBytesSame
<1>3. ASSUME NEW j \in Nat, j <= L, n = FirstBytes(s, j), n \in Nat
      PROVE  \A m \in Nat : m < j /\ m < N => ~(FirstBytes(info, m) >= n)
  <2> SUFFICES ASSUME NEW m \in Nat, m < j, m < N
               PROVE  ~(FirstBytes(info, m) >= n)
    OBVIOUS
  <2> DEFINE f == FirstBytes(s, m)
  <2>1. f < FirstBytes(s, j) /\ f \in Nat  BY <1>3, FirstBytesLess
  <2>2. FirstBytes(info, m) = f
    <3>1. m <= N  BY <1>1
    <3> QED  BY <1>2, <3>1
  <2> HIDE DEF f
  <2>3. ~(f >= n)  BY <1>3, <2>1
  <2> QED  BY <2>2, <2>3
<1>4. CASE a = 0
  <2>1. n = FirstBytes(s, L) /\ n \in Nat
    BY <1>4, FirstBytesAll DEF Counting
  <2>2. \A m \in Nat : m < L /\ m < N => ~(FirstBytes(info, m) >= n)
    <3>1. L <= L  BY <1>1
    <3> QED  BY <1>1, <1>3, <2>1, <3>1
  <2>3. \A m \in Nat : m < N => ~(FirstBytes(info, m) >= n)
    BY <1>1, <2>2
  <2>4. N <= Len(info)  BY <1>1
  <2>5. LoadCount(info, n) = N  BY <1>1, <2>1, <2>3, <2>4, LoadIs
  <2> QED  BY <2>1, <2>5
<1>5. CASE a # 0
  <2>1. /\ L > 1 /\ n = FirstBytes(s, l)
        /\ \A i \in 1 .. Len(s[L]) : s[L][i][1] = a
    BY <1>5 DEF Counting
  <2>2. l \in Nat /\ l < L /\ l + 1 = L /\ l > 0  BY <1>1, <2>1
  <2> HIDE DEF l
  <2>3. n \in Nat  BY <2>1, <2>2, FirstBytesStep
  <2>4. \A m \in Nat : m < l /\ m < N => ~(FirstBytes(info, m) >= n)
    <3>1. l <= L  BY <1>1, <2>2
    <3> QED  BY <1>3, <2>1, <2>2, <2>3, <3>1
  <2>5. CASE N < L
    <3>1. \A m \in Nat : m < N => ~(FirstBytes(info, m) >= n)
      BY <1>1, <2>2, <2>4, <2>5
    <3>2. N <= Len(info)  BY <1>1
    <3>3. LoadCount(info, n) = N  BY <1>1, <2>3, <3>1, <3>2, LoadIs
    <3> QED  BY <2>3, <3>3
  <2>6. CASE N = L
    <3>1. l <= N /\ l = N - 1  BY <1>1, <2>2, <2>6
    <3>2. FirstBytes(info, l) = n  BY <1>2, <2>1, <2>2, <3>1
    <3>3. \A m \in Nat : m < l => ~(FirstBytes(info, m) >= n)
      BY <1>1, <2>2, <2>4, <2>6
    <3>4. FirstBytes(info, l) >= n  BY <2>3, <3>2
    <3>5. LoadCount(info, n) = l
      BY <2>2, <2>3, <3>1, <3>3, <3>4, LoadIs
    <3>6. N \in 1 .. N  BY <1>1, <2>1, <2>6
    <3>7. info[N] = s[L]  BY <1>1, <2>6, <3>6
    <3>8. LastUncounted(info, n, a)
      BY <2>1, <2>6, <3>1, <3>2, <3>7 DEF LastUncounted
    <3> QED  BY <1>5, <2>3, <3>1, <3>5, <3>8
  <2> QED  BY <1>1, <2>5, <2>6
<1> QED  BY <1>4, <1>5

\* What can change of the store and of the streams while nobody reads: blocks
\* are added, and a stream that is closed stays as it is.
Grows(s, t, w, v, c, d) ==
  /\ FirstBlocks(s, t)
  /\ c # 0 => d = c /\ v[c] = w[c]

\* The first blocks of the first blocks.
LEMMA FirstBlocksGrow ==
  ASSUME NEW r, Blocks(r), NEW s, Blocks(s), NEW t, Len(t) \in Nat,
         FirstBlocks(r, s), FirstBlocks(s, t)
  PROVE  FirstBlocks(r, t)
<1>1. Len(r) \in Nat /\ Len(s) \in Nat  BY DEF Blocks
<1>2. Len(r) <= Len(s) /\ Len(s) <= Len(t)  BY DEF FirstBlocks
<1>3. Len(r) <= Len(t)  BY <1>1, <1>2
<1>4. ASSUME NEW i \in 1 .. Len(r) PROVE r[i] = t[i]
  <2>1. i \in 1 .. Len(s)  BY <1>1, <1>2
  <2> QED  BY <2>1 DEF FirstBlocks
<1> QED  BY <1>3, <1>4 DEF FirstBlocks

\* What is stored comes behind what is there.
LEMMA FirstBlocksConcat ==
  ASSUME NEW s, Blocks(s), NEW y
  PROVE  FirstBlocks(s, s \o Stored(y)) /\ Len(s \o Stored(y)) \in Nat
<1> DEFINE b == SubSeq(y.bb, 1, y.rem)
           T == Seq(Bytes) \cup {b}
           t == Stored(y)
<1>1. s \in Seq(Seq(Bytes))  BY DEF Blocks
<1>2. t = <<b>> \/ t = <<>>  BY DEF Stored
<1> HIDE DEF b, t
<1>3. b \in T /\ Seq(Bytes) \subseteq T  OBVIOUS
<1>4. s \in Seq(T)  BY <1>1, <1>3, SeqWiden
<1> HIDE DEF T
<1>5. t \in Seq(T)
  <2>1. CASE t = <<b>>  BY <1>3, <2>1
  <2>2. CASE t = <<>>  BY <2>2
  <2> QED  BY <1>2, <2>1, <2>2
<1> DEFINE u == s \o t
<1>6. /\ Len(u) = Len(s) + Len(t) /\ Len(s) \in Nat /\ Len(t) \in Nat
      /\ \A i \in 1 .. Len(s) : u[i] = s[i]
  BY <1>4, <1>5
<1> HIDE DEF u
<1>7. Len(s) <= Len(u) /\ Len(u) \in Nat  BY <1>6
<1> QED  BY <1>6, <1>7 DEF FirstBlocks, u, t

\* Every step of a writer is such a change.
LEMMA WriterGrows ==
  ASSUME WriterInv, NEW a \in Attempts, WriterStep(a)
  PROVE  /\ Grows(store, store', wr, wr', commit, commit')
         /\ in' = in /\ Len(store') \in Nat
         /\ \E z : wr' = [wr EXCEPT ![a] = z]
<1>1. /\ Blocks(store) /\ commit \in {0} \cup Attempts
      /\ commit # 0 => wr[commit].st = "done"
      /\ DOMAIN wr = Attempts
  BY DEF WriterInv, Writers
<1>2. FirstBlocks(store, store) /\ Len(store) \in Nat
  BY <1>1 DEF FirstBlocks, Blocks
<1>3. \A y : /\ FirstBlocks(store, store \o Stored(y))
             /\ Len(store \o Stored(y)) \in Nat
  BY <1>1, FirstBlocksConcat
<1>4. SUFFICES ASSUME TRUE
               PROVE  /\ wr[a].st # "done" /\ in' = in
                      /\ commit # 0 => commit' = commit
                      /\ store' = store \/ \E y : store' = store \o Stored(y)
                      /\ \E z : wr' = [wr EXCEPT ![a] = z]
  BY <1>1, <1>2, <1>3 DEF Grows
<1>5. CASE Start(a)  BY <1>5 DEF Start, PutNothing
<1>6. CASE Fail(a)  BY <1>6 DEF Fail, PutNothing
<1>7. CASE Close(a)
  <2>1. store' = store \o Stored(wr[a])  BY <1>7 DEF Close, PutBlock
  <2> QED  BY <1>7, <2>1 DEF Close
<1>8. CASE \E next \in {"run", "flushed"} : ForceSpill(a, next)
  <2>1. PICK next \in {"run", "flushed"} : ForceSpill(a, next)  BY <1>8
  <2>2. store' = store \/ \E y : store' = store \o Stored(y)
    BY <2>1 DEF ForceSpill, PutNothing, PutBlock
  <2>3. /\ wr[a].st # "done" /\ in' = in /\ commit' = commit
        /\ \E z : wr' = [wr EXCEPT ![a] = z]
    BY <2>1 DEF ForceSpill
  <2> QED  BY <2>2, <2>3
<1>9. CASE \E k \in 1 .. MaxRecord : WriteRecord(a, k)
  <2>1. PICK k \in 1 .. MaxRecord : WriteRecord(a, k)  BY <1>9
  <2>2. PICK all, d : Written(throttle, store, wr, a, k, all, d, store', wr')
    BY <2>1, WriteRecordForm
  <2>3. /\ store' = store \/ \E y : store' = store \o Stored(y)
        /\ \E z : wr' = [wr EXCEPT ![a] = z]
    BY <2>2 DEF Written
  <2>4. wr[a].st # "done" /\ in' = in /\ commit' = commit
    BY <2>1 DEF WriteRecord
  <2> QED  BY <2>3, <2>4
<1> QED  BY <1>5, <1>6, <1>7, <1>8, <1>9 DEF WriterStep

\* The invariant of the streams after it, and what it puts.
LEMMA WriterPuts ==
  ASSUME WriterInv, NEW a \in Attempts, WriterStep(a)
  PROVE  /\ WriterInv'
         /\ \/ Puts(a) /\ wr'[a].st # "done"
            \/ wr[a].rem = 0 /\ PutBlock(a, wr[a])
  BY StartInv, FailInv, CloseInv, ForceSpillInv, WriteRecordInv DEF WriterStep

\* A put of nothing.
LEMMA PutZero ==
  ASSUME NEW a, NEW y, y.rem = 0, PutBlock(a, y), Blocks(store),
         Counting(store, total, adding, wr)
  PROVE  UNCHANGED <<store, total, adding>>
<1>1. store \in Seq(Seq(Bytes))  BY DEF Blocks
<1>2. Stored(y) = <<>>  BY DEF Stored
<1>3. store' = store  BY <1>1, <1>2 DEF PutBlock
<1>4. adding' = adding  BY DEF PutBlock
<1>5. store = <<>> => total = 0
  <2> SUFFICES ASSUME store = <<>> PROVE total = 0  OBVIOUS
  <2>1. Len(store) = 0  OBVIOUS
  <2>2. adding = 0 /\ total = Len(FlattenSeq(store))
    BY <2>1 DEF Counting
  <2> QED  BY <2>2, FlattenEmpty
<1>6. total' = total  BY <1>5 DEF PutBlock
<1> QED  BY <1>3, <1>4, <1>6

\* A put of a block: it is counted at once if it is the first one of the key,
\* and not yet otherwise.
LEMMA PutCounts ==
  ASSUME NEW a \in Attempts, NEW y, Own(a, y), y.rem > 0, PutBlock(a, y),
         Blocks(store), Counting(store, total, adding, wr), wr'[a].st # "done"
  PROVE  CountInv'
<1> DEFINE b == y.bb
           n == Len(store)
           u == Append(store, b)
<1>1. store \in Seq(Seq(Bytes)) /\ n \in Nat /\ a # 0
  BY StreamAssumption DEF Blocks
<1>2. b \in Seq(Bytes) /\ y.rem = Len(b) /\ \A i \in 1 .. Len(b) : b[i][1] = a
  BY DEF Own
<1>3. adding = 0 /\ total = Len(FlattenSeq(store))
  BY DEF PutBlock, Counting
<1>4. store' = u
  <2> HIDE DEF b
  <2>1. SubSeq(b, 1, Len(b)) = b  BY <1>2
  <2>2. Stored(y) = <<b>>  BY <1>2, <2>1 DEF Stored, b
  <2>3. store \o <<b>> = Append(store, b)  BY <1>1, <1>2
  <2> QED  BY <2>2, <2>3 DEF PutBlock
<1>5. /\ u \in Seq(Seq(Bytes)) /\ Len(u) = n + 1 /\ u[n + 1] = b
      /\ SubSeq(u, 1, n) = store
  <2> DEFINE T == Seq(Bytes)
             p == SubSeq(u, 0 + 1, 0 + n)
  <2>a. store \in Seq(T) /\ b \in T /\ n = Len(store)  BY <1>1, <1>2
  <2> HIDE DEF T, b, n
  <2>1. /\ u \in Seq(T) /\ Len(u) = n + 1 /\ u[n + 1] = b
        /\ \A i \in 1 .. n : u[i] = store[i]
    BY <2>a
  <2> HIDE DEF u
  <2>2. 0 \in Nat /\ n \in Nat /\ 0 + n <= Len(u)  BY <1>1, <2>1
  <2>3. /\ p \in Seq(T) /\ Len(p) = n
        /\ \A i \in 1 .. n : p[i] = u[0 + i]
    BY <2>1, <2>2, SubSeqAt
  <2> HIDE DEF p
  <2>4. ASSUME NEW i \in 1 .. n PROVE p[i] = store[i]
    <3>1. 0 + i = i  OBVIOUS
    <3> QED  BY <2>1, <2>3, <3>1
  <2>5. p = store  BY <2>a, <2>3, <2>4, SameSeq
  <2>6. SubSeq(u, 1, n) = p  BY <2>2 DEF p
  <2> QED  BY <2>1, <2>5, <2>6 DEF T
<1>6. FlattenSeq(store) \in Seq(Bytes) /\ FlattenSeq(u) = FlattenSeq(store) \o b
  BY <1>1, <1>2, FlattenAppend
<1> HIDE DEF b, u
<1>7. CASE store = <<>>
  <2>1. adding' = 0 /\ total' = Len(b)
    BY <1>2, <1>3, <1>7 DEF PutBlock
  <2>2. FlattenSeq(u) = b
    <3>1. FlattenSeq(store) = <<>>  BY <1>7, FlattenEmpty
    <3>2. <<>> \o b = b  BY <1>2
    <3> QED  BY <1>6, <3>1, <3>2
  <2>3. Counting(u, total', adding', wr')
    BY <2>1, <2>2 DEF Counting
  <2> QED  BY <1>4, <2>3 DEF CountInv
<1>8. CASE store # <<>>
  <2>1. adding' = a /\ total' = total  BY <1>8 DEF PutBlock
  <2>2. n > 0  BY <1>1, <1>8
  <2>3. /\ Len(u) > 1 /\ Len(u) - 1 = n /\ u[Len(u)] = b
    BY <1>1, <1>5, <2>2
  <2>4. total' = FirstBytes(u, Len(u) - 1)
    BY <1>3, <1>5, <2>1, <2>3 DEF FirstBytes
  <2>5. Counting(u, total', adding', wr')
    BY <1>1, <1>2, <2>1, <2>3, <2>4 DEF Counting
  <2> QED  BY <1>4, <2>5 DEF CountInv
<1> QED  BY <1>7, <1>8

\* The step of a writer keeps the count.
LEMMA WriterCounts ==
  ASSUME WriterInv, CountInv, NEW a \in Attempts, WriterStep(a)
  PROVE  CountInv'
<1>1. Blocks(store) /\ DOMAIN wr = Attempts
  BY DEF WriterInv, Writers
<1>2. \E z : wr' = [wr EXCEPT ![a] = z]  BY WriterGrows
<1>3. Counting(store, total, adding, wr) /\ adding # a
  BY DEF CountInv, WriterStep
<1>4. adding # 0 => adding \in Attempts /\ wr'[adding] = wr[adding]
  BY <1>1, <1>2, <1>3 DEF Counting
<1>5. ASSUME UNCHANGED <<store, total, adding>> PROVE CountInv'
  <2>1. Counting(store, total, adding, wr')  BY <1>3, <1>4 DEF Counting
  <2> QED  BY <1>5, <2>1 DEF CountInv
<1>6. CASE Puts(a) /\ wr'[a].st # "done"
  <2>1. CASE PutNothing  BY <1>5, <2>1 DEF PutNothing
  <2>2. CASE \E y : Own(a, y) /\ PutBlock(a, y)
    <3>1. PICK y : Own(a, y) /\ PutBlock(a, y)  BY <2>2
    <3>2. y.rem \in Nat  BY <3>1 DEF Own
    <3>3. CASE y.rem = 0  BY <1>1, <1>3, <1>5, <3>1, <3>3, PutZero
    <3>4. CASE y.rem # 0
      <4>1. y.rem > 0  BY <3>2, <3>4
      <4> QED  BY <1>1, <1>3, <1>6, <3>1, <4>1, PutCounts
    <3> QED  BY <3>3, <3>4
  <2> QED  BY <1>6, <2>1, <2>2 DEF Puts
<1>7. CASE wr[a].rem = 0 /\ PutBlock(a, wr[a])
  BY <1>1, <1>3, <1>5, <1>7, PutZero
<1> QED  BY <1>6, <1>7, WriterPuts

\* PutTotal
LEMMA PutTotalInv ==
  ASSUME BlockStreamInv, NEW a \in Attempts, PutTotal(a)
  PROVE  BlockStreamInv'
<1>1. /\ UNCHANGED <<throttle, store, wr, commit, in>>
      /\ adding = a /\ adding' = 0 /\ total' = total + Len(store[Len(store)])
  BY DEF PutTotal
<1>2. WriterInv' /\ InputInv'
  BY <1>1 DEF BlockStreamInv, WriterInv, InputInv
<1>3. Blocks(store) /\ Len(store) \in Nat
  BY DEF BlockStreamInv, WriterInv, Writers, Blocks
<1> DEFINE n == Len(store)
           k == n - 1
<1>4. n > 1 /\ total = FirstBytes(store, k)
  <2>1. a # 0  BY StreamAssumption
  <2> QED  BY <1>1, <2>1 DEF BlockStreamInv, CountInv, Counting
<1>5. k \in Nat /\ k < n /\ k + 1 = n  BY <1>3, <1>4
<1> HIDE DEF k
<1>6. FirstBytes(store, k + 1) = FirstBytes(store, k) + Len(store[k + 1])
  BY <1>3, <1>5, FirstBytesStep
<1>7. total' = FirstBytes(store, n)  BY <1>1, <1>4, <1>5, <1>6
<1>8. total' = Len(FlattenSeq(store))  BY <1>3, <1>7, FirstBytesAll
<1>9. CountInv'  BY <1>1, <1>8 DEF CountInv, Counting
<1> QED  BY <1>2, <1>9 DEF BlockStreamInv

\* A reader is not disturbed.
LEMMA WriterKeepsInput ==
  ASSUME WriterInv, InputInv, in' = in, Len(store') \in Nat,
         Grows(store, store', wr, wr', commit, commit')
  PROVE  InputInv'
<1>1. CASE in.st = "none"  BY <1>1 DEF InputInv
<1>2. CASE in.st # "none"
  <2>1. /\ in \in Inputs /\ commit # 0
        /\ Reader(in, store, commit, wr[commit].made)
    BY <1>2 DEF InputInv
  <2>2. /\ commit' = commit /\ wr'[commit] = wr[commit]
        /\ FirstBlocks(store, store')
    BY <2>1 DEF Grows
  <2>3. Blocks(store) /\ Blocks(in.info)
    BY <2>1 DEF WriterInv, Writers, Reader
  <2>4. FirstBlocks(in.info, store) => FirstBlocks(in.info, store')
    BY <2>2, <2>3, FirstBlocksGrow
  <2>5. Reader(in, store', commit, wr[commit].made)
    BY <2>1, <2>4 DEF Reader
  <2> QED  BY <1>2, <2>1, <2>2, <2>5 DEF InputInv
<1> QED  BY <1>1, <1>2

-----------------------------------------------------------------------------
\* What is stored of an attempt that has finished is all that it serialized.
LEMMA DoneStored ==
  ASSUME NEW th, NEW s, NEW w, NEW c, Writers(th, s, w, c), c # 0
  PROVE  /\ Of(c, FlattenSeq(s)) = AllBytes(c, w[c].made)
         /\ Blocks(s)
<1> DEFINE X == Of(c, FlattenSeq(s))
           x == w[c]
<1>1. c \in Attempts /\ x.st = "done"  BY DEF Writers
<1>2. /\ c \in Nat /\ X \in Seq(Bytes) /\ Blocks(s)
      /\ StreamInv(c, x, X, Cardinality(BlocksOf(c, s)))
  BY <1>1, StreamOf
<1>3. /\ Len(x.bb) = 0 /\ Len(x.ser) = 0
      /\ Len(X) + Len(x.bb) + Len(x.ser) = x.made /\ Numbered(c, X, 0)
  BY <1>1, <1>2 DEF StreamInv, Counted, Placed
<1> HIDE DEF X, x
<1>4. Len(X) \in Nat  BY <1>2
<1>5. Len(X) = x.made  BY <1>3, <1>4
<1>6. \A i \in 1 .. x.made : X[i] = <<c, i>>  BY <1>3, <1>5 DEF Numbered
<1>7. X = [i \in 1 .. x.made |-> X[i]]  BY <1>2, <1>5
<1>8. X = AllBytes(c, x.made)  BY <1>6, <1>7 DEF AllBytes
<1> QED  BY <1>2, <1>8 DEF X, x

\* OpenInfo
LEMMA OpenInfoInv ==
  ASSUME WriterInv, InputInv, OpenInfo
  PROVE  InputInv'
<1> DEFINE y == [in EXCEPT !.st = "info", !.info = store]
<1>1. /\ in \in Inputs /\ in.got = <<>> /\ commit # 0
      /\ in' = y /\ UNCHANGED <<store, wr, commit>>
  BY DEF InputInv, OpenInfo
<1>2. /\ Of(commit, FlattenSeq(store)) = AllBytes(commit, wr[commit].made)
      /\ Blocks(store)
  BY <1>1, DoneStored DEF WriterInv
<1>3. store \in Seq(Seq(Bytes)) /\ Len(store) \in Nat  BY <1>2 DEF Blocks
<1>4. /\ y \in Inputs /\ y.st = "info" /\ y.info = store /\ y.got = <<>>
  BY <1>1, <1>3 DEF Inputs
<1> HIDE DEF y
<1>5. FirstBlocks(y.info, store)  BY <1>3, <1>4 DEF FirstBlocks
<1>6. Reader(y, store, commit, wr[commit].made)
  BY <1>2, <1>4, <1>5 DEF Reader
<1> QED  BY <1>1, <1>4, <1>6 DEF InputInv

\* OpenSize
LEMMA OpenSizeInv ==
  ASSUME WriterInv, CountInv, InputInv, OpenSize
  PROVE  InputInv'
<1> DEFINE info == in.info
           n == LoadCount(info, total)
           b == FlattenSeq(SubSeq(info, 1, n))
           y == [in EXCEPT !.st = "open", !.available = total, !.index = n,
                           !.buf = b]
<1>1. /\ in \in Inputs /\ in.st = "info" /\ commit # 0
      /\ in' = y /\ UNCHANGED <<store, wr, commit>>
      /\ Reader(in, store, commit, wr[commit].made)
  BY DEF InputInv, OpenSize
<1>2. /\ Blocks(info) /\ FirstBlocks(info, store) /\ in.got = <<>>
      /\ Of(commit, FlattenSeq(info)) = AllBytes(commit, wr[commit].made)
  BY <1>1 DEF Reader
<1>3. Blocks(store) /\ wr[commit].st = "done"
  BY <1>1 DEF WriterInv, Writers
<1>4. Counting(store, total, adding, wr)  BY DEF CountInv
<1>5. /\ total \in Nat
      /\ \/ n = Len(info)
         \/ n = Len(info) - 1 /\ adding # 0 /\ LastUncounted(info, total, adding)
  BY <1>2, <1>3, <1>4, LoadAll
<1>6. adding # 0 => adding # commit  BY <1>3, <1>4 DEF Counting
<1>7. info \in Seq(Seq(Bytes)) /\ Len(info) \in Nat  BY <1>2 DEF Blocks
<1>8. n \in Nat /\ b \in Seq(Bytes)
  <2>1. CASE n = Len(info)
    <3>1. SubSeq(info, 1, n) = info  BY <1>7, <2>1
    <3>2. <<>> \in Seq(Bytes)  OBVIOUS
    <3>3. FlattenSeq(info) \in Seq(Bytes)  BY <1>7, <3>2, FlattenAppend
    <3> QED  BY <1>7, <2>1, <3>1, <3>3
  <2>2. CASE n = Len(info) - 1 /\ LastUncounted(info, total, adding)
    <3>1. n \in Nat /\ n < Len(info)  BY <1>7, <2>2 DEF LastUncounted
    <3> HIDE DEF n
    <3>2. FlattenSeq(SubSeq(info, 1, n)) \in Seq(Bytes)
      BY <1>2, <3>1, FirstBytesStep
    <3> QED  BY <3>1, <3>2
  <2> QED  BY <1>5, <2>1, <2>2
<1> HIDE DEF n, b
<1>9. /\ y \in Inputs /\ y.st = "open" /\ y.info = info /\ y.index = n
      /\ y.buf = b /\ y.got = <<>> /\ y.available = total
  <2>1. in \in Inputs /\ in.got = <<>>  BY <1>1, <1>2
  <2>2. total \in Int /\ n \in Nat /\ b \in Seq(Bytes)  BY <1>5, <1>8
  <2>3. y \in Inputs  BY <2>1, <2>2 DEF Inputs
  <2>4. /\ y.st = "open" /\ y.info = info /\ y.index = n
        /\ y.buf = b /\ y.available = total
    BY <2>1 DEF Inputs
  <2>5. y.got = <<>>  BY <2>1 DEF Inputs
  <2> QED  BY <2>3, <2>4, <2>5
<1> HIDE DEF y
<1>10. y.got \o y.buf = b
  <2>1. <<>> \o b = b  BY <1>8
  <2> QED  BY <1>9, <2>1
<1>11. CASE n = Len(info)
  <2>1. b = FlattenSeq(info)
    <3>1. SubSeq(info, 1, n) = info  BY <1>7, <1>11
    <3> QED  BY <3>1 DEF b
  <2>2. AllLoaded(y)  BY <1>9, <1>10, <1>11, <2>1 DEF AllLoaded
  <2>3. Reader(y, store, commit, wr[commit].made)
    BY <1>2, <1>9, <2>2 DEF Reader
  <2> QED  BY <1>1, <1>9, <2>3 DEF InputInv
<1>12. CASE n = Len(info) - 1 /\ adding # 0 /\ LastUncounted(info, total, adding)
  <2> DEFINE N == Len(info)
  <2>1. /\ N > 1 /\ total = FirstBytes(info, n)
        /\ \A i \in 1 .. Len(info[N]) : info[N][i][1] = adding
    BY <1>12 DEF LastUncounted
  <2>2. total = Len(b)  BY <2>1 DEF FirstBytes, b
  <2>3. \A i \in 1 .. Len(info[N]) : info[N][i][1] # commit
    BY <1>6, <1>12, <2>1
  <2>4. N > 0  BY <1>7, <2>1
  <2>5. b = FlattenSeq(SubSeq(info, 1, N - 1))  BY <1>12 DEF b
  <2>6. LastMissing(y, commit)
    BY <1>9, <1>10, <1>12, <2>2, <2>3, <2>4, <2>5 DEF LastMissing
  <2>7. Reader(y, store, commit, wr[commit].made)
    BY <1>2, <1>9, <2>6 DEF Reader
  <2> QED  BY <1>1, <1>9, <2>7 DEF InputInv
<1> QED  BY <1>5, <1>11, <1>12

\* Bytes that are read go from the buffer to the caller.
LEMMA TakeInv ==
  ASSUME NEW x \in Inputs, NEW n \in Nat, n <= Len(x.buf)
  PROVE  /\ Take(x, n) \in Inputs
         /\ Take(x, n).got \o Take(x, n).buf = x.got \o x.buf
         /\ Take(x, n).st = x.st /\ Take(x, n).info = x.info
         /\ Take(x, n).index = x.index
         /\ Take(x, n).available = x.available - n
         /\ Len(Take(x, n).buf) = Len(x.buf) - n
<1> DEFINE b == x.buf
           g == x.got
           e == Len(b) - n
           p == SubSeq(b, 1, n)
           q == SubSeq(b, n + 1, Len(b))
           av == x.available - n
           y == Take(x, n)
<1>1. b \in Seq(Bytes) /\ g \in Seq(Bytes) /\ av \in Int
  BY DEF Inputs
<1>2. Len(b) \in Nat /\ n <= Len(b) /\ e \in Nat /\ n + e = Len(b)  BY <1>1
<1> DEFINE h == g \o p
<1>3. y = [x EXCEPT !.got = h, !.buf = q, !.available = av]
  BY DEF Take
<1> HIDE DEF e, b, g, av
<1>4. p \in Seq(Bytes) /\ Len(p) = n /\ \A i \in 1 .. n : p[i] = b[0 + i]
  <2>1. 0 \in Nat /\ 0 + n <= Len(b)  BY <1>2
  <2>2. /\ SubSeq(b, 0 + 1, 0 + n) \in Seq(Bytes)
        /\ Len(SubSeq(b, 0 + 1, 0 + n)) = n
        /\ \A i \in 1 .. n : SubSeq(b, 0 + 1, 0 + n)[i] = b[0 + i]
    BY <1>1, <2>1, SubSeqAt
  <2> QED  BY <2>2
<1>5. q \in Seq(Bytes) /\ Len(q) = e /\ \A i \in 1 .. e : q[i] = b[n + i]
  <2>1. n + e <= Len(b)  BY <1>2
  <2>2. /\ SubSeq(b, n + 1, n + e) \in Seq(Bytes)
        /\ Len(SubSeq(b, n + 1, n + e)) = e
        /\ \A i \in 1 .. e : SubSeq(b, n + 1, n + e)[i] = b[n + i]
    BY <1>1, <1>2, <2>1, SubSeqAt
  <2> QED  BY <1>2, <2>2
<1> HIDE DEF p, q
<1>6. h \in Seq(Bytes)  BY <1>1, <1>4
<1>7. h \o q = g \o b
  <2>1. b = p \o q
    <3>1. Len(b) = Len(p) + Len(q)  BY <1>2, <1>4, <1>5
    <3>2. ASSUME NEW i \in 1 .. Len(p) PROVE b[i] = p[i]
      <4>1. 0 + i = i /\ i \in 1 .. n  BY <1>4
      <4> QED  BY <1>4, <4>1
    <3>3. \A i \in 1 .. Len(q) : b[Len(p) + i] = q[i]  BY <1>4, <1>5
    <3> QED  BY <1>1, <1>4, <1>5, <3>1, <3>2, <3>3, IsConcat
  <2>2. (g \o p) \o q = g \o (p \o q)  BY <1>1, <1>4, <1>5
  <2> QED  BY <2>1, <2>2
<1> HIDE DEF h
<1>8. /\ y \in Inputs /\ y.got = h /\ y.buf = q /\ y.st = x.st
      /\ y.info = x.info /\ y.index = x.index /\ y.available = av
  BY <1>1, <1>3, <1>5, <1>6 DEF Inputs
<1> HIDE DEF y
<1>9. y.got \o y.buf = g \o b  BY <1>7, <1>8
<1>10. Len(y.buf) = Len(x.buf) - n /\ y.available = x.available - n
  BY <1>5, <1>8 DEF e, b, av
<1> QED  BY <1>8, <1>9, <1>10 DEF y, g, b

\* The end of the stream is seen when the buffer is empty.
LEMMA EofInv ==
  ASSUME NEW x \in Inputs, NEW s, NEW c, NEW m, Reader(x, s, c, m),
         x.st = "open", x.buf = <<>>, NEW y, y = [x EXCEPT !.st = "eof"]
  PROVE  y \in Inputs /\ y.st = "eof" /\ Reader(y, s, c, m)
<1>1. /\ y \in Inputs /\ y.st = "eof" /\ y.got = x.got /\ y.info = x.info
      /\ y.buf = x.buf /\ y.index = x.index /\ y.available = x.available
  BY DEF Inputs
<1>2. AllLoaded(y) \/ LastMissing(y, c)
  BY <1>1 DEF Reader, AllLoaded, LastMissing
<1> QED  BY <1>1, <1>2 DEF Reader

\* Some of the buffer is read.
LEMMA TakeReader ==
  ASSUME NEW x \in Inputs, NEW s, NEW c, NEW m, Reader(x, s, c, m),
         x.st = "open", NEW n \in Nat, n <= Len(x.buf),
         NEW y, y = Take(x, n)
  PROVE  y \in Inputs /\ y.st = "open" /\ Reader(y, s, c, m)
<1>1. /\ y \in Inputs /\ y.got \o y.buf = x.got \o x.buf
      /\ y.st = x.st /\ y.info = x.info /\ y.index = x.index
      /\ y.available = x.available - n /\ Len(y.buf) = Len(x.buf) - n
  BY TakeInv
<1>2. AllLoaded(x) => AllLoaded(y)  BY <1>1 DEF AllLoaded
<1>3. LastMissing(x, c) => LastMissing(y, c)  BY <1>1 DEF LastMissing
<1> QED  BY <1>1, <1>2, <1>3 DEF Reader

\* The stream x with its next block loaded.
LoadNext(x) == [x EXCEPT !.buf = x.info[x.index + 1], !.index = @ + 1]

\* The last block, which the constructor did not load, is loaded.
LEMMA LoadLast ==
  ASSUME NEW x \in Inputs, NEW s, NEW c, NEW m, Reader(x, s, c, m),
         x.st = "open", x.buf = <<>>, ~(x.index >= Len(x.info)),
         NEW y, y = LoadNext(x)
  PROVE  /\ y \in Inputs /\ y.st = "open" /\ Reader(y, s, c, m)
         /\ 1 <= Len(y.buf)
<1> DEFINE info == x.info
           N == Len(info)
           k == x.index
           b == info[k + 1]
           g == x.got
<1>1. /\ k \in Nat /\ g \in Seq(Bytes) /\ Blocks(info) /\ N \in Nat
      /\ info \in Seq(Seq(Bytes))
  BY DEF Inputs, Reader, Blocks
<1>2. ~AllLoaded(x)  BY <1>1 DEF AllLoaded
<1>3. /\ N > 0 /\ k = N - 1
      /\ g \o x.buf = FlattenSeq(SubSeq(info, 1, N - 1))
  BY <1>2 DEF Reader, LastMissing
<1>4. k < N /\ k + 1 = N /\ k + 1 \in 1 .. N  BY <1>1, <1>3
<1>5. b \in Seq(Bytes) /\ 1 <= Len(b)
  BY <1>1, <1>4 DEF Blocks
<1>6. g = FlattenSeq(SubSeq(info, 1, k))
  <2>1. g \o <<>> = g  BY <1>1
  <2> QED  BY <1>3, <2>1
<1> HIDE DEF b, N, k
<1>7. FlattenSeq(SubSeq(info, 1, k + 1)) = g \o b
  <2> HIDE DEF g
  <2>1. k < Len(info)  BY <1>4 DEF N
  <2> HIDE DEF info
  <2>2. FlattenSeq(SubSeq(info, 1, k + 1)) =
          FlattenSeq(SubSeq(info, 1, k)) \o info[k + 1]
    BY <1>1, <2>1, FirstBytesStep
  <2> QED  BY <1>6, <2>2 DEF b
<1>8. FlattenSeq(info) = g \o b
  <2>1. SubSeq(info, 1, N) = info  BY <1>1 DEF N
  <2> QED  BY <1>4, <1>7, <2>1
<1>9. y = [x EXCEPT !.buf = b, !.index = k + 1]  BY DEF b, k, LoadNext
<1>10. /\ y \in Inputs /\ y.st = "open" /\ y.info = info /\ y.got = g
       /\ y.buf = b /\ y.index = N
  <2>1. k + 1 \in Nat  BY <1>1
  <2> QED  BY <1>4, <1>5, <1>9, <2>1 DEF Inputs
<1>11. AllLoaded(y)  BY <1>8, <1>10 DEF AllLoaded, N
<1> QED  BY <1>5, <1>10, <1>11 DEF Reader

\* ReadBytes and ReadByte
LEMMA ReadInv ==
  ASSUME WriterInv, InputInv,
         (\E len \in 1 .. MaxRecord : ReadBytes(len)) \/ ReadByte
  PROVE  InputInv'
<1> DEFINE m == wr[commit].made
           z == [in EXCEPT !.buf = in.info[in.index + 1], !.index = @ + 1]
<1>1. /\ in \in Inputs /\ in.st = "open" /\ UNCHANGED <<store, wr, commit>>
  BY DEF InputInv, ReadBytes, ReadByte
<1>2. commit # 0 /\ Reader(in, store, commit, m)  BY <1>1 DEF InputInv
<1>3. in.buf \in Seq(Bytes) /\ Len(in.buf) \in Nat  BY <1>1 DEF Inputs
<1> HIDE DEF m
<1>4. \/ in.buf = <<>> /\ in' = [in EXCEPT !.st = "eof"]
      \/ \E n \in Nat : n <= Len(in.buf) /\ in' = Take(in, n)
      \/ in.buf = <<>> /\ ~(in.index >= Len(in.info)) /\ in' = Take(z, 1)
  <2>1. CASE \E len \in 1 .. MaxRecord : ReadBytes(len)
    <3>1. PICK len \in 1 .. MaxRecord : ReadBytes(len)  BY <2>1
    <3> DEFINE n == IF len < Len(in.buf) THEN len ELSE Len(in.buf)
    <3>2. n \in Nat /\ n <= Len(in.buf)  BY <1>3
    <3>3. \/ in.buf = <<>> /\ in' = [in EXCEPT !.st = "eof"]
          \/ in' = Take(in, n)
      BY <3>1 DEF ReadBytes
    <3> HIDE DEF n
    <3> QED  BY <3>2, <3>3
  <2>2. CASE ReadByte
    <3>1. in.buf # <<>> => 1 <= Len(in.buf)  BY <1>3
    <3>2. \/ in.buf = <<>> /\ in' = [in EXCEPT !.st = "eof"]
          \/ in.buf # <<>> /\ in' = Take(in, 1)
          \/ in.buf = <<>> /\ ~(in.index >= Len(in.info)) /\ in' = Take(z, 1)
      BY <2>2 DEF ReadByte
    <3> HIDE DEF z
    <3> QED  BY <3>1, <3>2
  <2> QED  BY <2>1, <2>2
<1>5. in' \in Inputs /\ in'.st # "none" /\ Reader(in', store, commit, m)
  <2>1. CASE in.buf = <<>> /\ in' = [in EXCEPT !.st = "eof"]
    BY <1>1, <1>2, <2>1, EofInv
  <2>2. CASE \E n \in Nat : n <= Len(in.buf) /\ in' = Take(in, n)
    BY <1>1, <1>2, <2>2, TakeReader
  <2>3. CASE /\ in.buf = <<>> /\ ~(in.index >= Len(in.info))
             /\ in' = Take(z, 1)
    <3>1. /\ z \in Inputs /\ z.st = "open" /\ Reader(z, store, commit, m)
          /\ 1 <= Len(z.buf)
      <4>1. in \in Inputs /\ in.st = "open" /\ in.buf = <<>>
            /\ ~(in.index >= Len(in.info)) /\ Reader(in, store, commit, m)
        BY <1>1, <1>2, <2>3
      <4>2. z = LoadNext(in)  BY DEF LoadNext
      <4> HIDE DEF z
      <4> QED  BY <4>1, <4>2, LoadLast
    <3> HIDE DEF z
    <3> QED  BY <2>3, <3>1, TakeReader
  <2> QED  BY <1>4, <2>1, <2>2, <2>3
<1> QED  BY <1>1, <1>2, <1>5 DEF InputInv, m

-----------------------------------------------------------------------------
\* Nothing is serialized, stored or read at first.
LEMMA StreamInit == SInit => BlockStreamInv
<1> SUFFICES ASSUME SInit PROVE BlockStreamInv  OBVIOUS
<1> DEFINE x == NewStream
           nil == <<>>
<1>1. nil \in Seq(Bytes) /\ nil \in Seq(Nat) /\ nil \in Seq(Seq(Bytes))
      /\ Len(nil) = 0 /\ DOMAIN nil = {}
  OBVIOUS
<1>2. FlattenSeq(nil) = nil /\ \A a : Of(a, nil) = nil
  BY FlattenEmpty, OfEmpty
<1>3. \A a : Cardinality(BlocksOf(a, nil)) = 0
  BY <1>1, FS_EmptySet DEF BlocksOf
<1>4. SumFirst(nil, 0) = 0  BY <1>1, SumStep
<1>5. x = [st |-> "new", ser |-> nil, bb |-> nil, rem |-> 0, fl |-> 0,
           size |-> 0, records |-> 0, recordsPerBlock |-> 0, arr |-> nil,
           made |-> 0]
  BY DEF NewStream
<1>6. store = nil /\ total = 0 /\ adding = 0 /\ wr = [a \in Attempts |-> x] /\ commit = 0
      /\ in = [st |-> "none", info |-> nil, index |-> 0, available |-> 0,
               buf |-> nil, got |-> nil]
      /\ throttle \in SpillThrottles
  BY DEF SInit, NewInput
<1> HIDE DEF nil, x
<1>7. /\ x \in Streams /\ x.st = "new" /\ x.ser = nil /\ x.bb = nil
      /\ x.rem = 0 /\ x.fl = 0 /\ x.size = 0 /\ x.records = 0
      /\ x.recordsPerBlock = 0 /\ x.arr = nil /\ x.made = 0
  BY <1>1, <1>5 DEF Streams, StreamStates
<1>8. Counted(x)  BY <1>1, <1>4, <1>7, StreamAssumption DEF Counted
<1>9. ASSUME NEW a PROVE StreamInv(a, x, nil, 0)
  <2>1. Placed(a, nil, x)  BY <1>1, <1>7 DEF Placed, Numbered
  <2> QED  BY <1>1, <1>7, <1>8, <2>1 DEF StreamInv
<1>10. Blocks(store)  BY <1>1, <1>6 DEF Blocks
<1>11. WriterInv
  <2>1. DOMAIN wr = Attempts /\ \A a \in Attempts : wr[a] = x  BY <1>6
  <2>2. ASSUME NEW a \in Attempts
        PROVE  StreamInv(a, wr[a], Of(a, FlattenSeq(store)),
                         Cardinality(BlocksOf(a, store)))
    <3>1. Of(a, FlattenSeq(store)) = nil /\ Cardinality(BlocksOf(a, store)) = 0
      BY <1>2, <1>3, <1>6
    <3> QED  BY <1>9, <2>1, <3>1
  <2>3. Throttled(throttle, x) /\ x.st # "overflow"  BY <1>7 DEF Throttled
  <2> QED  BY <1>6, <1>10, <2>1, <2>2, <2>3 DEF WriterInv, Writers
<1>12. InputInv
  <2>1. in \in Inputs /\ in.st = "none" /\ in.got = nil
    BY <1>1, <1>6 DEF Inputs
  <2> QED  BY <2>1 DEF InputInv, nil
<1>13. CountInv  BY <1>1, <1>2, <1>6 DEF CountInv, Counting
<1> QED  BY <1>11, <1>12, <1>13 DEF BlockStreamInv

\* The bytes and counters of all streams, and the reader, are as the parts of
\* BlockStreamInv say in every reachable state.
THEOREM BlockStreamInvariant == SSpec => []BlockStreamInv
<1>1. BlockStreamInv /\ [SNext]_svars => BlockStreamInv'
  <2> SUFFICES ASSUME BlockStreamInv, [SNext]_svars PROVE BlockStreamInv'
    OBVIOUS
  <2>1. WriterInv /\ CountInv /\ InputInv  BY DEF BlockStreamInv
  <2>2. ASSUME NEW a \in Attempts, WriterStep(a) PROVE BlockStreamInv'
    <3>1. WriterInv'  BY <2>1, <2>2, WriterPuts
    <3>2. CountInv'  BY <2>1, <2>2, WriterCounts
    <3>3. /\ Grows(store, store', wr, wr', commit, commit')
          /\ in' = in /\ Len(store') \in Nat
      BY <2>1, <2>2, WriterGrows
    <3>4. InputInv'  BY <2>1, <3>3, WriterKeepsInput
    <3> QED  BY <3>1, <3>2, <3>4 DEF BlockStreamInv
  <2>3. ASSUME UNCHANGED <<throttle, store, total, adding, wr, commit>>
        PROVE  WriterInv' /\ CountInv'
    BY <2>1, <2>3 DEF WriterInv, CountInv
  <2>4. CASE \E a \in Attempts : PutTotal(a)  BY <2>4, PutTotalInv
  <2>5. CASE OpenInfo
    BY <2>1, <2>3, <2>5, OpenInfoInv DEF OpenInfo, BlockStreamInv
  <2>6. CASE OpenSize
    BY <2>1, <2>3, <2>6, OpenSizeInv DEF OpenSize, BlockStreamInv
  <2>7. CASE (\E len \in 1 .. MaxRecord : ReadBytes(len)) \/ ReadByte
    <3>1. UNCHANGED <<throttle, store, total, adding, wr, commit>>
      BY <2>7 DEF ReadBytes, ReadByte
    <3>2. InputInv'  BY <2>1, <2>7, ReadInv
    <3> QED  BY <2>3, <3>1, <3>2 DEF BlockStreamInv
  <2>8. CASE UNCHANGED svars
    BY <2>1, <2>8 DEF svars, WriterInv, CountInv, InputInv, BlockStreamInv
  <2> QED  BY <2>2, <2>4, <2>5, <2>6, <2>7, <2>8 DEF SNext
<1> QED  BY <1>1, StreamInit, PTL DEF SSpec

\* No byte that an attempt has serialized is lost, doubled or out of order,
\* whatever the throttle, the sizes of the records, what the serializer keeps
\* back, and the number of attempts that share the block name.
THEOREM NoByteLost == SSpec => []NothingLost
<1>1. BlockStreamInv => NothingLost
  <2> SUFFICES ASSUME BlockStreamInv, NEW a \in Attempts
               PROVE  Of(a, FlattenSeq(store)) \o SubSeq(wr[a].bb, 1, wr[a].rem)
                        \o wr[a].ser = Produced(a)
    BY DEF NothingLost
  <2> DEFINE x == wr[a]
             X == Of(a, FlattenSeq(store))
             b == x.bb
             e == x.ser
  <2>1. /\ a \in Nat /\ X \in Seq(Bytes)
        /\ StreamInv(a, x, X, Cardinality(BlocksOf(a, store)))
    BY StreamOf DEF BlockStreamInv, WriterInv
  <2>2. /\ x \in Streams /\ x.rem = Len(b)
        /\ Len(X) + Len(b) + Len(e) = x.made
        /\ Numbered(a, X, 0) /\ Numbered(a, b, Len(X))
        /\ Numbered(a, e, Len(X) + Len(b))
    BY <2>1 DEF StreamInv, Placed, Counted
  <2>3. b \in Seq(Bytes) /\ e \in Seq(Bytes)  BY <2>2 DEF Streams
  <2>4. Produced(a) = AllBytes(a, x.made)  BY DEF Produced, AllBytes
  <2> HIDE DEF X, x, b, e
  <2>5. SubSeq(b, 1, x.rem) = b
    <3>1. SubSeq(b, 1, Len(b)) = b  BY <2>3
    <3> QED  BY <2>2, <3>1
  <2>6. Len(X) \in Nat /\ Len(b) \in Nat /\ Len(e) \in Nat  BY <2>1, <2>3
  <2> DEFINE y == X \o b
             u == y \o e
  <2>7. y \in Seq(Bytes) /\ Len(y) = Len(X) + Len(b) /\ Numbered(a, y, 0)
    <3>1. Numbered(a, b, 0 + Len(X)) /\ 0 \in Nat  BY <2>2, <2>6
    <3> QED  BY <2>1, <2>2, <2>3, <3>1, NumberedConcat
  <2> HIDE DEF y
  <2>8. u \in Seq(Bytes) /\ Len(u) = Len(y) + Len(e) /\ Numbered(a, u, 0)
    <3>1. Numbered(a, e, 0 + Len(y)) /\ 0 \in Nat  BY <2>2, <2>6, <2>7
    <3> QED  BY <2>3, <2>7, <3>1, NumberedConcat
  <2> HIDE DEF u
  <2>9. Len(u) = x.made  BY <2>2, <2>7, <2>8
  <2>10. \A i \in 1 .. x.made : u[i] = <<a, i>>  BY <2>8, <2>9 DEF Numbered
  <2>11. u = [i \in 1 .. x.made |-> u[i]]  BY <2>8, <2>9
  <2>12. u = AllBytes(a, x.made)  BY <2>10, <2>11 DEF AllBytes
  <2> QED  BY <2>4, <2>5, <2>12 DEF u, y, X, x, b, e
<1> QED  BY <1>1, BlockStreamInvariant, PTL

\* What a finished attempt reports is what it stored, record by record and
\* block by block, also when the blocks of other attempts are among its own.
THEOREM ReportCorrect == SSpec => []ReportMatchesStore
<1>1. BlockStreamInv => ReportMatchesStore
  <2> SUFFICES ASSUME BlockStreamInv, NEW a \in Attempts, wr[a].st = "done"
               PROVE  /\ wr[a].size = Len(Of(a, FlattenSeq(store)))
                      /\ SumFirst(wr[a].arr, Len(wr[a].arr)) = wr[a].records
                      /\ Len(wr[a].arr) = Cardinality(BlocksOf(a, store))
    BY DEF ReportMatchesStore
  <2> DEFINE x == wr[a]
  <2>1. StreamInv(a, x, Of(a, FlattenSeq(store)),
                  Cardinality(BlocksOf(a, store)))
    BY StreamOf DEF BlockStreamInv, WriterInv
  <2>2. x.size = Len(Of(a, FlattenSeq(store)))
    BY <2>1 DEF StreamInv
  <2>3. Len(x.arr) = Cardinality(BlocksOf(a, store))  BY <2>1 DEF StreamInv
  <2>4. /\ x \in Streams /\ Len(x.bb) = 0 /\ Len(x.ser) = 0
        /\ x.recordsPerBlock > 0 => Len(x.bb) + Len(x.ser) > 0
        /\ SumFirst(x.arr, Len(x.arr)) + x.recordsPerBlock = x.records
    BY <2>1 DEF StreamInv, Counted
  <2>5. x.arr \in Seq(Nat) /\ x.recordsPerBlock \in Nat
    BY <2>4 DEF Streams
  <2>6. SumFirst(x.arr, Len(x.arr)) \in Nat  BY <2>5, SumAppend
  <2>7. x.recordsPerBlock = 0  BY <2>4, <2>5
  <2>8. SumFirst(x.arr, Len(x.arr)) = x.records  BY <2>4, <2>6, <2>7
  <2> QED  BY <2>2, <2>3, <2>8
<1> QED  BY <1>1, BlockStreamInvariant, PTL

\* The buffer never overflows when there is a throttle above 0 and room above
\* it for what the serializer keeps back and for one record.
THEOREM BufferNeverOverflows == SSpec => []NoOverflow
<1>1. BlockStreamInv => NoOverflow
  BY DEF BlockStreamInv, WriterInv, Writers, RoomEnough, NoOverflow
<1> QED  BY <1>1, BlockStreamInvariant, PTL

\* A reader that sees the end has read all blocks it found when it was opened,
\* or all but a last one that another attempt had not counted yet, and then all
\* that it was told to expect.
THEOREM WholeBlocksRead == SSpec => []ReadsWholeBlocks
<1>1. BlockStreamInv => ReadsWholeBlocks
  <2> SUFFICES ASSUME BlockStreamInv, in.st = "eof"
               PROVE  \/ in.got = FlattenSeq(in.info)
                      \/ /\ in.got = FlattenSeq(Front(in.info))
                         /\ in.available <= 0
    BY DEF ReadsWholeBlocks
  <2>1. /\ in \in Inputs /\ in.buf = <<>>
        /\ AllLoaded(in) \/ LastMissing(in, commit)
    BY DEF BlockStreamInv, InputInv, Reader
  <2>2. in.got \o in.buf = in.got  BY <2>1 DEF Inputs
  <2>3. CASE AllLoaded(in)  BY <2>2, <2>3 DEF AllLoaded
  <2>4. CASE LastMissing(in, commit)
    <3>1. in.got = FlattenSeq(Front(in.info))
      BY <2>2, <2>4 DEF LastMissing, Front
    <3>2. in.available = 0  BY <2>1, <2>4 DEF LastMissing
    <3> QED  BY <3>1, <3>2
  <2> QED  BY <2>1, <2>3, <2>4
<1> QED  BY <1>1, BlockStreamInvariant, PTL

\* In both cases it has got the bytes of the committed attempt, all and in
\* order.
THEOREM CommittedAttemptRead == SSpec => []CommittedBytesRead
<1>1. BlockStreamInv => CommittedBytesRead
  <2> SUFFICES ASSUME BlockStreamInv, in.st = "eof"
               PROVE  Of(commit, in.got) = Produced(commit)
    BY DEF CommittedBytesRead
  <2> DEFINE info == in.info
             N == Len(info)
             k == N - 1
  <2>1. Reader(in, store, commit, wr[commit].made) /\ in \in Inputs
    BY DEF BlockStreamInv, InputInv
  <2>2. /\ Of(commit, FlattenSeq(info)) = AllBytes(commit, wr[commit].made)
        /\ Blocks(info) /\ in.buf = <<>>
        /\ AllLoaded(in) \/ LastMissing(in, commit)
    BY <2>1 DEF Reader
  <2>3. Produced(commit) = AllBytes(commit, wr[commit].made)
    BY DEF Produced, AllBytes
  <2>4. in.got \o in.buf = in.got  BY <2>1, <2>2 DEF Inputs
  <2>5. CASE AllLoaded(in)
    BY <2>2, <2>3, <2>4, <2>5 DEF AllLoaded
  <2>6. CASE LastMissing(in, commit)
    <3>1. /\ N > 0 /\ in.got = FlattenSeq(SubSeq(info, 1, k))
          /\ \A i \in 1 .. Len(info[N]) : info[N][i][1] # commit
      BY <2>4, <2>6 DEF LastMissing
    <3>2. N \in Nat /\ info \in Seq(Seq(Bytes))  BY <2>2 DEF Blocks
    <3>3. k \in Nat /\ k < N /\ k + 1 = N /\ N \in 1 .. N  BY <3>1, <3>2
    <3> HIDE DEF k
    <3>4. /\ FlattenSeq(SubSeq(info, 1, k)) \in Seq(Bytes)
          /\ FlattenSeq(SubSeq(info, 1, k + 1)) =
               FlattenSeq(SubSeq(info, 1, k)) \o info[k + 1]
      BY <2>2, <3>3, FirstBytesStep
    <3> DEFINE f == FlattenSeq(SubSeq(info, 1, k))
               b == info[N]
    <3>5. SubSeq(info, 1, N) = info  BY <3>2
    <3>6. FlattenSeq(info) = f \o b  BY <3>3, <3>4, <3>5
    <3>7. f \in Seq(Bytes) /\ b \in Seq(Bytes)
          /\ \A i \in 1 .. Len(b) : b[i][1] # commit
      BY <3>1, <3>2, <3>3, <3>4
    <3>8. in.got = f  BY <3>1
    <3> HIDE DEF f, b
    <3>9. Of(commit, f \o b) = Of(commit, f)  BY <3>7, OfConcat
    <3> QED  BY <2>2, <2>3, <3>6, <3>8, <3>9
  <2> QED  BY <2>2, <2>5, <2>6
<1> QED  BY <1>1, BlockStreamInvariant, PTL
=============================================================================
