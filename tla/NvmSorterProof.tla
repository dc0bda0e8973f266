--------------------------- MODULE NvmSorterProof ---------------------------
(***************************************************************************)
(* The records nvmExternalSorter is given: none is lost or combined with    *)
(* another key's, the result is in order, and a key is returned once,       *)
(* whatever was spilled when, for every mode and every number of records.   *)
(*                                                                         *)
(* A step moves records from places to places; Carries says that it does so *)
(* without losing one or taking one twice.  The order of the result follows *)
(* from MergeOk: what has been returned comes before the group that is      *)
(* being collected, and that before all that the iterators have to give.    *)
(***************************************************************************)
EXTENDS NvmSorter, DataLemmas, FiniteSetTheorems

\* A record: its key and the numbers of the input records combined in it.
Rec == [key : Keys, ids : SUBSET Nat]

-----------------------------------------------------------------------------
(***************************************************************************)
(* Places and the records they hold.                                       *)
(***************************************************************************)
\* Every number up to Len(inp) is in the record of exactly one of the places
\* P, which has its key, and no other number is.
Conserved(P, inp) ==
  /\ \A x \in P : \A m \in x[4].ids : m \in 1 .. Len(inp) /\ inp[m] = x[4].key
  /\ \A m \in 1 .. Len(inp) : \E x \in P : m \in x[4].ids
  /\ \A x, y \in P : \A m \in x[4].ids : m \in y[4].ids => x = y

\* f takes the record of each of the places P to one of the places Q.  Records
\* that come to the same place are combined.
Takes(f, P, Q) ==
  /\ f \in [P -> Q]
  /\ \A x \in P : /\ x[4].key = f[x][4].key
                  /\ \A m \in x[4].ids : m \in f[x][4].ids
  /\ \A y \in Q : \A m \in y[4].ids : \E x \in P : f[x] = y /\ m \in x[4].ids

Carries(P, Q) == \E f : Takes(f, P, Q)

\* Records that are carried are conserved.
LEMMA CarriesConserves ==
  ASSUME NEW P, NEW Q, NEW inp, Conserved(P, inp), Carries(P, Q)
  PROVE  Conserved(Q, inp)
<1>1. PICK f : Takes(f, P, Q)  BY DEF Carries
<1>2. ASSUME NEW y \in Q, NEW m \in y[4].ids
      PROVE  m \in 1 .. Len(inp) /\ inp[m] = y[4].key
  <2>1. PICK x \in P : f[x] = y /\ m \in x[4].ids  BY <1>1 DEF Takes
  <2>2. x[4].key = y[4].key  BY <1>1, <2>1 DEF Takes
  <2> QED  BY <2>1, <2>2 DEF Conserved
<1>3. ASSUME NEW m \in 1 .. Len(inp) PROVE \E y \in Q : m \in y[4].ids
  <2>1. PICK x \in P : m \in x[4].ids  BY DEF Conserved
  <2>2. f[x] \in Q /\ m \in f[x][4].ids  BY <1>1, <2>1 DEF Takes
  <2> QED  BY <2>2
<1>4. ASSUME NEW y \in Q, NEW z \in Q, NEW m \in y[4].ids, m \in z[4].ids
      PROVE  y = z
  <2>1. PICK x \in P : f[x] = y /\ m \in x[4].ids  BY <1>1 DEF Takes
  <2>2. PICK w \in P : f[w] = z /\ m \in w[4].ids  BY <1>1, <1>4 DEF Takes
  <2>3. x = w  BY <2>1, <2>2 DEF Conserved
  <2> QED  BY <2>1, <2>2, <2>3
<1> QED  BY <1>2, <1>3, <1>4 DEF Conserved

\* What stays is carried.
LEMMA CarriesSame ==
  ASSUME NEW P
  PROVE  Carries(P, P)
<1> DEFINE f == [x \in P |-> x]
<1>1. Takes(f, P, P)  BY DEF Takes
<1> QED  BY <1>1 DEF Carries

\* Carrying twice.
LEMMA CarriesTwice ==
  ASSUME NEW P, NEW Q, NEW R, Carries(P, Q), Carries(Q, R)
  PROVE  Carries(P, R)
<1>1. PICK f : Takes(f, P, Q)  BY DEF Carries
<1>2. PICK g : Takes(g, Q, R)  BY DEF Carries
<1> DEFINE h == [x \in P |-> g[f[x]]]
<1>3. \A x \in P : f[x] \in Q /\ h[x] = g[f[x]] /\ h[x] \in R
  BY <1>1, <1>2 DEF Takes
<1>4. h \in [P -> R]  BY <1>3
<1> HIDE DEF h
<1>5. ASSUME NEW x \in P
      PROVE  /\ x[4].key = h[x][4].key
             /\ \A m \in x[4].ids : m \in h[x][4].ids
  BY <1>1, <1>2, <1>3 DEF Takes
<1>6. ASSUME NEW z \in R, NEW m \in z[4].ids
      PROVE  \E x \in P : h[x] = z /\ m \in x[4].ids
  <2>1. PICK y \in Q : g[y] = z /\ m \in y[4].ids  BY <1>2 DEF Takes
  <2>2. PICK x \in P : f[x] = y /\ m \in x[4].ids  BY <1>1, <2>1 DEF Takes
  <2> QED  BY <1>3, <2>1, <2>2
<1>7. Takes(h, P, R)  BY <1>4, <1>5, <1>6 DEF Takes
<1> QED  BY <1>7 DEF Carries

\* Carrying some records while others stay.
LEMMA CarriesSome ==
  ASSUME NEW P, NEW Q, NEW B, Carries(P, Q), \A x \in P : x \notin B
  PROVE  Carries(P \cup B, Q \cup B)
<1>1. PICK f : Takes(f, P, Q)  BY DEF Carries
<1> DEFINE h == [x \in P \cup B |-> IF x \in P THEN f[x] ELSE x]
<1>2. \A x \in P : h[x] = f[x] /\ f[x] \in Q  BY <1>1 DEF Takes
<1>3. \A x \in B : h[x] = x  OBVIOUS
<1>4. h \in [P \cup B -> Q \cup B]  BY <1>1 DEF Takes
<1> HIDE DEF h
<1>5. ASSUME NEW x \in P \cup B
      PROVE  /\ x[4].key = h[x][4].key
             /\ \A m \in x[4].ids : m \in h[x][4].ids
  BY <1>1, <1>2, <1>3 DEF Takes
<1>6. ASSUME NEW z \in Q \cup B, NEW m \in z[4].ids
      PROVE  \E x \in P \cup B : h[x] = z /\ m \in x[4].ids
  <2>1. CASE z \in Q
    <3>1. PICK x \in P : f[x] = z /\ m \in x[4].ids  BY <1>1, <2>1 DEF Takes
    <3> QED  BY <1>2, <3>1
  <2>2. CASE z \in B  BY <1>3, <2>2
  <2> QED  BY <2>1, <2>2
<1>7. Takes(h, P \cup B, Q \cup B)  BY <1>4, <1>5, <1>6 DEF Takes
<1> QED  BY <1>7 DEF Carries

\* One record goes from place x to place y.
LEMMA CarriesOne ==
  ASSUME NEW A, NEW x, NEW y, x \notin A, x[4] = y[4]
  PROVE  Carries(A \cup {x}, A \cup {y})
<1> DEFINE f == [z \in {x} |-> y]
<1>1. f \in [{x} -> {y}] /\ f[x] = y  OBVIOUS
<1> HIDE DEF f
<1>2. Takes(f, {x}, {y})  BY <1>1 DEF Takes
<1>3. Carries({x}, {y})  BY <1>2 DEF Carries
<1>4. Carries({x} \cup A, {y} \cup A)  BY <1>3, CarriesSome
<1>5. {x} \cup A = A \cup {x} /\ {y} \cup A = A \cup {y}  OBVIOUS
<1> QED  BY <1>4, <1>5

\* One more number, in a record of its own.
LEMMA ConservedNew ==
  ASSUME NEW P, NEW inp \in Seq(Keys), NEW k \in Keys, NEW x,
         Conserved(P, inp), x[4] = [key |-> k, ids |-> {Len(inp) + 1}]
  PROVE  Conserved(P \cup {x}, Append(inp, k))
<1> DEFINE n == Len(inp)
           u == Append(inp, k)
<1>1. /\ n \in Nat /\ Len(u) = n + 1 /\ u[n + 1] = k
      /\ \A i \in 1 .. n : u[i] = inp[i]
  OBVIOUS
<1> HIDE DEF u
<1>2. x[4].key = k /\ x[4].ids = {n + 1}  OBVIOUS
<1>3. \A y \in P : \A m \in y[4].ids : m \in 1 .. n /\ inp[m] = y[4].key
  BY DEF Conserved
<1> HIDE DEF n
<1>4. ASSUME NEW y \in P \cup {x}, NEW m \in y[4].ids
      PROVE  m \in 1 .. Len(u) /\ u[m] = y[4].key
  BY <1>1, <1>2, <1>3
<1>5. ASSUME NEW m \in 1 .. Len(u) PROVE \E y \in P \cup {x} : m \in y[4].ids
  <2>1. CASE m = n + 1  BY <1>2, <2>1
  <2>2. CASE m # n + 1
    <3>1. m \in 1 .. n  BY <1>1, <2>2
    <3> QED  BY <3>1 DEF Conserved, n
  <2> QED  BY <2>1, <2>2
<1>6. ASSUME NEW y \in P \cup {x}, NEW z \in P \cup {x}, NEW m \in y[4].ids,
             m \in z[4].ids
      PROVE  y = z
  <2>1. CASE y \in P /\ z \in P  BY <1>6, <2>1 DEF Conserved
  <2>2. ~(n + 1 \in 1 .. n)  BY <1>1
  <2>3. CASE y = x \/ z = x
    <3>1. m = n + 1  BY <1>2, <1>6, <2>3
    <3>2. y = x /\ z = x  BY <1>3, <1>6, <2>2, <3>1
    <3> QED  BY <3>2
  <2> QED  BY <2>1, <2>3
<1>7. Conserved(P \cup {x}, u)  BY <1>4, <1>5, <1>6 DEF Conserved
<1> QED  BY <1>7 DEF u

-----------------------------------------------------------------------------
(***************************************************************************)
(* Sequences of places.                                                    *)
(***************************************************************************)
CollPlaces(c) == {<<"coll", 0, 0, r>> : r \in c}
StreamPlaces(o) == UNION {At("stream", i, o[i]) : i \in DOMAIN o}

\* A place of a sequence.
LEMMA AtIs ==
  ASSUME NEW S, NEW s \in Seq(S), NEW name, NEW i
  PROVE  /\ \A j \in 1 .. Len(s) : <<name, i, j, s[j]>> \in At(name, i, s)
         /\ \A x \in At(name, i, s) :
              \E j \in 1 .. Len(s) : x = <<name, i, j, s[j]>>
  BY DEF At

\* What a place says.
LEMMA PlaceParts ==
  ASSUME NEW a, NEW b, NEW c, NEW d
  PROVE  LET x == <<a, b, c, d>>
         IN  x[1] = a /\ x[2] = b /\ x[3] = c /\ x[4] = d
  OBVIOUS

\* Where a place is.
LEMMA AtNames ==
  ASSUME NEW S, NEW s \in Seq(S), NEW name, NEW i, NEW x \in At(name, i, s)
  PROVE  x[1] = name /\ x[2] = i /\ x[3] \in 1 .. Len(s) /\ x[4] = s[x[3]]
<1>1. PICK j \in 1 .. Len(s) : x = <<name, i, j, s[j]>>  BY AtIs
<1> QED  BY <1>1

\* A record at the end.
LEMMA AtAppend ==
  ASSUME NEW S, NEW s \in Seq(S), NEW r \in S, NEW name, NEW i
  PROVE  At(name, i, Append(s, r)) =
           At(name, i, s) \cup {<<name, i, Len(s) + 1, r>>}
<1> DEFINE u == Append(s, r)
           n == Len(s)
<1>1. /\ u \in Seq(S) /\ Len(u) = n + 1 /\ u[n + 1] = r /\ n \in Nat
      /\ \A j \in 1 .. n : u[j] = s[j]
  OBVIOUS
<1> HIDE DEF u
<1>2. ASSUME NEW x \in At(name, i, u)
      PROVE  x \in At(name, i, s) \cup {<<name, i, n + 1, r>>}
  <2>1. PICK j \in 1 .. n + 1 : x = <<name, i, j, u[j]>>  BY <1>1, AtIs
  <2>2. CASE j = n + 1  BY <1>1, <2>1, <2>2
  <2>3. CASE j \in 1 .. n  BY <1>1, <2>1, <2>3, AtIs
  <2> QED  BY <1>1, <2>2, <2>3
<1>3. ASSUME NEW x \in At(name, i, s) PROVE x \in At(name, i, u)
  <2>1. PICK j \in 1 .. n : x = <<name, i, j, s[j]>>  BY AtIs
  <2>2. j \in 1 .. Len(u) /\ u[j] = s[j]  BY <1>1
  <2> QED  BY <1>1, <2>1, <2>2, AtIs
<1>4. <<name, i, n + 1, r>> \in At(name, i, u)
  <2>1. n + 1 \in 1 .. Len(u)  BY <1>1
  <2> QED  BY <1>1, <2>1, AtIs
<1> QED  BY <1>2, <1>3, <1>4 DEF u

\* The first record leaves, to place y.
LEMMA TailCarries ==
  ASSUME NEW S, NEW s \in Seq(S), s # <<>>, NEW name, NEW i, NEW y,
         y[4] = s[1], y \notin At(name, i, Tail(s))
  PROVE  Carries(At(name, i, s), At(name, i, Tail(s)) \cup {y})
<1> DEFINE t == Tail(s)
           P == At(name, i, s)
           Q == At(name, i, t)
           n == Len(s)
           f == [x \in P |-> IF x[3] = 1 THEN y ELSE <<name, i, x[3] - 1, x[4]>>]
<1>1. /\ n \in Nat /\ n > 0 /\ t \in Seq(S) /\ Len(t) = n - 1
      /\ \A j \in 1 .. n - 1 : t[j] = s[j + 1]
  OBVIOUS
<1> HIDE DEF t
<1>2. ASSUME NEW x \in P
      PROVE  /\ x[3] \in 1 .. n /\ x[4] = s[x[3]]
             /\ x = <<name, i, x[3], s[x[3]]>>
  <2>1. PICK j \in 1 .. Len(s) : x = <<name, i, j, s[j]>>  BY AtIs
  <2> QED  BY <2>1
<1>3. ASSUME NEW x \in P PROVE f[x] \in Q \cup {y} /\ f[x][4] = x[4]
  <2>1. CASE x[3] = 1  BY <1>2, <2>1
  <2>2. CASE x[3] # 1
    <3>1. x[3] - 1 \in 1 .. n - 1 /\ (x[3] - 1) + 1 = x[3]  BY <1>1, <1>2, <2>2
    <3>2. t[x[3] - 1] = x[4]  BY <1>1, <1>2, <3>1
    <3>3. f[x] = <<name, i, x[3] - 1, x[4]>>  BY <2>2
    <3>4. f[x] \in Q  BY <1>1, <3>1, <3>2, <3>3, AtIs
    <3> QED  BY <3>3, <3>4
  <2> QED  BY <2>1, <2>2
<1>4. f \in [P -> Q \cup {y}]  BY <1>3
<1>5. ASSUME NEW z \in Q \cup {y} PROVE \E x \in P : f[x] = z
  <2>1. CASE z = y
    <3> DEFINE x == <<name, i, 1, s[1]>>
    <3>1. x \in P /\ x[3] = 1
      <4>1. 1 \in 1 .. Len(s)  BY <1>1
      <4> QED  BY <4>1, AtIs
    <3> QED  BY <2>1, <3>1
  <2>2. CASE z \in Q
    <3>1. PICK j \in 1 .. Len(t) : z = <<name, i, j, t[j]>>  BY <1>1, <2>2, AtIs
    <3>2. /\ j + 1 \in 1 .. Len(s) /\ t[j] = s[j + 1] /\ j + 1 # 1
          /\ (j + 1) - 1 = j
      BY <1>1
    <3> DEFINE x == <<name, i, j + 1, s[j + 1]>>
    <3>3. x \in P /\ x[3] = j + 1 /\ x[4] = s[j + 1]  BY <3>2, AtIs
    <3>4. f[x] = z  BY <3>1, <3>2, <3>3
    <3> QED  BY <3>3, <3>4
  <2> QED  BY <2>1, <2>2
<1> HIDE DEF f, P, Q
<1>6. Takes(f, P, Q \cup {y})
  <2>1. ASSUME NEW z \in Q \cup {y}, NEW m \in z[4].ids
        PROVE  \E x \in P : f[x] = z /\ m \in x[4].ids
    <3>1. PICK x \in P : f[x] = z  BY <1>5
    <3>2. x[4] = z[4]  BY <1>3, <3>1
    <3> QED  BY <2>1, <3>1, <3>2
  <2> QED  BY <1>3, <1>4, <2>1 DEF Takes
<1> QED  BY <1>6 DEF Carries, P, Q, t

\* A sequence at the end of another.
LEMMA ConcatCarries ==
  ASSUME NEW S, NEW s \in Seq(S), NEW t \in Seq(S), NEW a, NEW b, NEW i,
         a # b
  PROVE  Carries(At(a, i, s) \cup At(b, i, t), At(b, i, t \o s))
<1> DEFINE P == At(a, i, s)
           B == At(b, i, t)
           u == t \o s
           Q == At(b, i, u)
           n == Len(t)
           f == [x \in P \cup B |-> IF x \in B THEN x
                                    ELSE <<b, i, x[3] + n, x[4]>>]
<1>1. /\ n \in Nat /\ Len(s) \in Nat /\ u \in Seq(S) /\ Len(u) = n + Len(s)
      /\ \A j \in 1 .. n : u[j] = t[j]
      /\ \A j \in 1 .. Len(s) : u[j + n] = s[j]
  OBVIOUS
<1> HIDE DEF u
<1>2. ASSUME NEW x \in B PROVE x \in Q
  <2>1. PICK j \in 1 .. n : x = <<b, i, j, t[j]>>  BY AtIs
  <2>2. j \in 1 .. Len(u) /\ u[j] = t[j]  BY <1>1
  <2> QED  BY <1>1, <2>1, <2>2, AtIs
<1>3. \A x \in P : x \notin B  BY AtNames
<1>4. ASSUME NEW x \in P PROVE f[x] \in Q /\ f[x][4] = x[4]
  <2>1. PICK j \in 1 .. Len(s) : x = <<a, i, j, s[j]>>  BY AtIs
  <2>2. x[3] = j /\ x[4] = s[j]  BY <2>1
  <2>3. f[x] = <<b, i, j + n, s[j]>>  BY <1>3, <2>2
  <2>4. j + n \in 1 .. Len(u) /\ u[j + n] = s[j]  BY <1>1
  <2>5. <<b, i, j + n, u[j + n]>> \in Q  BY <1>1, <2>4, AtIs
  <2> QED  BY <2>2, <2>3, <2>4, <2>5
<1>5. \A x \in B : f[x] = x  OBVIOUS
<1>6. f \in [P \cup B -> Q]  BY <1>2, <1>4, <1>5
<1>7. ASSUME NEW z \in Q PROVE \E x \in P \cup B : f[x] = z
  <2>1. PICK j \in 1 .. Len(u) : z = <<b, i, j, u[j]>>  BY <1>1, AtIs
  <2>2. CASE j \in 1 .. n
    <3>1. z \in B  BY <1>1, <2>1, <2>2, AtIs
    <3> QED  BY <1>5, <3>1
  <2>3. CASE j \notin 1 .. n
    <3>1. j - n \in 1 .. Len(s) /\ (j - n) + n = j  BY <1>1, <2>3
    <3> DEFINE k == j - n
               x == <<a, i, k, s[k]>>
    <3>2. k \in 1 .. Len(s) /\ k + n = j  BY <3>1
    <3> HIDE DEF k
    <3>3. x \in P /\ x[3] = k /\ x[4] = s[k]  BY <3>2, AtIs
    <3>4. f[x] = <<b, i, k + n, s[k]>>  BY <1>3, <3>3
    <3>5. u[j] = s[k]  BY <1>1, <3>2
    <3> QED  BY <2>1, <3>2, <3>3, <3>4, <3>5
  <2> QED  BY <2>2, <2>3
<1> HIDE DEF f, P, B, Q
<1>8. Takes(f, P \cup B, Q)
  <2>1. ASSUME NEW x \in P \cup B PROVE f[x][4] = x[4]  BY <1>4, <1>5
  <2>2. ASSUME NEW z \in Q, NEW m \in z[4].ids
        PROVE  \E x \in P \cup B : f[x] = z /\ m \in x[4].ids
    <3>1. PICK x \in P \cup B : f[x] = z  BY <1>7
    <3>2. x[4] = z[4]  BY <2>1, <3>1
    <3> QED  BY <2>2, <3>1, <3>2
  <2> QED  BY <1>6, <2>1, <2>2 DEF Takes
<1> QED  BY <1>8 DEF Carries, P, B, Q, u

\* A sorted iterator has every record of the collection once.
LEMMA SortedIteratorIs ==
  ASSUME NEW c \in SUBSET Rec, IsFiniteSet(c), NEW cmp,
         NEW s \in SortedIterators(c, cmp)
  PROVE  /\ s \in Seq(Rec)
         /\ \A i \in 1 .. Len(s) : s[i] \in c
         /\ \A r \in c : \E i \in 1 .. Len(s) : s[i] = r
         /\ \A i, j \in 1 .. Len(s) : i # j => s[i] # s[j]
         /\ \A i, j \in 1 .. Len(s) : i < j => NotAfter(s[i], s[j], cmp)
<1> DEFINE n == Cardinality(c)
           D == 1 .. n
<1>1. n \in Nat  BY FS_CardinalityType
<1>2. s \in [D -> c] /\ \A i, j \in D : i # j => s[i] # s[j]
  BY DEF SortedIterators, SetToSeqs
<1> HIDE DEF n
<1>3. s \in Seq(Rec) /\ Len(s) = n  BY <1>1, <1>2
<1>4. s \in Injection(D, c)  BY <1>2, Zenon DEF Injection, IsInjective
<1>5. IsFiniteSet(D) /\ Cardinality(D) = n
  BY <1>1, FS_Interval
<1>6. s \in Surjection(D, c)  BY <1>4, <1>5, FS_Injection DEF n
<1>7. \A r \in c : \E i \in D : s[i] = r  BY <1>6 DEF Surjection
<1>8. \A i, j \in 1 .. Len(s) : i < j => NotAfter(s[i], s[j], cmp)
  BY DEF SortedIterators
<1> QED  BY <1>2, <1>3, <1>7, <1>8

\* The records of a collection move to a sequence that has each of them once.
LEMMA CollCarries ==
  ASSUME NEW c \in SUBSET Rec, NEW s \in Seq(Rec), NEW name, NEW k,
         \A i \in 1 .. Len(s) : s[i] \in c,
         \A r \in c : \E i \in 1 .. Len(s) : s[i] = r,
         \A i, j \in 1 .. Len(s) : i # j => s[i] # s[j]
  PROVE  Carries(CollPlaces(c), At(name, k, s))
<1> DEFINE P == CollPlaces(c)
           Q == At(name, k, s)
           pos == [r \in c |-> CHOOSE i \in 1 .. Len(s) : s[i] = r]
           f == [x \in P |-> <<name, k, pos[x[4]], x[4]>>]
<1>1. ASSUME NEW r \in c PROVE pos[r] \in 1 .. Len(s) /\ s[pos[r]] = r
  OBVIOUS
<1> HIDE DEF pos
<1>2. ASSUME NEW x \in P PROVE x[4] \in c /\ x = <<"coll", 0, 0, x[4]>>
  <2>1. PICK r \in c : x = <<"coll", 0, 0, r>>  BY DEF CollPlaces
  <2> QED  BY <2>1
<1>3. ASSUME NEW x \in P PROVE f[x] \in Q /\ f[x][4] = x[4]
  <2>1. pos[x[4]] \in 1 .. Len(s) /\ s[pos[x[4]]] = x[4]  BY <1>1, <1>2
  <2>2. f[x] = <<name, k, pos[x[4]], s[pos[x[4]]]>>  BY <2>1
  <2> QED  BY <2>1, <2>2, AtIs
<1>4. f \in [P -> Q]  BY <1>3
<1>5. ASSUME NEW z \in Q PROVE \E x \in P : f[x] = z
  <2>1. PICK j \in 1 .. Len(s) : z = <<name, k, j, s[j]>>  BY AtIs
  <2> DEFINE x == <<"coll", 0, 0, s[j]>>
  <2>2. x \in P /\ x[4] = s[j]  BY DEF CollPlaces
  <2>3. pos[s[j]] = j  BY <1>1
  <2> QED  BY <2>1, <2>2, <2>3
<1> HIDE DEF f, P, Q
<1>6. Takes(f, P, Q)
  <2>1. ASSUME NEW z \in Q, NEW m \in z[4].ids
        PROVE  \E x \in P : f[x] = z /\ m \in x[4].ids
    <3>1. PICK x \in P : f[x] = z  BY <1>5
    <3>2. x[4] = z[4]  BY <1>3, <3>1
    <3> QED  BY <2>1, <3>1, <3>2
  <2> QED  BY <1>3, <1>4, <2>1 DEF Takes
<1> QED  BY <1>6 DEF Carries, P, Q

\* At most one record of a collection has a given key.
UniqueKeys(c) == \A x, y \in c : x.key = y.key => x = y

\* A record joins another one of its key.
LEMMA JoinRec ==
  ASSUME NEW x \in Rec, NEW r \in Rec
  PROVE  LET y == [x EXCEPT !.ids = @ \cup r.ids]
         IN  y \in Rec /\ y.key = x.key /\ y.ids = x.ids \cup r.ids
  BY DEF Rec

\* Inserting a record into the collection keeps it and the others.
LEMMA InsertCarries ==
  ASSUME NEW c \in SUBSET Rec, NEW r \in Rec, Aggregate => UniqueKeys(c)
  PROVE  /\ InsertInto(c, r) \in SUBSET Rec
         /\ Aggregate => UniqueKeys(InsertInto(c, r))
         /\ IsFiniteSet(c) => IsFiniteSet(InsertInto(c, r))
         /\ Carries(CollPlaces(c) \cup {<<"new", 0, 0, r>>},
                    CollPlaces(InsertInto(c, r)))
<1> DEFINE d == InsertInto(c, r)
           P == CollPlaces(c)
           w == <<"new", 0, 0, r>>
<1>1. ASSUME NEW x \in P PROVE x[4] \in c /\ x = <<"coll", 0, 0, x[4]>>
  <2>1. PICK q \in c : x = <<"coll", 0, 0, q>>  BY DEF CollPlaces
  <2> QED  BY <2>1
<1>2. w[4] = r /\ w \notin P  BY <1>1
<1>3. CASE ~(Aggregate /\ \E x \in c : x.key = r.key)
  <2>1. d = c \cup {r}  BY <1>3 DEF InsertInto
  <2>2. CollPlaces(d) = P \cup {<<"coll", 0, 0, r>>}
    BY <2>1 DEF CollPlaces
  <2>3. Carries(P \cup {w}, P \cup {<<"coll", 0, 0, r>>})
    <3>1. <<"coll", 0, 0, r>>[4] = r  OBVIOUS
    <3> HIDE DEF w, P
    <3> QED  BY <1>2, <3>1, CarriesOne
  <2>4. Aggregate => UniqueKeys(d)  BY <1>3, <2>1 DEF UniqueKeys
  <2>5. IsFiniteSet(c) => IsFiniteSet(d)  BY <2>1, FS_AddElement
  <2> QED  BY <2>1, <2>2, <2>3, <2>4, <2>5
<1>4. CASE Aggregate /\ \E x \in c : x.key = r.key
  <2> DEFINE J(x) == IF x.key = r.key THEN [x EXCEPT !.ids = @ \cup r.ids]
                     ELSE x
  <2>1. d = {J(x) : x \in c}  BY <1>4 DEF InsertInto
  <2>2. ASSUME NEW x \in c
        PROVE  /\ J(x) \in Rec /\ J(x).key = x.key
               /\ J(x).ids = IF x.key = r.key THEN x.ids \cup r.ids ELSE x.ids
    BY JoinRec
  <2> HIDE DEF J
  <2>3. UniqueKeys(c)  BY <1>4
  <2>4. UniqueKeys(d)
    <3>1. ASSUME NEW x \in d, NEW y \in d, x.key = y.key PROVE x = y
      <4>1. PICK a \in c : x = J(a)  BY <2>1
      <4>2. PICK b \in c : y = J(b)  BY <2>1
      <4>3. a.key = x.key /\ b.key = y.key  BY <2>2, <4>1, <4>2
      <4>4. a.key = b.key  BY <3>1, <4>3
      <4>5. a = b  BY <2>3, <4>4 DEF UniqueKeys
      <4> QED  BY <4>1, <4>2, <4>5
    <3> QED  BY <3>1 DEF UniqueKeys
  <2>5. d \in SUBSET Rec  BY <2>1, <2>2
  <2>6. IsFiniteSet(c) => IsFiniteSet(d)
    <3> HAVE IsFiniteSet(c)
    <3> DEFINE g == [x \in c |-> J(x)]
    <3>1. g \in Surjection(c, d)  BY <2>1 DEF Surjection
    <3> QED  BY <3>1, FS_Surjection
  <2>7. PICK a \in c : a.key = r.key  BY <1>4
  <2> DEFINE Q == CollPlaces(d)
             f == [x \in P \cup {w} |-> <<"coll", 0, 0,
                                          IF x \in P THEN J(x[4]) ELSE J(a)>>]
  <2>8. ASSUME NEW x \in P
        PROVE  f[x] = <<"coll", 0, 0, J(x[4])>> /\ f[x] \in Q /\ f[x][4] = J(x[4])
    <3>1. f[x] = <<"coll", 0, 0, J(x[4])>>  OBVIOUS
    <3>2. J(x[4]) \in d  BY <1>1, <2>1
    <3> QED  BY <3>1, <3>2 DEF CollPlaces
  <2>9. f[w] = <<"coll", 0, 0, J(a)>> /\ f[w] \in Q /\ f[w][4] = J(a)
    <3>1. f[w] = <<"coll", 0, 0, J(a)>>  BY <1>2
    <3>2. J(a) \in d  BY <2>1
    <3> QED  BY <3>1, <3>2 DEF CollPlaces
  <2>10. f \in [P \cup {w} -> Q]
    <3>1. \A x \in P \cup {w} : f[x] \in Q  BY <2>8, <2>9
    <3> QED  BY <3>1
  <2>11. ASSUME NEW z \in Q
         PROVE  \E b \in c : z = <<"coll", 0, 0, J(b)>> /\ z[4] = J(b)
    <3>1. PICK q \in d : z = <<"coll", 0, 0, q>>  BY DEF CollPlaces
    <3>2. PICK b \in c : q = J(b)  BY <2>1
    <3> QED  BY <3>1, <3>2
  <2>12. ASSUME NEW b \in c
         PROVE  LET x == <<"coll", 0, 0, b>> IN x \in P /\ x[4] = b
    BY DEF CollPlaces
  <2> HIDE DEF f, P, Q, w, d
  <2>13. ASSUME NEW x \in P \cup {w}
         PROVE  /\ x[4].key = f[x][4].key
                /\ \A m \in x[4].ids : m \in f[x][4].ids
    <3>1. CASE x \in P  BY <1>1, <2>2, <2>8, <3>1
    <3>2. CASE x = w  BY <1>2, <2>2, <2>7, <2>9, <3>2
    <3> QED  BY <3>1, <3>2
  <2>14. ASSUME NEW z \in Q, NEW m \in z[4].ids
         PROVE  \E x \in P \cup {w} : f[x] = z /\ m \in x[4].ids
    <3>1. PICK b \in c : z = <<"coll", 0, 0, J(b)>> /\ z[4] = J(b)  BY <2>11
    <3> DEFINE x == <<"coll", 0, 0, b>>
    <3>2. x \in P /\ x[4] = b  BY <2>12
    <3> HIDE DEF x
    <3>3. CASE m \in b.ids  BY <2>8, <3>1, <3>2, <3>3
    <3>4. CASE m \notin b.ids
      <4>1. b.key = r.key /\ m \in r.ids  BY <2>2, <2>14, <3>1, <3>4
      <4>2. b = a  BY <2>3, <2>7, <4>1 DEF UniqueKeys
      <4>3. f[w] = z /\ m \in w[4].ids  BY <1>2, <2>9, <3>1, <4>1, <4>2
      <4> QED  BY <4>3
    <3> QED  BY <3>3, <3>4
  <2>15. Takes(f, P \cup {w}, Q)  BY <2>10, <2>13, <2>14 DEF Takes
  <2> QED  BY <2>4, <2>5, <2>6, <2>15 DEF Carries, P, Q, w, d
<1> QED  BY <1>3, <1>4

\* The keys of the elements of g are different.
KeysDiffer(g) == \A i, j \in DOMAIN g : g[i].key = g[j].key => i = j

\* A record joins the group.
LEMMA JoinedCarries ==
  ASSUME NEW g \in Seq(Rec), NEW r \in Rec, KeysDiffer(g)
  PROVE  /\ Joined(g, r) \in Seq(Rec)
         /\ KeysDiffer(Joined(g, r))
         /\ Joined(g, r) # <<>>
         /\ \A i \in DOMAIN Joined(g, r) :
              \/ Joined(g, r)[i].key = r.key
              \/ \E j \in DOMAIN g : Joined(g, r)[i].key = g[j].key
         /\ Carries(At("group", 0, g) \cup {<<"new", 0, 0, r>>},
                    At("group", 0, Joined(g, r)))
<1> DEFINE d == Joined(g, r)
           P == At("group", 0, g)
           w == <<"new", 0, 0, r>>
           Q == At("group", 0, d)
<1>0. Len(g) \in Nat /\ DOMAIN g = 1 .. Len(g)  OBVIOUS
<1>1. w[4] = r /\ w \notin P
  <2>1. w[4] = r /\ w[1] = "new"  OBVIOUS
  <2>2. \A x \in P : x[1] = "group"  BY AtNames
  <2> QED  BY <2>1, <2>2
<1>2. CASE ~\E i \in DOMAIN g : g[i].key = r.key
  <2>1. d = Append(g, r)  BY <1>2 DEF Joined
  <2>2. /\ d \in Seq(Rec) /\ Len(d) = Len(g) + 1 /\ DOMAIN d = 1 .. Len(g) + 1
        /\ d[Len(g) + 1] = r /\ \A i \in 1 .. Len(g) : d[i] = g[i]
    BY <2>1
  <2>3. Q = P \cup {<<"group", 0, Len(g) + 1, r>>}  BY <2>1, AtAppend
  <2> HIDE DEF d
  <2>4. Carries(P \cup {w}, P \cup {<<"group", 0, Len(g) + 1, r>>})
    <3>1. <<"group", 0, Len(g) + 1, r>>[4] = r  OBVIOUS
    <3> HIDE DEF w, P
    <3> QED  BY <1>1, <3>1, CarriesOne
  <2>5. KeysDiffer(d)
    <3>1. ASSUME NEW i \in DOMAIN d, NEW j \in DOMAIN d, d[i].key = d[j].key
          PROVE  i = j
      <4>1. CASE i = Len(g) + 1 /\ j = Len(g) + 1  BY <4>1
      <4>2. CASE i # Len(g) + 1 /\ j # Len(g) + 1
        <5>1. i \in 1 .. Len(g) /\ j \in 1 .. Len(g)  BY <1>0, <2>2, <4>2
        <5> QED  BY <1>0, <2>2, <3>1, <5>1 DEF KeysDiffer
      <4>3. CASE i = Len(g) + 1 /\ j # Len(g) + 1
        <5>1. j \in 1 .. Len(g)  BY <1>0, <2>2, <4>3
        <5> QED  BY <1>0, <1>2, <2>2, <3>1, <4>3, <5>1
      <4>4. CASE i # Len(g) + 1 /\ j = Len(g) + 1
        <5>1. i \in 1 .. Len(g)  BY <1>0, <2>2, <4>4
        <5> QED  BY <1>0, <1>2, <2>2, <3>1, <4>4, <5>1
      <4> QED  BY <4>1, <4>2, <4>3, <4>4
    <3> QED  BY <3>1 DEF KeysDiffer
  <2>6. d # <<>>  BY <1>0, <2>2
  <2>7. \A i \in DOMAIN d : \/ d[i].key = r.key
                            \/ \E j \in DOMAIN g : d[i].key = g[j].key
    <3> TAKE i \in DOMAIN d
    <3>1. CASE i = Len(g) + 1  BY <2>2, <3>1
    <3>2. CASE i # Len(g) + 1
      <4>1. i \in 1 .. Len(g)  BY <1>0, <2>2, <3>2
      <4> QED  BY <1>0, <2>2, <4>1
    <3> QED  BY <3>1, <3>2
  <2> QED  BY <2>2, <2>3, <2>4, <2>5, <2>6, <2>7 DEF d
<1>3. CASE \E i \in DOMAIN g : g[i].key = r.key
  <2>1. d = [i \in DOMAIN g |-> IF g[i].key = r.key
                                  THEN [g[i] EXCEPT !.ids = @ \cup r.ids]
                                  ELSE g[i]]
    BY <1>3 DEF Joined
  <2>2. ASSUME NEW i \in 1 .. Len(g)
        PROVE  /\ d[i] \in Rec /\ d[i].key = g[i].key
               /\ d[i].ids = IF g[i].key = r.key THEN g[i].ids \cup r.ids
                             ELSE g[i].ids
    BY <1>0, <2>1, JoinRec
  <2>3. DOMAIN d = 1 .. Len(g)  BY <1>0, <2>1
  <2>4. d \in [1 .. Len(g) -> Rec]  BY <1>0, <2>1, <2>2
  <2>5. d \in Seq(Rec) /\ Len(d) = Len(g)  BY <1>0, <2>4
  <2>6. PICK a \in 1 .. Len(g) : g[a].key = r.key  BY <1>0, <1>3
  <2> HIDE DEF d
  <2>7. KeysDiffer(d)
    <3>1. ASSUME NEW i \in DOMAIN d, NEW j \in DOMAIN d, d[i].key = d[j].key
          PROVE  i = j
      BY <1>0, <2>2, <2>3, <3>1 DEF KeysDiffer
    <3> QED  BY <3>1 DEF KeysDiffer
  <2>8. d # <<>>  BY <1>0, <2>5, <2>6
  <2>9. \A i \in DOMAIN d : \E j \in DOMAIN g : d[i].key = g[j].key
    BY <1>0, <2>2, <2>3
  <2> DEFINE f == [x \in P \cup {w} |-> IF x \in P
                                          THEN <<"group", 0, x[3], d[x[3]]>>
                                          ELSE <<"group", 0, a, d[a]>>]
  <2>10. ASSUME NEW x \in P
         PROVE  /\ x[3] \in 1 .. Len(g) /\ x[4] = g[x[3]]
                /\ f[x] = <<"group", 0, x[3], d[x[3]]>>
                /\ f[x] \in Q /\ f[x][4] = d[x[3]]
    <3>1. x[3] \in 1 .. Len(g) /\ x[4] = g[x[3]]  BY AtNames
    <3>2. f[x] = <<"group", 0, x[3], d[x[3]]>>  OBVIOUS
    <3>3. f[x] \in Q  BY <2>5, <3>1, <3>2, AtIs
    <3> QED  BY <3>1, <3>2, <3>3
  <2>11. f[w] = <<"group", 0, a, d[a]>> /\ f[w] \in Q /\ f[w][4] = d[a]
    <3>1. f[w] = <<"group", 0, a, d[a]>>  BY <1>1
    <3>2. f[w] \in Q  BY <2>5, <3>1, AtIs
    <3> QED  BY <3>1, <3>2
  <2>12. f \in [P \cup {w} -> Q]
    <3>1. \A x \in P \cup {w} : f[x] \in Q  BY <2>10, <2>11
    <3> QED  BY <3>1
  <2>13. ASSUME NEW z \in Q
         PROVE  \E b \in 1 .. Len(g) : z = <<"group", 0, b, d[b]>> /\ z[4] = d[b]
    <3>1. PICK b \in 1 .. Len(d) : z = <<"group", 0, b, d[b]>>  BY <2>5, AtIs
    <3> QED  BY <2>5, <3>1
  <2>14. ASSUME NEW b \in 1 .. Len(g)
         PROVE  LET x == <<"group", 0, b, g[b]>>
                IN  x \in P /\ x[3] = b /\ x[4] = g[b]
    BY AtIs
  <2> HIDE DEF f, P, Q, w
  <2>15. ASSUME NEW x \in P \cup {w}
         PROVE  /\ x[4].key = f[x][4].key
                /\ \A m \in x[4].ids : m \in f[x][4].ids
    <3>1. CASE x \in P  BY <2>2, <2>10, <3>1
    <3>2. CASE x = w
      <4>1. w[4] = r  BY <1>1
      <4>2. f[w][4].key = r.key /\ f[w][4].ids = g[a].ids \cup r.ids
        BY <2>2, <2>6, <2>11
      <4> QED  BY <3>2, <4>1, <4>2
    <3> QED  BY <3>1, <3>2
  <2>16. ASSUME NEW z \in Q, NEW m \in z[4].ids
         PROVE  \E x \in P \cup {w} : f[x] = z /\ m \in x[4].ids
    <3>1. PICK b \in 1 .. Len(g) : z = <<"group", 0, b, d[b]>> /\ z[4] = d[b]
      BY <2>13
    <3> DEFINE x == <<"group", 0, b, g[b]>>
    <3>2. x \in P /\ x[3] = b /\ x[4] = g[b]  BY <2>14
    <3> HIDE DEF x
    <3>3. CASE m \in g[b].ids  BY <2>10, <3>1, <3>2, <3>3
    <3>4. CASE m \notin g[b].ids
      <4>1. g[b].key = r.key /\ m \in r.ids  BY <2>2, <2>16, <3>1, <3>4
      <4>2. b = a  BY <1>0, <2>6, <4>1 DEF KeysDiffer
      <4>3. f[w] = z /\ m \in w[4].ids  BY <1>1, <2>11, <3>1, <4>1, <4>2
      <4> QED  BY <4>3
    <3> QED  BY <3>3, <3>4
  <2>17. Takes(f, P \cup {w}, Q)  BY <2>12, <2>15, <2>16 DEF Takes
  <2> QED  BY <2>5, <2>7, <2>8, <2>9, <2>17 DEF Carries, P, Q, w, d
<1> QED  BY <1>2, <1>3

-----------------------------------------------------------------------------
(***************************************************************************)
(* The streams and the spill.                                              *)
(***************************************************************************)
Streams == Seq(Seq(Rec))

\* The places of the streams other than i.
OtherPlaces(o, i) == UNION {At("stream", j, o[j]) : j \in DOMAIN o \ {i}}

\* A place of the streams.
LEMMA StreamPlaceIs ==
  ASSUME NEW o \in Streams
  PROVE  \A x : x \in StreamPlaces(o) <=>
                  \E i \in 1 .. Len(o) : x \in At("stream", i, o[i])
<1>1. DOMAIN o = 1 .. Len(o)  BY DEF Streams
<1> QED  BY <1>1 DEF StreamPlaces

\* The name of a place of the streams.
LEMMA StreamPlaceNames ==
  ASSUME NEW o \in Streams, NEW x \in StreamPlaces(o)
  PROVE  x[1] = "stream" /\ x[2] \in 1 .. Len(o)
<1>1. PICK i \in 1 .. Len(o) : x \in At("stream", i, o[i])  BY StreamPlaceIs
<1>2. o[i] \in Seq(Rec)  BY DEF Streams
<1> QED  BY <1>1, <1>2, AtNames

\* u is o with t for stream i.
Replaces(o, i, t, u) ==
  /\ u \in Streams /\ Len(u) = Len(o) /\ u[i] = t
  /\ \A j \in 1 .. Len(o) : j # i => u[j] = o[j]

\* What EXCEPT makes of streams.
LEMMA ReplacesExcept ==
  ASSUME NEW o \in Streams, NEW i \in 1 .. Len(o), NEW t \in Seq(Rec)
  PROVE  Replaces(o, i, t, [o EXCEPT ![i] = t])
  BY DEF Streams, Replaces

\* The streams when stream i is changed.
LEMMA StreamReplace ==
  ASSUME NEW o \in Streams, NEW i \in 1 .. Len(o), NEW t \in Seq(Rec), NEW u,
         Replaces(o, i, t, u)
  PROVE  /\ StreamPlaces(o) = At("stream", i, o[i]) \cup OtherPlaces(o, i)
         /\ StreamPlaces(u) = At("stream", i, t) \cup OtherPlaces(o, i)
         /\ \A x \in OtherPlaces(o, i) : x[1] = "stream" /\ x[2] # i
<1>1. DOMAIN o = 1 .. Len(o) /\ \A j \in 1 .. Len(o) : o[j] \in Seq(Rec)
  BY DEF Streams
<1>2. /\ u \in Streams /\ Len(u) = Len(o) /\ u[i] = t
      /\ \A j \in 1 .. Len(o) : j # i => u[j] = o[j]
  BY DEF Replaces
<1>3. DOMAIN u = 1 .. Len(o)  BY <1>2 DEF Streams
<1>4. StreamPlaces(o) = At("stream", i, o[i]) \cup OtherPlaces(o, i)
  BY <1>1 DEF StreamPlaces, OtherPlaces
<1>5. OtherPlaces(u, i) = OtherPlaces(o, i)
  <2>1. ASSUME NEW j \in (1 .. Len(o)) \ {i} PROVE u[j] = o[j]  BY <1>2
  <2> QED  BY <1>1, <1>3, <2>1 DEF OtherPlaces
<1>6. StreamPlaces(u) = At("stream", i, u[i]) \cup OtherPlaces(u, i)
  BY <1>3 DEF StreamPlaces, OtherPlaces
<1>7. ASSUME NEW x \in OtherPlaces(o, i) PROVE x[1] = "stream" /\ x[2] # i
  <2>1. PICK j \in DOMAIN o \ {i} : x \in At("stream", j, o[j])
    BY DEF OtherPlaces
  <2>2. o[j] \in Seq(Rec) /\ j # i  BY <1>1, <2>1
  <2>3. x[1] = "stream" /\ x[2] = j  BY <2>1, <2>2, AtNames
  <2> QED  BY <2>2, <2>3
<1> QED  BY <1>2, <1>4, <1>5, <1>6, <1>7

\* A new stream.
LEMMA StreamNew ==
  ASSUME NEW o \in Streams, NEW t \in Seq(Rec)
  PROVE  LET u == Append(o, t)
         IN  /\ u \in Streams /\ Len(u) = Len(o) + 1 /\ u[Len(o) + 1] = t
             /\ \A j \in 1 .. Len(o) : u[j] = o[j]
             /\ StreamPlaces(u) =
                  StreamPlaces(o) \cup At("stream", Len(o) + 1, t)
<1> DEFINE u == Append(o, t)
           n == Len(o)
<1>1. DOMAIN o = 1 .. n /\ n \in Nat  BY DEF Streams
<1>2. /\ u \in Streams /\ Len(u) = n + 1 /\ u[n + 1] = t
      /\ \A j \in 1 .. n : u[j] = o[j]
  BY DEF Streams
<1> HIDE DEF u, n
<1>3. DOMAIN u = 1 .. n + 1  BY <1>2 DEF Streams
<1>4. \A j : j \in 1 .. n + 1 <=> (j \in 1 .. n \/ j = n + 1)  BY <1>1
<1>5. ASSUME NEW x
      PROVE  x \in StreamPlaces(u) <=>
               (x \in StreamPlaces(o) \/ x \in At("stream", n + 1, t))
  <2>1. x \in StreamPlaces(u) <=>
          \E j \in 1 .. n + 1 : x \in At("stream", j, u[j])
    BY <1>2, StreamPlaceIs
  <2>2. x \in StreamPlaces(o) <=> \E j \in 1 .. n : x \in At("stream", j, o[j])
    BY StreamPlaceIs DEF n
  <2>3. \A j \in 1 .. n : At("stream", j, u[j]) = At("stream", j, o[j])
    BY <1>2
  <2> QED  BY <1>2, <1>4, <2>1, <2>2, <2>3
<1>6. StreamPlaces(u) = StreamPlaces(o) \cup At("stream", n + 1, t)
  BY <1>5
<1> QED  BY <1>2, <1>6 DEF u, n

-----------------------------------------------------------------------------
\* What StreamsWellFormed says, of any streams.
StreamOk(t, i) ==
  /\ Stage = "map" => \A n \in DOMAIN t : PartitionOf(t[n].key) = i - 1
  /\ Stage = "reduce" =>
       /\ t # <<>>
       /\ \A m, n \in DOMAIN t :
            /\ PartitionOf(t[m].key) = PartitionOf(t[n].key)
            /\ m < n => NotAfter(t[m], t[n], Ordering \/ Aggregate)
WellFormed(o) == \A i \in DOMAIN o : StreamOk(o[i], i)

\* A map task has one stream for each partition.
StreamPerPartition(o) == Stage = "map" => Len(o) = NumPartitions

\* The last stream has records of the first n of s, of the partition of s[n].
LastStream(o, s, n) ==
  /\ Len(o) > 0
  /\ \A m \in DOMAIN o[Len(o)] :
       /\ \E j \in 1 .. n : o[Len(o)][m] = s[j]
       /\ PartitionOf(o[Len(o)][m].key) = PartitionOf(s[n].key)

\* What remains to be written when n records are.
RestPlaces(s, n) == {<<"rest", 0, j, s[j]>> : j \in n + 1 .. Len(s)}

\* The streams o, when the first n records of s have been written to streams
\* that were first.
LoopOk(first, o, s, n) ==
  /\ o \in Streams
  /\ WellFormed(o)
  /\ StreamPerPartition(o)
  /\ Stage = "reduce" /\ n > 0 => LastStream(o, s, n)
  /\ Carries(StreamPlaces(first) \cup RestPlaces(s, 0),
             StreamPlaces(o) \cup RestPlaces(s, n))

\* What is known of the mode.
ModeOk == mode \in Modes

\* The values that the mode gives.
LEMMA ModeValues ==
  ASSUME ModeOk
  PROVE  /\ Stage \in {"map", "reduce"} /\ Ordering \in BOOLEAN
         /\ Aggregate \in BOOLEAN /\ NumPartitions \in Nat /\ NumPartitions > 0
         /\ \A k \in Keys : PartitionOf(k) \in 0 .. NumPartitions - 1
         /\ \A k \in Keys : Rank(k) \in Nat
<1>1. /\ mode.stage \in {"map", "reduce"}
      /\ mode.ordering \in BOOLEAN /\ mode.aggregate \in BOOLEAN
      /\ mode.partitions \in Nat \ {0}
      /\ Partitioner[mode.partitions] \in [Keys -> 0 .. mode.partitions - 1]
  BY SorterAssumption DEF ModeOk
<1>2. \A k \in Keys : PartitionOf(k) \in 0 .. NumPartitions - 1
  BY <1>1 DEF PartitionOf, NumPartitions
<1>3. \A k \in Keys : Rank(k) \in Nat  BY SorterAssumption DEF Rank
<1>4. NumPartitions \in Nat /\ NumPartitions > 0  BY <1>1 DEF NumPartitions
<1> QED  BY <1>1, <1>2, <1>3, <1>4 DEF Stage, Ordering, Aggregate

\* The parts of a record.
LEMMA RecParts ==
  ASSUME NEW r \in Rec
  PROVE  r.key \in Keys /\ r.ids \in SUBSET Nat
  BY DEF Rec

\* The record that is written leaves what remains.
LEMMA RestStep ==
  ASSUME NEW s \in Seq(Rec), NEW n \in 1 .. Len(s)
  PROVE  LET x == <<"rest", 0, n, s[n]>>
         IN  /\ RestPlaces(s, n - 1) = RestPlaces(s, n) \cup {x}
             /\ x \notin RestPlaces(s, n)
             /\ x[1] = "rest" /\ x[4] = s[n]
<1> DEFINE x == <<"rest", 0, n, s[n]>>
<1>1. Len(s) \in Nat /\ (n - 1) + 1 = n  OBVIOUS
<1>2. \A j : j \in n .. Len(s) <=> (j \in n + 1 .. Len(s) \/ j = n)  BY <1>1
<1>3. RestPlaces(s, n - 1) = {<<"rest", 0, j, s[j]>> : j \in n .. Len(s)}
  BY <1>1 DEF RestPlaces
<1>4. RestPlaces(s, n - 1) = RestPlaces(s, n) \cup {x}
  BY <1>2, <1>3 DEF RestPlaces
<1>5. x[3] = n /\ x[1] = "rest" /\ x[4] = s[n]  OBVIOUS
<1>6. ASSUME x \in RestPlaces(s, n) PROVE FALSE
  <2>1. PICK j \in n + 1 .. Len(s) : x = <<"rest", 0, j, s[j]>>
    BY <1>6 DEF RestPlaces
  <2>2. x[3] = j  BY <2>1
  <2> QED  BY <1>1, <1>5, <2>2
<1> QED  BY <1>4, <1>5, <1>6

\* One record is written: the cases of WriteNext.
LEMMA WriteCases ==
  ASSUME NEW o \in Streams, NEW s \in Seq(Rec), NEW n \in 1 .. Len(s), ModeOk,
         StreamPerPartition(o), Stage = "reduce" /\ n > 1 => Len(o) > 0
  PROVE  LET p == PartitionOf(s[n].key)
             changed == n = 1 \/ PartitionOf(s[n - 1].key) # p
         IN  \/ /\ Stage = "map" /\ p + 1 \in 1 .. Len(o)
                /\ WriteNext(o, s, n) =
                     [o EXCEPT ![p + 1] = Append(o[p + 1], s[n])]
             \/ /\ Stage = "reduce" /\ changed
                /\ WriteNext(o, s, n) = Append(o, <<s[n]>>)
             \/ /\ Stage = "reduce" /\ ~changed /\ Len(o) \in 1 .. Len(o)
                /\ WriteNext(o, s, n) =
                     [o EXCEPT ![Len(o)] = Append(o[Len(o)], s[n])]
<1> DEFINE p == PartitionOf(s[n].key)
           changed == n = 1 \/ PartitionOf(s[n - 1].key) # p
<1>0. s[n] \in Rec  OBVIOUS
<1>1. s[n].key \in Keys  BY <1>0, RecParts
<1>2. p \in 0 .. NumPartitions - 1 /\ NumPartitions \in Nat
      /\ Stage \in {"map", "reduce"}
  BY <1>1, ModeValues
<1>3. Len(o) \in Nat /\ DOMAIN o = 1 .. Len(o)  BY DEF Streams
<1>4. WriteNext(o, s, n) =
        IF Stage = "map" THEN [o EXCEPT ![p + 1] = Append(o[p + 1], s[n])]
        ELSE IF changed THEN Append(o, <<s[n]>>)
        ELSE [o EXCEPT ![Len(o)] = Append(o[Len(o)], s[n])]
  BY DEF WriteNext
<1> HIDE DEF p
<1>5. CASE Stage = "map"
  <2>1. p + 1 \in 1 .. Len(o)  BY <1>2, <1>5 DEF StreamPerPartition
  <2> QED  BY <1>4, <1>5, <2>1 DEF p
<1>6. CASE Stage = "reduce" /\ changed  BY <1>4, <1>6 DEF p
<1>7. CASE Stage = "reduce" /\ ~changed
  <2>1. Len(o) \in 1 .. Len(o)  BY <1>3, <1>7
  <2> QED  BY <1>4, <1>7, <2>1 DEF p
<1> QED  BY <1>2, <1>5, <1>6, <1>7

\* It has a new place in the streams.
LEMMA WritePlaces ==
  ASSUME NEW o \in Streams, NEW s \in Seq(Rec), NEW n \in 1 .. Len(s), ModeOk,
         StreamPerPartition(o), Stage = "reduce" /\ n > 1 => Len(o) > 0
  PROVE  /\ WriteNext(o, s, n) \in Streams
         /\ \E y : /\ y[1] = "stream" /\ y[4] = s[n]
                   /\ StreamPlaces(WriteNext(o, s, n)) = StreamPlaces(o) \cup {y}
<1> DEFINE u == WriteNext(o, s, n)
<1>1. s[n] \in Rec  OBVIOUS
<1>2. ASSUME NEW i \in 1 .. Len(o), u = [o EXCEPT ![i] = Append(o[i], s[n])]
      PROVE  /\ u \in Streams
             /\ \E y : /\ y[1] = "stream" /\ y[4] = s[n]
                       /\ StreamPlaces(u) = StreamPlaces(o) \cup {y}
  <2>1. o[i] \in Seq(Rec)  BY DEF Streams
  <2> DEFINE t == Append(o[i], s[n])
             y == <<"stream", i, Len(o[i]) + 1, s[n]>>
  <2>2. t \in Seq(Rec)  BY <1>1, <2>1
  <2>3. At("stream", i, t) = At("stream", i, o[i]) \cup {y}
    BY <1>1, <2>1, AtAppend
  <2>4. y[1] = "stream" /\ y[4] = s[n]  OBVIOUS
  <2>5. u = [o EXCEPT ![i] = t]  BY <1>2
  <2> HIDE DEF t, y, u
  <2>8. Replaces(o, i, t, u)  BY <2>2, <2>5, ReplacesExcept
  <2>6. /\ u \in Streams
        /\ StreamPlaces(o) = At("stream", i, o[i]) \cup OtherPlaces(o, i)
        /\ StreamPlaces(u) = At("stream", i, t) \cup OtherPlaces(o, i)
    <3>1. u \in Streams  BY <2>8 DEF Replaces
    <3> QED  BY <2>2, <2>8, <3>1, StreamReplace
  <2>7. StreamPlaces(u) = StreamPlaces(o) \cup {y}  BY <2>3, <2>6
  <2> QED  BY <2>4, <2>6, <2>7
<1>3. ASSUME u = Append(o, <<s[n]>>)
      PROVE  /\ u \in Streams
             /\ \E y : /\ y[1] = "stream" /\ y[4] = s[n]
                       /\ StreamPlaces(u) = StreamPlaces(o) \cup {y}
  <2> DEFINE t == <<s[n]>>
             y == <<"stream", Len(o) + 1, 1, s[n]>>
  <2>1. t \in Seq(Rec) /\ Len(t) = 1 /\ t[1] = s[n] /\ DOMAIN t = {1}
    BY <1>1
  <2>2. u = Append(o, t)  BY <1>3
  <2> HIDE DEF t, u
  <2>3. At("stream", Len(o) + 1, t) = {y}  BY <2>1 DEF At
  <2>4. u \in Streams
        /\ StreamPlaces(u) = StreamPlaces(o) \cup At("stream", Len(o) + 1, t)
    BY <2>1, <2>2, StreamNew
  <2>5. y[1] = "stream" /\ y[4] = s[n]  OBVIOUS
  <2> HIDE DEF y
  <2> QED  BY <2>3, <2>4, <2>5
<1>4. \/ \E i \in 1 .. Len(o) : u = [o EXCEPT ![i] = Append(o[i], s[n])]
      \/ u = Append(o, <<s[n]>>)
  BY WriteCases
<1> HIDE DEF u
<1>5. /\ u \in Streams
      /\ \E y : /\ y[1] = "stream" /\ y[4] = s[n]
                /\ StreamPlaces(u) = StreamPlaces(o) \cup {y}
  BY <1>2, <1>3, <1>4
<1> QED  BY <1>5 DEF u

\* It carries one record from what remains to the streams.
LEMMA WriteCarries ==
  ASSUME NEW o \in Streams, NEW s \in Seq(Rec), NEW n \in 1 .. Len(s), ModeOk,
         StreamPerPartition(o), Stage = "reduce" /\ n > 1 => Len(o) > 0
  PROVE  Carries(StreamPlaces(o) \cup RestPlaces(s, n - 1),
                 StreamPlaces(WriteNext(o, s, n)) \cup RestPlaces(s, n))
<1> DEFINE u == WriteNext(o, s, n)
           x == <<"rest", 0, n, s[n]>>
           A == StreamPlaces(o) \cup RestPlaces(s, n)
<1>1. PICK y : /\ y[1] = "stream" /\ y[4] = s[n]
               /\ StreamPlaces(u) = StreamPlaces(o) \cup {y}
  BY WritePlaces
<1>2. /\ RestPlaces(s, n - 1) = RestPlaces(s, n) \cup {x}
      /\ x \notin RestPlaces(s, n)
      /\ x[1] = "rest" /\ x[4] = s[n]
  BY RestStep
<1> HIDE DEF x, u
<1>3. x \notin StreamPlaces(o)  BY <1>2, StreamPlaceNames
<1>4. x \notin A  BY <1>2, <1>3
<1> HIDE DEF A
<1>5. Carries(A \cup {x}, A \cup {y})  BY <1>1, <1>2, <1>4, CarriesOne
<1>6. A \cup {x} = StreamPlaces(o) \cup RestPlaces(s, n - 1)
      /\ A \cup {y} = StreamPlaces(u) \cup RestPlaces(s, n)
  BY <1>1, <1>2 DEF A
<1> QED  BY <1>5, <1>6 DEF u

\* NotAfter and the order of the partitions.
LEMMA NotAfterPartition ==
  ASSUME ModeOk, NEW x \in Rec, NEW y \in Rec, NEW cmp, NotAfter(x, y, cmp)
  PROVE  PartitionOf(x.key) <= PartitionOf(y.key)
<1>1. x.key \in Keys /\ y.key \in Keys  BY DEF Rec
<1>2. PartitionOf(x.key) \in Nat /\ PartitionOf(y.key) \in Nat
  BY <1>1, ModeValues
<1> QED  BY <1>2 DEF NotAfter

\* The streams stay well formed.
LEMMA WriteWellFormed ==
  ASSUME NEW o \in Streams, NEW s \in Seq(Rec), NEW n \in 1 .. Len(s), ModeOk,
         \A i, j \in 1 .. Len(s) : i < j => NotAfter(s[i], s[j], Comparing),
         WellFormed(o), StreamPerPartition(o),
         Stage = "reduce" /\ n > 1 => LastStream(o, s, n - 1)
  PROVE  /\ WellFormed(WriteNext(o, s, n))
         /\ StreamPerPartition(WriteNext(o, s, n))
         /\ Stage = "reduce" => LastStream(WriteNext(o, s, n), s, n)
<1> DEFINE u == WriteNext(o, s, n)
           p == PartitionOf(s[n].key)
<1>1. Stage = "reduce" /\ n > 1 => Len(o) > 0  BY DEF LastStream
<1>2. /\ Len(o) \in Nat /\ DOMAIN o = 1 .. Len(o) /\ Len(s) \in Nat
      /\ \A i \in 1 .. Len(o) : o[i] \in Seq(Rec)
      /\ s[n] \in Rec
  BY DEF Streams
<1>3. CASE Stage = "map" /\ p + 1 \in 1 .. Len(o)
           /\ u = [o EXCEPT ![p + 1] = Append(o[p + 1], s[n])]
  <2> DEFINE i == p + 1
             t == Append(o[i], s[n])
  <2>1. i \in 1 .. Len(o) /\ u = [o EXCEPT ![i] = t]  BY <1>3
  <2>2. o[i] \in Seq(Rec)  BY <1>2, <2>1
  <2>3. /\ t \in Seq(Rec) /\ DOMAIN t = 1 .. Len(o[i]) + 1
        /\ t[Len(o[i]) + 1] = s[n] /\ Len(o[i]) \in Nat
        /\ DOMAIN o[i] = 1 .. Len(o[i])
        /\ \A j \in 1 .. Len(o[i]) : t[j] = o[i][j]
    BY <1>2, <2>2
  <2>4. p = i - 1
    <3>1. s[n].key \in Keys  BY <1>2 DEF Rec
    <3>2. p \in Nat  BY <3>1, ModeValues
    <3> QED  BY <3>2
  <2> HIDE DEF t, u
  <2>5. /\ u \in Streams /\ Len(u) = Len(o) /\ u[i] = t
        /\ \A j \in 1 .. Len(o) : j # i => u[j] = o[j]
    <3> HIDE DEF i
    <3>1. Replaces(o, i, t, u)  BY <2>1, <2>3, ReplacesExcept
    <3> QED  BY <3>1 DEF Replaces
  <2> HIDE DEF i
  <2>6. DOMAIN u = 1 .. Len(o)  BY <2>5 DEF Streams
  <2>7. StreamOk(t, i)
    <3>1. ASSUME NEW m \in DOMAIN t PROVE PartitionOf(t[m].key) = i - 1
      <4>1. CASE m = Len(o[i]) + 1  BY <2>3, <2>4, <4>1 DEF p
      <4>2. CASE m # Len(o[i]) + 1
        <5>1. m \in 1 .. Len(o[i])  BY <2>3, <4>2
        <5>2. StreamOk(o[i], i)  BY <1>2, <2>1 DEF WellFormed
        <5>3. PartitionOf(o[i][m].key) = i - 1
          BY <1>3, <2>3, <5>1, <5>2 DEF StreamOk
        <5> QED  BY <2>3, <5>1, <5>3
      <4> QED  BY <4>1, <4>2
    <3> QED  BY <1>3, <3>1 DEF StreamOk
  <2>8. WellFormed(u)  BY <1>2, <2>5, <2>6, <2>7 DEF WellFormed
  <2>9. StreamPerPartition(u)  BY <2>5 DEF StreamPerPartition
  <2> QED  BY <1>3, <2>8, <2>9 DEF u
<1>4. CASE Stage = "reduce" /\ u = Append(o, <<s[n]>>)
  <2> DEFINE t == <<s[n]>>
             k == Len(o) + 1
  <2>1. t \in Seq(Rec) /\ DOMAIN t = {1} /\ t[1] = s[n] /\ t # <<>>
    BY <1>2
  <2>2. u = Append(o, t)  BY <1>4
  <2> HIDE DEF t, u
  <2>3. /\ u \in Streams /\ Len(u) = k /\ u[k] = t
        /\ \A j \in 1 .. Len(o) : u[j] = o[j]
    BY <2>1, <2>2, StreamNew
  <2>4. DOMAIN u = 1 .. k /\ \A j \in 1 .. k : j \in 1 .. Len(o) \/ j = k
    BY <1>2, <2>3 DEF Streams
  <2>5. k > 0  BY <1>2
  <2> HIDE DEF k
  <2>6. WellFormed(u)
    <3>1. StreamOk(t, k)  BY <1>4, <2>1 DEF StreamOk
    <3> QED  BY <1>2, <2>3, <2>4, <3>1 DEF WellFormed
  <2>7. LastStream(u, s, n)
    <3>1. n \in 1 .. n  BY <1>2
    <3> QED  BY <2>1, <2>3, <2>5, <3>1 DEF LastStream
  <2>8. StreamPerPartition(u)  BY <1>4 DEF StreamPerPartition
  <2> QED  BY <2>6, <2>7, <2>8 DEF u
<1>5. CASE /\ Stage = "reduce" /\ n # 1 /\ PartitionOf(s[n - 1].key) = p
           /\ Len(o) \in 1 .. Len(o)
           /\ u = [o EXCEPT ![Len(o)] = Append(o[Len(o)], s[n])]
  <2> DEFINE i == Len(o)
             l == Len(o[i])
             t == Append(o[i], s[n])
  <2>1. i \in 1 .. Len(o) /\ u = [o EXCEPT ![i] = t]  BY <1>5
  <2>2. o[i] \in Seq(Rec)  BY <1>2, <2>1
  <2>3. /\ t \in Seq(Rec) /\ DOMAIN t = 1 .. l + 1 /\ t[l + 1] = s[n]
        /\ l \in Nat /\ DOMAIN o[i] = 1 .. l /\ Len(t) = l + 1
        /\ \A j \in 1 .. l : t[j] = o[i][j]
    BY <1>2, <2>2
  <2>4. LastStream(o, s, n - 1)  BY <1>5
  <2>5. ASSUME NEW m \in 1 .. l
        PROVE  /\ \E j \in 1 .. n - 1 : o[i][m] = s[j]
               /\ PartitionOf(o[i][m].key) = p
    BY <1>5, <2>3, <2>4 DEF LastStream
  <2> HIDE DEF t, l, u
  <2>6. /\ u \in Streams /\ Len(u) = Len(o) /\ u[i] = t
        /\ \A j \in 1 .. Len(o) : j # i => u[j] = o[j]
    <3> HIDE DEF i
    <3>1. Replaces(o, i, t, u)  BY <2>1, <2>3, ReplacesExcept
    <3> QED  BY <3>1 DEF Replaces
  <2>7. DOMAIN u = 1 .. Len(o)  BY <2>6 DEF Streams
  <2>8. \A m \in DOMAIN t : PartitionOf(t[m].key) = p
    <3> TAKE m \in DOMAIN t
    <3>1. CASE m = l + 1  BY <2>3, <3>1 DEF p
    <3>2. CASE m \in 1 .. l  BY <2>3, <2>5, <3>2
    <3> QED  BY <2>3, <3>1, <3>2
  <2>9. ASSUME NEW m \in DOMAIN t, NEW q \in DOMAIN t, m < q
        PROVE  NotAfter(t[m], t[q], Ordering \/ Aggregate)
    <3>1. m \in 1 .. l  BY <2>3, <2>9
    <3>2. CASE q \in 1 .. l
      <4>1. StreamOk(o[i], i)  BY <1>2, <2>1 DEF WellFormed
      <4>2. NotAfter(o[i][m], o[i][q], Ordering \/ Aggregate)
        BY <1>5, <2>3, <2>9, <3>1, <3>2, <4>1 DEF StreamOk
      <4> QED  BY <2>3, <3>1, <3>2, <4>2
    <3>3. CASE q = l + 1
      <4>1. PICK j \in 1 .. n - 1 : o[i][m] = s[j]  BY <2>5, <3>1
      <4>2. j \in 1 .. Len(s) /\ j < n  BY <1>2
      <4>3. NotAfter(s[j], s[n], Comparing)  BY <4>2
      <4> QED  BY <2>3, <3>1, <3>3, <4>1, <4>3 DEF Comparing
    <3> QED  BY <2>3, <3>2, <3>3
  <2>10. t # <<>>  BY <2>3
  <2>11. WellFormed(u)
    <3>1. StreamOk(t, i)  BY <1>5, <2>8, <2>9, <2>10 DEF StreamOk
    <3> QED  BY <1>2, <2>6, <2>7, <3>1 DEF WellFormed
  <2>12. LastStream(u, s, n)
    <3>1. Len(u) = i /\ Len(u) > 0  BY <2>1, <2>6
    <3>2. ASSUME NEW m \in DOMAIN t PROVE \E j \in 1 .. n : t[m] = s[j]
      <4>1. CASE m = l + 1
        <5>1. n \in 1 .. n  BY <1>2
        <5> QED  BY <2>3, <4>1, <5>1
      <4>2. CASE m \in 1 .. l
        <5>1. PICK j \in 1 .. n - 1 : o[i][m] = s[j]  BY <2>5, <4>2
        <5>2. j \in 1 .. n  BY <1>2
        <5> QED  BY <2>3, <4>2, <5>1, <5>2
      <4> QED  BY <2>3, <4>1, <4>2
    <3> HIDE DEF i
    <3> QED  BY <2>6, <2>8, <3>1, <3>2 DEF LastStream, p
  <2>13. StreamPerPartition(u)  BY <1>5 DEF StreamPerPartition
  <2> QED  BY <2>11, <2>12, <2>13 DEF u
<1> QED  BY <1>1, <1>3, <1>4, <1>5, WriteCases

\* Whatever the streams are, a record written leaves streams.
LEMMA WriteTyped ==
  ASSUME NEW o \in Streams, NEW s \in Seq(Rec), NEW n \in 1 .. Len(s)
  PROVE  WriteNext(o, s, n) \in Streams
<1> DEFINE p == PartitionOf(s[n].key)
           changed == n = 1 \/ PartitionOf(s[n - 1].key) # p
<1>1. s[n] \in Rec /\ <<s[n]>> \in Seq(Rec)  OBVIOUS
<1>2. /\ Len(o) \in Nat /\ DOMAIN o = 1 .. Len(o)
      /\ \A i \in 1 .. Len(o) : o[i] \in Seq(Rec)
  BY DEF Streams
<1>3. ASSUME NEW i PROVE [o EXCEPT ![i] = Append(o[i], s[n])] \in Streams
  <2> DEFINE v == Append(o[i], s[n])
             u == [o EXCEPT ![i] = v]
  <2>0. i \in 1 .. Len(o) => v \in Seq(Rec)  BY <1>1, <1>2
  <2> HIDE DEF v
  <2>1. ASSUME NEW j \in 1 .. Len(o) PROVE u[j] \in Seq(Rec)
    <3>1. u[j] = IF j = i THEN v ELSE o[j]  BY <1>2
    <3> HIDE DEF u
    <3> QED  BY <1>2, <2>0, <3>1
  <2>2. DOMAIN u = 1 .. Len(o) /\ u = [j \in 1 .. Len(o) |-> u[j]]  BY <1>2
  <2> HIDE DEF u
  <2>3. u \in [1 .. Len(o) -> Seq(Rec)]  BY <2>1, <2>2
  <2>4. u \in Streams  BY <1>2, <2>3, FunSeq, Zenon DEF Streams
  <2> QED  BY <2>4 DEF u, v
<1>4. Append(o, <<s[n]>>) \in Streams  BY <1>1 DEF Streams
<1>5. WriteNext(o, s, n) =
        IF Stage = "map" THEN [o EXCEPT ![p + 1] = Append(o[p + 1], s[n])]
        ELSE IF changed THEN Append(o, <<s[n]>>)
        ELSE [o EXCEPT ![Len(o)] = Append(o[Len(o)], s[n])]
  BY DEF WriteNext
<1> HIDE DEF p, changed
<1> QED  BY <1>3, <1>4, <1>5

\* The recursive function inside Spilled satisfies its equation.
LEMMA SpilledSteps ==
  ASSUME outs \in Streams, NEW s \in Seq(Rec)
  PROVE  \E f : /\ f[0] = outs
                /\ \A i \in 1 .. Len(s) : f[i] = WriteNext(f[i - 1], s, i)
                /\ f[Len(s)] = Spilled(s)
<1> DEFINE n == Len(s)
           step == [i \in 1 .. n |-> [o \in Streams |-> WriteNext(o, s, i)]]
<1>1. n \in Nat  OBVIOUS
<1>2. \A i \in 1 .. n, o \in Streams : WriteNext(o, s, i) \in Streams
  BY WriteTyped
<1> HIDE DEF n
<1>3. step \in [1 .. n -> [Streams -> Streams]]  BY <1>2
<1>4. \A i \in 1 .. n, o \in Streams : step[i][o] = WriteNext(o, s, i)  OBVIOUS
<1> HIDE DEF step
<1>5. PICK f \in [0 .. n -> Streams] : IsRec(f, n, outs, step)
  BY <1>1, <1>3, RecExists
<1>6. ASSUME NEW i \in 1 .. n PROVE f[i] = WriteNext(f[i - 1], s, i)
  <2>1. i - 1 \in 0 .. n  BY <1>1
  <2>2. f[i - 1] \in Streams  BY <2>1
  <2> QED  BY <1>4, <1>5, <2>2 DEF IsRec
<1>7. f[0] = outs  BY <1>5 DEF IsRec
<1>8. ASSUME NEW i \in 0 .. n
      PROVE  f[i] = IF i = 0 THEN outs ELSE WriteNext(f[i - 1], s, i)
  <2>1. CASE i = 0  BY <1>7, <2>1
  <2>2. CASE i # 0
    <3>1. i \in 1 .. n  BY <1>1, <2>2
    <3> QED  BY <1>6, <2>2, <3>1
  <2> QED  BY <2>1, <2>2
<1>9. f = [i \in 0 .. n |-> IF i = 0 THEN outs ELSE WriteNext(f[i - 1], s, i)]
  BY <1>8
<1> DEFINE F == CHOOSE g : g = [i \in 0 .. n |-> IF i = 0 THEN outs
                                                 ELSE WriteNext(g[i - 1], s, i)]
<1>10. F = [i \in 0 .. n |-> IF i = 0 THEN outs ELSE WriteNext(F[i - 1], s, i)]
  BY <1>9
<1>11. Spilled(s) = F[n]  BY DEF Spilled, n
<1> HIDE DEF F
<1>12. F[0] = outs  BY <1>1, <1>10
<1>13. ASSUME NEW i \in 1 .. n PROVE F[i] = WriteNext(F[i - 1], s, i)
  BY <1>1, <1>10
<1> QED  BY <1>11, <1>12, <1>13 DEF n

\* All of s is written, and nothing else.
LEMMA SpillOk ==
  ASSUME ModeOk, outs \in Streams, WellFormed(outs), StreamPerPartition(outs),
         NEW s \in Seq(Rec),
         \A i, j \in 1 .. Len(s) : i < j => NotAfter(s[i], s[j], Comparing)
  PROVE  /\ Spilled(s) \in Streams
         /\ WellFormed(Spilled(s))
         /\ StreamPerPartition(Spilled(s))
         /\ Carries(StreamPlaces(outs) \cup RestPlaces(s, 0),
                    StreamPlaces(Spilled(s)))
<1> DEFINE n == Len(s)
<1>0. n \in Nat  OBVIOUS
<1>1. PICK f : /\ f[0] = outs
               /\ \A i \in 1 .. n : f[i] = WriteNext(f[i - 1], s, i)
               /\ f[n] = Spilled(s)
  BY SpilledSteps
<1> DEFINE G == {i \in 0 .. n : LoopOk(outs, f[i], s, i)}
<1>2. 0 \in G
  <2>1. Carries(StreamPlaces(outs) \cup RestPlaces(s, 0),
                StreamPlaces(outs) \cup RestPlaces(s, 0))
    BY CarriesSame
  <2>2. LoopOk(outs, outs, s, 0)  BY <2>1 DEF LoopOk
  <2> QED  BY <1>0, <1>1, <2>2
<1>3. ASSUME NEW i \in 0 .. n, i \in G, i < n PROVE i + 1 \in G
  <2> DEFINE k == i + 1
             o == f[i]
  <2>1. k \in 1 .. Len(s) /\ k - 1 = i /\ k \in 0 .. n /\ (k > 1 <=> i > 0)
        /\ k > 0
    BY <1>0, <1>3
  <2>2. f[k] = WriteNext(o, s, k)  BY <1>1, <2>1
  <2>3. LoopOk(outs, o, s, i)  BY <1>3
  <2> HIDE DEF o, k
  <2>4. /\ o \in Streams /\ WellFormed(o) /\ StreamPerPartition(o)
        /\ Stage = "reduce" /\ k > 1 => LastStream(o, s, k - 1)
        /\ Carries(StreamPlaces(outs) \cup RestPlaces(s, 0),
                   StreamPlaces(o) \cup RestPlaces(s, k - 1))
    BY <2>1, <2>3 DEF LoopOk
  <2>5. Stage = "reduce" /\ k > 1 => Len(o) > 0  BY <2>4 DEF LastStream
  <2>6. Carries(StreamPlaces(o) \cup RestPlaces(s, k - 1),
                StreamPlaces(WriteNext(o, s, k)) \cup RestPlaces(s, k))
    BY <2>1, <2>4, <2>5, WriteCarries
  <2>7. Carries(StreamPlaces(outs) \cup RestPlaces(s, 0),
                StreamPlaces(WriteNext(o, s, k)) \cup RestPlaces(s, k))
    BY <2>4, <2>6, CarriesTwice
  <2>8. /\ WellFormed(WriteNext(o, s, k))
        /\ StreamPerPartition(WriteNext(o, s, k))
        /\ Stage = "reduce" => LastStream(WriteNext(o, s, k), s, k)
    BY <2>1, <2>4, WriteWellFormed
  <2>9. WriteNext(o, s, k) \in Streams  BY <2>1, <2>4, WriteTyped
  <2>10. LoopOk(outs, f[k], s, k)  BY <2>2, <2>7, <2>8, <2>9 DEF LoopOk
  <2> QED  BY <2>1, <2>10 DEF k
<1> HIDE DEF G
<1>4. 0 .. n \subseteq G  BY <1>0, <1>2, <1>3, UpTo
<1>5. LoopOk(outs, Spilled(s), s, n)  BY <1>0, <1>1, <1>4 DEF G
<1>6. RestPlaces(s, n) = {}  BY <1>0 DEF RestPlaces
<1>7. StreamPlaces(Spilled(s)) \cup RestPlaces(s, n) = StreamPlaces(Spilled(s))
  BY <1>6
<1> QED  BY <1>5, <1>7 DEF LoopOk

\* The collection goes to the streams.
LEMMA SpillCarries ==
  ASSUME ModeOk, outs \in Streams, WellFormed(outs), StreamPerPartition(outs),
         NEW c \in SUBSET Rec, IsFiniteSet(c),
         NEW s \in SortedIterators(c, Comparing)
  PROVE  /\ Spilled(s) \in Streams
         /\ WellFormed(Spilled(s))
         /\ StreamPerPartition(Spilled(s))
         /\ Carries(CollPlaces(c) \cup StreamPlaces(outs),
                    StreamPlaces(Spilled(s)))
<1>1. /\ s \in Seq(Rec)
      /\ \A i \in 1 .. Len(s) : s[i] \in c
      /\ \A r \in c : \E i \in 1 .. Len(s) : s[i] = r
      /\ \A i, j \in 1 .. Len(s) : i # j => s[i] # s[j]
      /\ \A i, j \in 1 .. Len(s) : i < j => NotAfter(s[i], s[j], Comparing)
  BY SortedIteratorIs
<1>2. /\ Spilled(s) \in Streams
      /\ WellFormed(Spilled(s))
      /\ StreamPerPartition(Spilled(s))
      /\ Carries(StreamPlaces(outs) \cup RestPlaces(s, 0),
                 StreamPlaces(Spilled(s)))
  BY <1>1, SpillOk
<1>3. Carries(CollPlaces(c), At("rest", 0, s))  BY <1>1, CollCarries
<1>4. At("rest", 0, s) = RestPlaces(s, 0)
  <2>1. DOMAIN s = 0 + 1 .. Len(s)  BY <1>1
  <2> QED  BY <2>1 DEF At, RestPlaces
<1>5. \A x \in CollPlaces(c) : x \notin StreamPlaces(outs)
  <2>1. \A x \in CollPlaces(c) : x[1] = "coll"  BY DEF CollPlaces
  <2> QED  BY <2>1, StreamPlaceNames
<1>6. Carries(CollPlaces(c) \cup StreamPlaces(outs),
              RestPlaces(s, 0) \cup StreamPlaces(outs))
  BY <1>3, <1>4, <1>5, CarriesSome
<1>7. RestPlaces(s, 0) \cup StreamPlaces(outs) =
        StreamPlaces(outs) \cup RestPlaces(s, 0)
  OBVIOUS
<1>8. Carries(CollPlaces(c) \cup StreamPlaces(outs), StreamPlaces(Spilled(s)))
  BY <1>2, <1>6, <1>7, CarriesTwice
<1> QED  BY <1>2, <1>8

-----------------------------------------------------------------------------
(***************************************************************************)
(* The inductive invariant.                                                *)
(***************************************************************************)
\* The records that reader r has still to give of a stream t.
Left(t, r) == r.next \o SubSeq(t, r.indexInBatch + 1, Len(t))

\* A reader has an item ready until it has given all of the stream.
Readers == [next : Seq(Rec), indexInBatch : Nat, closing : BOOLEAN]
ReaderOk(t, r) ==
  /\ r \in Readers
  /\ r.indexInBatch \in 1 .. Len(t)
  /\ r.closing <=> r.indexInBatch = Len(t)
  /\ \/ r.next = <<t[r.indexInBatch]>>
     \/ r.next = <<>> /\ r.closing

\* What each reader, and what each iterator has still to give.
LeftOfReaders == [i \in 1 .. Len(rd) |-> Left(outs[i], rd[i])]
Waits == Append(LeftOfReaders, mem)

\* The iterators w are sorted; with no spill there is only the memory.
WaitsSorted(w, some) ==
  /\ \A i \in DOMAIN w : \A m, n \in DOMAIN w[i] :
       m < n => NotAfter(w[i][m], w[i][n], IF some THEN Comparing ELSE Ordering)
  /\ ~some => \A i, j \in DOMAIN w : i = j

\* The partitions before p are done.
WaitsLater(w, p) ==
  \A i \in DOMAIN w : \A n \in DOMAIN w[i] : p <= PartitionOf(w[i][n].key)

\* The result o is sorted and comes before the group g and before w.
OutFirst(w, g, o) ==
  /\ \A i, j \in DOMAIN o : i < j => NotAfter(o[i], o[j], Ordering)
  /\ \A i \in DOMAIN o, j \in DOMAIN g : NotAfter(o[i], g[j], Ordering)
  /\ \A i \in DOMAIN o, j \in DOMAIN w :
       \A n \in DOMAIN w[j] : NotAfter(o[i], w[j][n], Ordering)

\* The keys of the group are of partition p, compare as equal, and come before w.
GroupFirst(w, g, p, some) ==
  /\ g # <<>> => Aggregate /\ some
  /\ \A i, j \in DOMAIN g : Rank(g[i].key) = Rank(g[j].key)
  /\ \A i \in DOMAIN g : PartitionOf(g[i].key) = p
  /\ \A i \in DOMAIN g, j \in DOMAIN w :
       \A n \in DOMAIN w[j] : NotAfter(g[i], w[j][n], TRUE)

\* With an aggregator: keys in the result are nowhere else.
KeysApart(w, g, o, some) ==
  /\ KeysDiffer(g)
  /\ KeysDiffer(o)
  /\ \A i \in DOMAIN o, j \in DOMAIN g : o[i].key # g[j].key
  /\ \A i \in DOMAIN o, j \in DOMAIN w :
       \A n \in DOMAIN w[j] : o[i].key # w[j][n].key
  /\ ~some => \A j \in DOMAIN w : KeysDiffer(w[j])

MergeOk(w, g, o, p, some) ==
  /\ WaitsSorted(w, some) /\ WaitsLater(w, p) /\ OutFirst(w, g, o)
  /\ GroupFirst(w, g, p, some)
  /\ Aggregate => KeysApart(w, g, o, some)

Reading == phase \in {"read", "finished"}

SorterType ==
  /\ ModeOk
  /\ phase \in {"insert", "stored", "read", "finished"}
  /\ input \in Seq(Keys)
  /\ coll \in SUBSET Rec /\ IsFiniteSet(coll)
  /\ outs \in Streams
  /\ mem \in Seq(Rec) /\ group \in Seq(Rec) /\ out \in Seq(Rec)
  /\ part \in Nat

\* What has happened in which phase.
PhaseInv ==
  /\ ~Reading => /\ rd = <<>> /\ mem = <<>> /\ group = <<>> /\ out = <<>>
                 /\ part = 0
  /\ phase # "insert" => coll = {}
  /\ Aggregate => UniqueKeys(coll)
  /\ WellFormed(outs)
  /\ StreamPerPartition(outs)

ReadInv ==
  Reading => /\ Stage = "reduce"
             /\ DOMAIN rd = 1 .. Len(outs) /\ Len(rd) = Len(outs)
             /\ \A i \in 1 .. Len(outs) : ReaderOk(outs[i], rd[i])
             /\ MergeOk(Waits, group, out, part, outs # <<>>)

SorterInv ==
  /\ SorterType /\ PhaseInv /\ ReadInv /\ Conserved(Everywhere, input)

-----------------------------------------------------------------------------
(***************************************************************************)
(* The readers.                                                            *)
(***************************************************************************)
\* The records of the stream that a reader has given.
Given(t, r) == IF r.next = <<>> THEN Len(t) ELSE r.indexInBatch - 1

\* What a reader has left is the stream from there on.
LEMMA LeftIs ==
  ASSUME NEW t \in Seq(Rec), NEW r, ReaderOk(t, r)
  PROVE  /\ Left(t, r) \in Seq(Rec)
         /\ Given(t, r) \in 0 .. Len(t)
         /\ Len(Left(t, r)) = Len(t) - Given(t, r)
         /\ \A n \in 1 .. Len(t) - Given(t, r) : Left(t, r)[n] = t[Given(t, r) + n]
         /\ r.next # <<>> => /\ Left(t, r) # <<>> /\ r.next[1] = Left(t, r)[1]
                             /\ Given(t, r) < Len(t)
         /\ r.next = <<>> => Left(t, r) = <<>>
<1> DEFINE k == r.indexInBatch
           l == Len(t)
           u == SubSeq(t, k + 1, l)
<1>1. /\ k \in 1 .. l /\ l \in Nat
      /\ r.next = <<t[k]>> \/ (r.next = <<>> /\ k = l)
  BY DEF ReaderOk
<1>2. u \in Seq(Rec) /\ Len(u) = l - k /\ \A i \in 1 .. l - k : u[i] = t[k + i]
  <2> HIDE DEF k, l
  <2>1. k \in Nat /\ l - k \in Nat /\ k + (l - k) = l  BY <1>1
  <2>2. /\ SubSeq(t, k + 1, k + (l - k)) \in Seq(Rec)
        /\ Len(SubSeq(t, k + 1, k + (l - k))) = l - k
        /\ \A i \in 1 .. l - k : SubSeq(t, k + 1, k + (l - k))[i] = t[k + i]
    <3>1. k + (l - k) <= Len(t)  BY <1>1, <2>1 DEF l
    <3> QED  BY <2>1, <3>1, SubSeqAt
  <2> QED  BY <2>1, <2>2
<1>3. Left(t, r) = r.next \o u  BY DEF Left
<1> HIDE DEF u, k
<1>4. CASE r.next = <<t[k]>>
  <2> DEFINE v == r.next
             w == v \o u
  <2>1. t[k] \in Rec  BY <1>1
  <2>2. v \in Seq(Rec) /\ Len(v) = 1 /\ v[1] = t[k] /\ v # <<>>
    BY <1>4, <2>1
  <2> HIDE DEF v
  <2>3. /\ w \in Seq(Rec) /\ Len(w) = 1 + (l - k) /\ w[1] = t[k]
        /\ \A i \in 1 .. l - k : w[1 + i] = u[i]
    <3>1. /\ w \in Seq(Rec) /\ Len(w) = Len(v) + Len(u)
          /\ \A i \in 1 .. Len(v) : w[i] = v[i]
          /\ \A i \in 1 .. Len(u) : w[Len(v) + i] = u[i]
      <4>1. v \in Seq(Rec) /\ u \in Seq(Rec)  BY <1>2, <2>2
      <4>2. /\ v \o u \in Seq(Rec) /\ Len(v \o u) = Len(v) + Len(u)
            /\ \A i \in 1 .. Len(v) : (v \o u)[i] = v[i]
            /\ \A i \in 1 .. Len(u) : (v \o u)[Len(v) + i] = u[i]
        BY <4>1, ConcatIs
      <4> QED  BY <4>2
    <3> HIDE DEF w, l
    <3>2. Len(v) = 1 /\ Len(u) = l - k /\ v[1] = t[k]  BY <1>2, <2>2
    <3>3. Len(w) = 1 + (l - k)  BY <3>1, <3>2
    <3>4. 1 \in 1 .. Len(v)  BY <3>2
    <3>5. w[1] = t[k]  BY <3>1, <3>2, <3>4
    <3>6. \A i \in 1 .. l - k : w[1 + i] = u[i]  BY <3>1, <3>2
    <3> QED  BY <3>1, <3>3, <3>5, <3>6
  <2>4. Given(t, r) = k - 1  BY <2>2 DEF Given, k, v
  <2>5. /\ l - Given(t, r) = 1 + (l - k) /\ Given(t, r) \in 0 .. l
        /\ Given(t, r) < l
    BY <1>1, <2>4
  <2> HIDE DEF w, l
  <2>6. ASSUME NEW n \in 1 .. 1 + (l - k) PROVE w[n] = t[(k - 1) + n]
    <3>1. CASE n = 1
      <4>1. (k - 1) + 1 = k  BY <1>1
      <4> QED  BY <2>3, <3>1, <4>1
    <3>2. CASE n # 1
      <4> DEFINE i == n - 1
      <4>1. i \in 1 .. l - k /\ n = 1 + i /\ k + i = (k - 1) + n  BY <1>1, <3>2
      <4> HIDE DEF i
      <4>2. w[n] = u[i] /\ u[i] = t[k + i]  BY <1>2, <2>3, <4>1
      <4> QED  BY <4>1, <4>2
    <3> QED  BY <3>1, <3>2
  <2>7. w # <<>>  BY <1>1, <2>3
  <2> QED  BY <1>3, <2>2, <2>3, <2>4, <2>5, <2>6, <2>7 DEF w, v, l
<1>5. CASE r.next = <<>> /\ k = l
  <2>1. u = <<>>
    <3>1. Len(u) = 0  BY <1>1, <1>2, <1>5
    <3> QED  BY <1>2, <3>1
  <2>2. Left(t, r) = <<>>  BY <1>3, <1>5, <2>1
  <2>3. Given(t, r) = l /\ l - l = 0  BY <1>1, <1>5 DEF Given
  <2> QED  BY <1>1, <1>5, <2>2, <2>3
<1> QED  BY <1>1, <1>4, <1>5

\* What makes a reader's rest.
LEMMA LeftSame ==
  ASSUME NEW t \in Seq(Rec), NEW r, ReaderOk(t, r), NEW u \in Seq(Rec),
         Len(u) = Len(t) - Given(t, r),
         \A n \in 1 .. Len(u) : u[n] = t[Given(t, r) + n]
  PROVE  Left(t, r) = u
<1> DEFINE v == Left(t, r)
<1>0. /\ v \in Seq(Rec) /\ Len(v) = Len(t) - Given(t, r)
      /\ \A n \in 1 .. Len(t) - Given(t, r) : v[n] = t[Given(t, r) + n]
  BY LeftIs
<1> HIDE DEF v
<1>1. v \in Seq(Rec) /\ Len(v) = Len(u) /\ \A n \in 1 .. Len(v) : v[n] = u[n]
  BY <1>0
<1>2. v = u  BY <1>1, SameSeq
<1> QED  BY <1>2 DEF v

\* A new reader has all of the stream.
LEMMA PullNew ==
  ASSUME NEW i, outs[i] \in Seq(Rec), outs[i] # <<>>
  PROVE  /\ ReaderOk(outs[i], Pull(i, NewReader))
         /\ Left(outs[i], Pull(i, NewReader)) = outs[i]
<1> DEFINE t == outs[i]
           q == Pull(i, NewReader)
<1>1. Len(t) \in Nat /\ Len(t) >= 1 /\ t[1] \in Rec /\ 0 + 1 = 1  OBVIOUS
<1>2. q = [next |-> <<t[1]>>, indexInBatch |-> 1, closing |-> 1 >= Len(t)]
  <2>1. /\ NewReader.next = <<>> /\ NewReader.indexInBatch = 0
        /\ NewReader.closing = FALSE
    BY DEF NewReader
  <2>2. q = [next |-> <<t[0 + 1]>>, indexInBatch |-> 0 + 1,
             closing |-> 0 + 1 >= Len(t)]
    BY <2>1 DEF Pull
  <2> QED  BY <1>1, <2>2
<1> HIDE DEF t
<1>3. <<t[1]>> \in Seq(Rec) /\ <<t[1]>> # <<>>  BY <1>1
<1> DEFINE b == 1 >= Len(t)
<1>4. b \in BOOLEAN /\ (b <=> 1 = Len(t))
  <2> DEFINE l == Len(t)
  <2>1. l \in Nat /\ l >= 1  BY <1>1
  <2> HIDE DEF l
  <2>2. 1 >= l <=> 1 = l  BY <2>1
  <2>3. (1 >= l) \in BOOLEAN  BY <2>1
  <2> QED  BY <2>2, <2>3 DEF l
<1> HIDE DEF b
<1>5. q \in Readers /\ q.next = <<t[1]>> /\ q.indexInBatch = 1 /\ q.closing = b
  BY <1>2, <1>3, <1>4 DEF Readers, b
<1> HIDE DEF q
<1>6. ReaderOk(t, q)  BY <1>1, <1>4, <1>5 DEF ReaderOk
<1>7. Given(t, q) = 0  BY <1>3, <1>5 DEF Given
<1>8. t \in Seq(Rec)  BY DEF t
<1>9. Len(t) = Len(t) - Given(t, q) /\ \A n \in 1 .. Len(t) : t[n] = t[Given(t, q) + n]
  BY <1>1, <1>7
<1>10. Left(t, q) = t  BY <1>6, <1>8, <1>9, LeftSame
<1> QED  BY <1>6, <1>10 DEF t, q

\* A reader that has given an item makes the next one ready.
LEMMA PullNext ==
  ASSUME NEW i, outs[i] \in Seq(Rec), NEW r, ReaderOk(outs[i], r), r.next # <<>>
  PROVE  LET q == Pull(i, [r EXCEPT !.next = <<>>])
         IN  /\ ReaderOk(outs[i], q)
             /\ Left(outs[i], q) = Tail(Left(outs[i], r))
<1> DEFINE t == outs[i]
           e == [r EXCEPT !.next = <<>>]
           q == Pull(i, e)
           k == r.indexInBatch
           u == Left(t, r)
<1>0. t \in Seq(Rec)  OBVIOUS
<1>1. /\ r \in Readers /\ k \in 1 .. Len(t) /\ (r.closing <=> k = Len(t))
      /\ Len(t) \in Nat
  BY DEF ReaderOk
<1>2. /\ e \in Readers /\ e.next = <<>> /\ e.indexInBatch = k
      /\ e.closing = r.closing
  <2>1. /\ r = [next |-> r.next, indexInBatch |-> k, closing |-> r.closing]
        /\ k \in Nat /\ r.closing \in BOOLEAN
    BY <1>1 DEF Readers
  <2>2. e = [next |-> <<>>, indexInBatch |-> k, closing |-> r.closing]
    BY <2>1
  <2> HIDE DEF e, k
  <2>3. <<>> \in Seq(Rec)  OBVIOUS
  <2> QED  BY <2>1, <2>2, <2>3 DEF Readers
<1>3. Given(t, r) = k - 1  BY DEF Given
<1>4. /\ u \in Seq(Rec) /\ Len(u) = Len(t) - (k - 1) /\ u # <<>>
      /\ \A n \in 1 .. Len(t) - (k - 1) : u[n] = t[(k - 1) + n]
  BY <1>0, <1>3, LeftIs
<1> HIDE DEF u, e, k
<1>5. /\ Tail(u) \in Seq(Rec) /\ Len(Tail(u)) = Len(t) - k
      /\ \A n \in 1 .. Len(t) - k : Tail(u)[n] = u[n + 1]
  BY <1>1, <1>4
<1>6. ASSUME NEW n \in 1 .. Len(t) - k PROVE Tail(u)[n] = t[k + n]
  <2>1. n + 1 \in 1 .. Len(t) - (k - 1) /\ (k - 1) + (n + 1) = k + n  BY <1>1
  <2> QED  BY <1>4, <1>5, <2>1
<1>7. CASE r.closing
  <2>1. q = e  BY <1>2, <1>7 DEF Pull
  <2>2. ReaderOk(t, q)
    BY <1>1, <1>2, <1>7, <2>1 DEF ReaderOk
  <2>3. Given(t, q) = Len(t) /\ k = Len(t)  BY <1>1, <1>2, <1>7, <2>1 DEF Given
  <2>4. Left(t, q) = Tail(u)
    <3>1. Len(Tail(u)) = Len(t) - Given(t, q)  BY <1>5, <2>3
    <3>2. \A n \in 1 .. Len(Tail(u)) : Tail(u)[n] = t[Given(t, q) + n]
      BY <1>5, <1>6, <2>3
    <3>3. t \in Seq(Rec) /\ Tail(u) \in Seq(Rec) /\ ReaderOk(t, q)
      BY <1>0, <1>5, <2>2
    <3> HIDE DEF q, t
    <3> QED  BY <3>1, <3>2, <3>3, LeftSame
  <2> QED  BY <2>2, <2>4 DEF u, e
<1>8. CASE ~r.closing
  <2> DEFINE b == k + 1 >= Len(t)
  <2>1. q = [next |-> <<t[k + 1]>>, indexInBatch |-> k + 1, closing |-> b]
    BY <1>2, <1>8 DEF Pull
  <2> HIDE DEF t
  <2>2. /\ k + 1 \in 1 .. Len(t) /\ t[k + 1] \in Rec /\ k + 1 \in Nat
        /\ b \in BOOLEAN /\ (b <=> k + 1 = Len(t))
    <3>1. k + 1 \in 1 .. Len(t) /\ k + 1 \in Nat  BY <1>1, <1>8
    <3>2. b \in BOOLEAN /\ (b <=> k + 1 = Len(t))  BY <1>1, <3>1
    <3> QED  BY <1>0, <3>1, <3>2
  <2> HIDE DEF b
  <2>3. <<t[k + 1]>> \in Seq(Rec) /\ <<t[k + 1]>> # <<>>  BY <2>2
  <2>4. q \in Readers /\ q.next = <<t[k + 1]>> /\ q.indexInBatch = k + 1
        /\ q.closing = b
    BY <2>1, <2>2, <2>3 DEF Readers
  <2> HIDE DEF q
  <2>5. ReaderOk(t, q)  BY <2>2, <2>4 DEF ReaderOk
  <2>6. Given(t, q) = k
    <3>1. Given(t, q) = (k + 1) - 1  BY <2>3, <2>4 DEF Given
    <3> QED  BY <1>1, <3>1
  <2>7. Left(t, q) = Tail(u)
    <3>1. Len(Tail(u)) = Len(t) - Given(t, q)  BY <1>5, <2>6
    <3>2. \A n \in 1 .. Len(Tail(u)) : Tail(u)[n] = t[Given(t, q) + n]
      BY <1>5, <1>6, <2>6
    <3>3. t \in Seq(Rec) /\ Tail(u) \in Seq(Rec) /\ ReaderOk(t, q)
      BY <1>0, <1>5, <2>5
    <3> QED  BY <3>1, <3>2, <3>3, LeftSame
  <2> QED  BY <2>5, <2>7 DEF u, e, t, q
<1> QED  BY <1>7, <1>8

-----------------------------------------------------------------------------
(***************************************************************************)
(* The merge.                                                              *)
(***************************************************************************)
\* Only the keys count in NotAfter.
LEMMA NotAfterKeys ==
  ASSUME NEW a, NEW b, NEW x, NEW y, NEW cmp, NotAfter(a, b, cmp),
         x.key = a.key, y.key = b.key
  PROVE  NotAfter(x, y, cmp)
  BY DEF NotAfter

\* An order by key is an order without.
LEMMA NotAfterWeaker ==
  ASSUME NEW x, NEW y, NEW cmp, NEW weak, NotAfter(x, y, cmp), weak => cmp
  PROVE  NotAfter(x, y, weak)
  BY DEF NotAfter

\* The head of iterator i is one that may be next: mergeSort takes a least key.
MayBeNext(w, i, p, some) ==
  /\ i \in 1 .. Len(w) /\ w[i] # <<>> /\ PartitionOf(w[i][1].key) = p
  /\ Comparing /\ some =>
       \A j \in 1 .. Len(w) :
         w[j] # <<>> /\ PartitionOf(w[j][1].key) = p =>
           Rank(w[i][1].key) <= Rank(w[j][1].key)

\* The types of the heads and of the others.
LEMMA WaitTypes ==
  ASSUME ModeOk, NEW w \in Streams
  PROVE  /\ DOMAIN w = 1 .. Len(w) /\ Len(w) \in Nat
         /\ \A j \in 1 .. Len(w) :
              /\ w[j] \in Seq(Rec) /\ Len(w[j]) \in Nat
              /\ DOMAIN w[j] = 1 .. Len(w[j])
         /\ \A j \in 1 .. Len(w) : \A n \in 1 .. Len(w[j]) :
              /\ w[j][n] \in Rec /\ w[j][n].key \in Keys
              /\ PartitionOf(w[j][n].key) \in Nat /\ Rank(w[j][n].key) \in Nat
<1>1. /\ DOMAIN w = 1 .. Len(w) /\ Len(w) \in Nat
      /\ \A j \in 1 .. Len(w) : w[j] \in Seq(Rec)
  BY DEF Streams
<1>2. ASSUME NEW j \in 1 .. Len(w)
      PROVE  /\ w[j] \in Seq(Rec) /\ Len(w[j]) \in Nat
             /\ DOMAIN w[j] = 1 .. Len(w[j])
  BY <1>1
<1>3. ASSUME NEW j \in 1 .. Len(w), NEW n \in 1 .. Len(w[j])
      PROVE  /\ w[j][n] \in Rec /\ w[j][n].key \in Keys
             /\ PartitionOf(w[j][n].key) \in Nat /\ Rank(w[j][n].key) \in Nat
  <2>1. w[j][n] \in Rec  BY <1>2
  <2>2. w[j][n].key \in Keys  BY <2>1, RecParts
  <2>3. PartitionOf(w[j][n].key) \in 0 .. NumPartitions - 1
        /\ Rank(w[j][n].key) \in Nat /\ NumPartitions \in Nat
    BY <2>2, ModeValues
  <2> QED  BY <2>1, <2>2, <2>3
<1> QED  BY <1>1, <1>2, <1>3

\* A record of the current partition has before it, in its iterator, only
\* records of that partition.
LEMMA HeadOfPartition ==
  ASSUME ModeOk, NEW w \in Streams, NEW p \in Nat, NEW some,
         WaitsSorted(w, some), WaitsLater(w, p),
         NEW j \in 1 .. Len(w), NEW n \in 1 .. Len(w[j]),
         PartitionOf(w[j][n].key) = p
  PROVE  /\ w[j] # <<>> /\ 1 \in 1 .. Len(w[j])
         /\ PartitionOf(w[j][1].key) = p
         /\ (IF some THEN Comparing ELSE Ordering) =>
              Rank(w[j][1].key) <= Rank(w[j][n].key)
<1> DEFINE cmp == IF some THEN Comparing ELSE Ordering
<1>1. /\ Len(w[j]) \in Nat /\ w[j] \in Seq(Rec) /\ DOMAIN w = 1 .. Len(w)
      /\ DOMAIN w[j] = 1 .. Len(w[j])
  BY WaitTypes
<1>2. w[j] # <<>> /\ 1 \in 1 .. Len(w[j])  BY <1>1
<1>3. /\ w[j][1] \in Rec /\ PartitionOf(w[j][1].key) \in Nat
      /\ Rank(w[j][1].key) \in Nat /\ w[j][n] \in Rec
      /\ Rank(w[j][n].key) \in Nat
  BY <1>2, WaitTypes
<1>4. CASE n = 1  BY <1>2, <1>3, <1>4
<1>5. CASE n # 1
  <2>1. 1 < n  BY <1>1, <1>5
  <2>2. NotAfter(w[j][1], w[j][n], cmp)
    BY <1>1, <1>2, <2>1 DEF WaitsSorted
  <2>3. p <= PartitionOf(w[j][1].key)  BY <1>1, <1>2 DEF WaitsLater
  <2> HIDE DEF cmp
  <2>4. PartitionOf(w[j][1].key) = p  BY <1>3, <2>2, <2>3 DEF NotAfter
  <2>5. cmp => Rank(w[j][1].key) <= Rank(w[j][n].key)
    BY <2>2, <2>4 DEF NotAfter
  <2> QED  BY <1>2, <2>4, <2>5 DEF cmp
<1> QED  BY <1>4, <1>5

\* The next record comes before all that wait.
LEMMA HeadFirst ==
  ASSUME ModeOk, NEW w \in Streams, NEW p \in Nat, NEW some \in BOOLEAN,
         WaitsSorted(w, some), WaitsLater(w, p), NEW i, MayBeNext(w, i, p, some),
         NEW j \in 1 .. Len(w), NEW n \in 1 .. Len(w[j])
  PROVE  NotAfter(w[i][1], w[j][n], IF some THEN Comparing ELSE Ordering)
<1> DEFINE cmp == IF some THEN Comparing ELSE Ordering
           r == w[i][1]
           x == w[j][n]
<1>1. i \in 1 .. Len(w) /\ w[i] # <<>> /\ PartitionOf(r.key) = p
  BY DEF MayBeNext
<1>2. /\ DOMAIN w = 1 .. Len(w) /\ DOMAIN w[j] = 1 .. Len(w[j])
      /\ Len(w[i]) \in Nat /\ w[i] \in Seq(Rec)
  BY <1>1, WaitTypes
<1>3. 1 \in 1 .. Len(w[i])  BY <1>1, <1>2
<1>4. /\ Rank(r.key) \in Nat /\ Rank(x.key) \in Nat
      /\ PartitionOf(x.key) \in Nat
  BY <1>1, <1>3, WaitTypes
<1>5. p <= PartitionOf(x.key)  BY <1>2 DEF WaitsLater
<1>6. CASE PartitionOf(x.key) # p
  <2>1. PartitionOf(r.key) < PartitionOf(x.key)  BY <1>1, <1>4, <1>5, <1>6
  <2> QED  BY <2>1 DEF NotAfter
<1>7. CASE PartitionOf(x.key) = p
  <2>1. ASSUME cmp PROVE Rank(r.key) <= Rank(x.key)
    <3> DEFINE h == w[j][1]
    <3>1. /\ w[j] # <<>> /\ 1 \in 1 .. Len(w[j]) /\ PartitionOf(h.key) = p
          /\ Rank(h.key) <= Rank(x.key)
      BY <1>7, <2>1, HeadOfPartition
    <3>2. Rank(h.key) \in Nat  BY <3>1, WaitTypes
    <3>3. CASE some
      <4>1. Rank(r.key) <= Rank(h.key)  BY <2>1, <3>1, <3>3 DEF MayBeNext
      <4> QED  BY <1>4, <3>1, <3>2, <4>1
    <3>4. CASE ~some
      <4>1. i = j  BY <1>1, <1>2, <3>4 DEF WaitsSorted
      <4> QED  BY <3>1, <4>1
    <3> QED  BY <3>3, <3>4
  <2> HIDE DEF cmp
  <2>2. NotAfter(r, x, cmp)  BY <1>1, <1>7, <2>1 DEF NotAfter
  <2> QED  BY <2>2 DEF cmp
<1> QED  BY <1>6, <1>7

\* What waits when the head of iterator i has been taken.
LEMMA TakenHead ==
  ASSUME ModeOk, NEW w \in Streams, NEW i \in 1 .. Len(w), w[i] # <<>>,
         NEW v, Replaces(w, i, Tail(w[i]), v)
  PROVE  /\ v \in Streams /\ Len(v) = Len(w) /\ DOMAIN v = 1 .. Len(w)
         /\ \A j \in 1 .. Len(w) : DOMAIN v[j] = 1 .. Len(v[j])
         /\ \A j \in 1 .. Len(w), n \in Nat :
              n \in 1 .. Len(v[j]) =>
                LET m == IF j = i THEN n + 1 ELSE n
                IN  m \in 1 .. Len(w[j]) /\ v[j][n] = w[j][m]
<1>1. /\ v \in Streams /\ Len(v) = Len(w) /\ v[i] = Tail(w[i])
      /\ \A j \in 1 .. Len(w) : j # i => v[j] = w[j]
  BY DEF Replaces
<1>2. DOMAIN v = 1 .. Len(w) /\ \A j \in 1 .. Len(w) : DOMAIN v[j] = 1 .. Len(v[j])
  BY <1>1, WaitTypes
<1>3. w[i] \in Seq(Rec) /\ Len(w[i]) \in Nat  BY WaitTypes
<1> DEFINE t == w[i]
<1>4. Len(Tail(t)) = Len(t) - 1 /\ \A n \in 1 .. Len(t) - 1 : Tail(t)[n] = t[n + 1]
  BY <1>3
<1>5. ASSUME NEW j \in 1 .. Len(w), NEW n \in Nat, n \in 1 .. Len(v[j])
      PROVE  LET m == IF j = i THEN n + 1 ELSE n
             IN  m \in 1 .. Len(w[j]) /\ v[j][n] = w[j][m]
  <2>1. CASE j = i
    <3>1. n \in 1 .. Len(t) - 1  BY <1>1, <1>4, <1>5, <2>1
    <3>2. n + 1 \in 1 .. Len(t)  BY <1>3, <3>1
    <3>3. v[j][n] = t[n + 1]  BY <1>1, <1>4, <2>1, <3>1
    <3> QED  BY <2>1, <3>2, <3>3
  <2>2. CASE j # i  BY <1>1, <1>5, <2>2
  <2> QED  BY <2>1, <2>2
<1> QED  BY <1>1, <1>2, <1>5

\* What waits in v waits in w.
Within(v, w) ==
  \A j \in DOMAIN v : \A n \in DOMAIN v[j] :
    j \in DOMAIN w /\ \E m \in DOMAIN w[j] : v[j][n] = w[j][m]

\* They stay sorted and are not of an earlier partition.
LEMMA TakenSorted ==
  ASSUME ModeOk, NEW w \in Streams, NEW i \in 1 .. Len(w), w[i] # <<>>,
         NEW v, Replaces(w, i, Tail(w[i]), v),
         NEW some \in BOOLEAN, NEW p \in Nat,
         WaitsSorted(w, some), WaitsLater(w, p)
  PROVE  WaitsSorted(v, some) /\ WaitsLater(v, p) /\ Within(v, w)
<1> DEFINE cmp == IF some THEN Comparing ELSE Ordering
<1>1. /\ v \in Streams /\ DOMAIN v = 1 .. Len(w) /\ DOMAIN w = 1 .. Len(w)
      /\ \A j \in 1 .. Len(w) : DOMAIN v[j] = 1 .. Len(v[j])
      /\ \A j \in 1 .. Len(w) : DOMAIN w[j] = 1 .. Len(w[j])
      /\ \A j \in 1 .. Len(w), n \in Nat :
           n \in 1 .. Len(v[j]) =>
             LET m == IF j = i THEN n + 1 ELSE n
             IN  m \in 1 .. Len(w[j]) /\ v[j][n] = w[j][m]
  BY TakenHead, WaitTypes
<1>2. ASSUME NEW j \in 1 .. Len(w), NEW n \in 1 .. Len(v[j])
      PROVE  \E m \in 1 .. Len(w[j]) : /\ v[j][n] = w[j][m]
                                       /\ m = IF j = i THEN n + 1 ELSE n
  <2>1. n \in Nat  OBVIOUS
  <2> QED  BY <1>1, <2>1
<1>3. ASSUME NEW j \in DOMAIN v, NEW m \in DOMAIN v[j], NEW n \in DOMAIN v[j],
             m < n
      PROVE  NotAfter(v[j][m], v[j][n], cmp)
  <2>0. j \in 1 .. Len(w) /\ m \in 1 .. Len(v[j]) /\ n \in 1 .. Len(v[j])
    BY <1>1, <1>3
  <2>1. PICK a \in 1 .. Len(w[j]) : /\ v[j][m] = w[j][a]
                                    /\ a = IF j = i THEN m + 1 ELSE m
    BY <1>2, <2>0
  <2>2. PICK b \in 1 .. Len(w[j]) : /\ v[j][n] = w[j][b]
                                    /\ b = IF j = i THEN n + 1 ELSE n
    BY <1>2, <2>0
  <2>3. a < b  BY <1>3, <2>0, <2>1, <2>2
  <2>4. NotAfter(w[j][a], w[j][b], cmp)  BY <1>1, <2>0, <2>3 DEF WaitsSorted
  <2> HIDE DEF cmp
  <2> QED  BY <2>1, <2>2, <2>4
<1>4. WaitsSorted(v, some)  BY <1>1, <1>3 DEF WaitsSorted
<1>5. ASSUME NEW j \in DOMAIN v, NEW n \in DOMAIN v[j]
      PROVE  j \in DOMAIN w /\ \E m \in DOMAIN w[j] : v[j][n] = w[j][m]
  <2>0. j \in 1 .. Len(w) /\ n \in 1 .. Len(v[j])  BY <1>1, <1>5
  <2>1. PICK m \in 1 .. Len(w[j]) : v[j][n] = w[j][m]  BY <1>2, <2>0
  <2> QED  BY <1>1, <2>0, <2>1
<1>6. WaitsLater(v, p)
  <2>1. ASSUME NEW j \in DOMAIN v, NEW n \in DOMAIN v[j]
        PROVE  p <= PartitionOf(v[j][n].key)
    <3>1. PICK m \in DOMAIN w[j] : v[j][n] = w[j][m]  BY <1>5, <2>1
    <3>2. p <= PartitionOf(w[j][m].key)  BY <1>5, <2>1 DEF WaitsLater
    <3> QED  BY <3>1, <3>2
  <2> QED  BY <2>1 DEF WaitsLater
<1> QED  BY <1>4, <1>5, <1>6 DEF Within

\* A sequence of records: its domain and its elements.
LEMMA RecSeq ==
  ASSUME NEW s \in Seq(Rec)
  PROVE  /\ Len(s) \in Nat /\ DOMAIN s = 1 .. Len(s)
         /\ \A i \in DOMAIN s : s[i] \in Rec /\ s[i].key \in Keys
<1>1. Len(s) \in Nat /\ DOMAIN s = 1 .. Len(s)  OBVIOUS
<1>2. ASSUME NEW i \in DOMAIN s PROVE s[i] \in Rec /\ s[i].key \in Keys
  <2>1. s[i] \in Rec  BY <1>1
  <2> QED  BY <2>1, RecParts
<1> QED  BY <1>1, <1>2

\* The elements of a sequence with one more record.
LEMMA AppendIs ==
  ASSUME NEW s \in Seq(Rec), NEW r \in Rec
  PROVE  LET u == Append(s, r)
         IN  /\ u \in Seq(Rec)
             /\ \A i \in DOMAIN u : \/ i \in DOMAIN s /\ u[i] = s[i]
                                    \/ i = Len(s) + 1 /\ u[i] = r
             /\ \A i, j \in DOMAIN u : i < j => i \in DOMAIN s
<1> DEFINE u == Append(s, r)
<1>1. /\ u \in Seq(Rec) /\ DOMAIN u = 1 .. Len(s) + 1 /\ DOMAIN s = 1 .. Len(s)
      /\ Len(s) \in Nat /\ u[Len(s) + 1] = r
      /\ \A i \in 1 .. Len(s) : u[i] = s[i]
  OBVIOUS
<1> HIDE DEF u
<1>2. \A i \in DOMAIN u : i \in 1 .. Len(s) \/ i = Len(s) + 1  BY <1>1
<1>3. \A i, j \in DOMAIN u : i < j => i \in 1 .. Len(s)  BY <1>1
<1> QED  BY <1>1, <1>2, <1>3 DEF u

\* next() without aggregation keeps the order of the merge.
LEMMA TakeOut ==
  ASSUME ModeOk, NEW w \in Streams, NEW p \in Nat, NEW some \in BOOLEAN,
         NEW g \in Seq(Rec), NEW o \in Seq(Rec), MergeOk(w, g, o, p, some),
         ~(Aggregate /\ some),
         NEW i, MayBeNext(w, i, p, some), NEW v, Replaces(w, i, Tail(w[i]), v)
  PROVE  MergeOk(v, g, Append(o, w[i][1]), p, some)
<1> DEFINE r == w[i][1]
           u == Append(o, r)
           cmp == IF some THEN Comparing ELSE Ordering
<1>1. i \in 1 .. Len(w) /\ w[i] # <<>>  BY DEF MayBeNext
<1>2. /\ DOMAIN w = 1 .. Len(w) /\ Len(w[i]) \in Nat /\ w[i] \in Seq(Rec)
      /\ \A j \in 1 .. Len(w) : DOMAIN w[j] = 1 .. Len(w[j])
  BY <1>1, WaitTypes
<1>3. 1 \in 1 .. Len(w[i])  BY <1>1, <1>2
<1>4. r \in Rec  BY <1>1, <1>3, WaitTypes
<1>5. /\ WaitsSorted(w, some) /\ WaitsLater(w, p) /\ OutFirst(w, g, o)
      /\ GroupFirst(w, g, p, some)
      /\ Aggregate => KeysApart(w, g, o, some)
  BY DEF MergeOk
<1>6. /\ WaitsSorted(v, some) /\ WaitsLater(v, p)
      /\ \A j \in DOMAIN v : \A n \in DOMAIN v[j] :
           j \in DOMAIN w /\ \E m \in DOMAIN w[j] : v[j][n] = w[j][m]
  <2>1. WaitsSorted(v, some) /\ WaitsLater(v, p) /\ Within(v, w)
    BY <1>1, <1>5, TakenSorted
  <2> QED  BY <2>1 DEF Within
<1>7. g = <<>> /\ DOMAIN g = {}
  <2>1. g = <<>>  BY <1>5 DEF GroupFirst
  <2> QED  BY <2>1
<1>8. /\ u \in Seq(Rec)
      /\ \A j \in DOMAIN u : \/ j \in DOMAIN o /\ u[j] = o[j]
                             \/ j = Len(o) + 1 /\ u[j] = r
      /\ \A j, k \in DOMAIN u : j < k => j \in DOMAIN o
  BY <1>4, AppendIs
<1>9. ASSUME NEW j \in DOMAIN v, NEW n \in DOMAIN v[j]
      PROVE  NotAfter(r, v[j][n], Ordering)
  <2>1. PICK m \in DOMAIN w[j] : v[j][n] = w[j][m]  BY <1>6
  <2>2. j \in 1 .. Len(w) /\ m \in 1 .. Len(w[j])  BY <1>2, <1>6
  <2>3. NotAfter(r, w[j][m], cmp)  BY <1>5, <2>2, HeadFirst
  <2>4. Ordering => cmp  BY DEF Comparing
  <2> HIDE DEF cmp, r
  <2> QED  BY <2>1, <2>3, <2>4, NotAfterWeaker
<1>10. i \in DOMAIN w /\ 1 \in DOMAIN w[i]  BY <1>1, <1>2, <1>3
<1>11. ASSUME NEW j \in DOMAIN o PROVE NotAfter(o[j], r, Ordering)
  BY <1>5, <1>10 DEF OutFirst
<1>14. Aggregate => KeysApart(v, g, u, some)
  <2> HAVE Aggregate
  <2>1. ~some /\ KeysApart(w, g, o, some)  BY <1>5
  <2>2. ASSUME NEW j \in DOMAIN o PROVE o[j].key # r.key
    BY <1>10, <2>1 DEF KeysApart
  <2>3. ASSUME NEW j \in DOMAIN v, NEW n \in DOMAIN v[j]
        PROVE  /\ r.key # v[j][n].key
               /\ \E m \in Nat : m = n + 1 /\ m \in DOMAIN w[j]
                                 /\ v[j][n] = w[j][m]
    <3>1. /\ DOMAIN v = 1 .. Len(w) /\ DOMAIN v[j] = 1 .. Len(v[j])
          /\ \A q \in 1 .. Len(w), l \in Nat :
               l \in 1 .. Len(v[q]) =>
                 LET m == IF q = i THEN l + 1 ELSE l
                 IN  m \in 1 .. Len(w[q]) /\ v[q][l] = w[q][m]
      BY <1>1, TakenHead
    <3>2. j \in 1 .. Len(w) /\ n \in 1 .. Len(v[j]) /\ n \in Nat
      BY <2>3, <3>1
    <3>3. j = i  BY <1>1, <1>2, <1>5, <2>1, <3>2 DEF WaitsSorted
    <3>4. n + 1 \in 1 .. Len(w[j]) /\ v[j][n] = w[j][n + 1]
      BY <3>1, <3>2, <3>3
    <3>5. KeysDiffer(w[i])  BY <1>10, <2>1 DEF KeysApart
    <3>6. n + 1 # 1 /\ n + 1 \in DOMAIN w[i] /\ n + 1 \in Nat
      BY <1>2, <3>2, <3>3, <3>4
    <3>7. w[i][n + 1].key # w[i][1].key  BY <1>10, <3>5, <3>6 DEF KeysDiffer
    <3> QED  BY <3>3, <3>4, <3>6, <3>7
  <2>4. KeysDiffer(u)
    <3>1. ASSUME NEW j \in DOMAIN u, NEW k \in DOMAIN u, u[j].key = u[k].key
          PROVE  j = k
      <4>1. KeysDiffer(o)  BY <2>1 DEF KeysApart
      <4> HIDE DEF u, r
      <4>2. CASE j \in DOMAIN o /\ u[j] = o[j] /\ k \in DOMAIN o /\ u[k] = o[k]
        BY <3>1, <4>1, <4>2 DEF KeysDiffer
      <4>3. CASE j \in DOMAIN o /\ u[j] = o[j] /\ u[k] = r
        BY <2>2, <3>1, <4>3
      <4>4. CASE u[j] = r /\ k \in DOMAIN o /\ u[k] = o[k]
        BY <2>2, <3>1, <4>4
      <4> QED  BY <1>8, <4>2, <4>3, <4>4
    <3> QED  BY <3>1 DEF KeysDiffer
  <2>5. ASSUME NEW j \in DOMAIN v PROVE KeysDiffer(v[j])
    <3>1. ASSUME NEW a \in DOMAIN v[j], NEW b \in DOMAIN v[j],
                 v[j][a].key = v[j][b].key
          PROVE  a = b
      <4>1. PICK m \in Nat : m = a + 1 /\ m \in DOMAIN w[j] /\ v[j][a] = w[j][m]
        BY <2>3
      <4>2. PICK l \in Nat : l = b + 1 /\ l \in DOMAIN w[j] /\ v[j][b] = w[j][l]
        BY <2>3
      <4>3. j \in DOMAIN w  BY <1>6, <3>1
      <4>4. KeysDiffer(w[j])  BY <2>1, <4>3 DEF KeysApart
      <4>5. m = l  BY <3>1, <4>1, <4>2, <4>4 DEF KeysDiffer
      <4>6. a \in Nat /\ b \in Nat
        <5>1. /\ v \in Streams /\ DOMAIN v = 1 .. Len(w)
              /\ \A q \in 1 .. Len(w) : DOMAIN v[q] = 1 .. Len(v[q])
          BY <1>1, TakenHead
        <5>2. DOMAIN v[j] = 1 .. Len(v[j])  BY <5>1
        <5> QED  BY <3>1, <5>2
      <4> QED  BY <4>1, <4>2, <4>5, <4>6
    <3> QED  BY <3>1 DEF KeysDiffer
  <2>6. KeysDiffer(g)  BY <1>7 DEF KeysDiffer
  <2>7. ASSUME NEW j \in DOMAIN u, NEW k \in DOMAIN v, NEW n \in DOMAIN v[k]
        PROVE  u[j].key # v[k][n].key
    <3>1. PICK m \in DOMAIN w[k] : v[k][n] = w[k][m]  BY <1>6
    <3>2. k \in DOMAIN w  BY <1>6
    <3> HIDE DEF u, r
    <3>3. CASE j \in DOMAIN o /\ u[j] = o[j]
      BY <2>1, <3>1, <3>2, <3>3 DEF KeysApart
    <3>4. CASE u[j] = r  BY <2>3, <3>4
    <3> QED  BY <1>8, <3>3, <3>4
  <2> HIDE DEF u
  <2> QED  BY <1>7, <2>4, <2>5, <2>6, <2>7 DEF KeysApart
<1> HIDE DEF u, r
<1>12. OutFirst(v, g, u)
  <2>1. ASSUME NEW j \in DOMAIN u, NEW k \in DOMAIN u, j < k
        PROVE  NotAfter(u[j], u[k], Ordering)
    <3>0. Len(o) \in Nat /\ DOMAIN o = 1 .. Len(o)  BY RecSeq
    <3>1. j \in DOMAIN o /\ u[j] = o[j]
      <4>1. j \in DOMAIN o  BY <1>8, <2>1
      <4>2. j # Len(o) + 1  BY <3>0, <4>1
      <4> QED  BY <1>8, <4>1, <4>2
    <3>2. CASE k \in DOMAIN o /\ u[k] = o[k]
      BY <1>5, <2>1, <3>1, <3>2 DEF OutFirst
    <3>3. CASE u[k] = r  BY <1>11, <3>1, <3>3
    <3> QED  BY <1>8, <3>2, <3>3
  <2>2. ASSUME NEW j \in DOMAIN u, NEW k \in DOMAIN v, NEW n \in DOMAIN v[k]
        PROVE  NotAfter(u[j], v[k][n], Ordering)
    <3>1. PICK m \in DOMAIN w[k] : v[k][n] = w[k][m]  BY <1>6
    <3>2. k \in DOMAIN w  BY <1>6
    <3>3. CASE j \in DOMAIN o /\ u[j] = o[j]
      BY <1>5, <3>1, <3>2, <3>3 DEF OutFirst
    <3>4. CASE u[j] = r  BY <1>9, <3>4
    <3> QED  BY <1>8, <3>3, <3>4
  <2> QED  BY <1>7, <2>1, <2>2 DEF OutFirst
<1>13. GroupFirst(v, g, p, some)  BY <1>7 DEF GroupFirst
<1> QED  BY <1>6, <1>12, <1>13, <1>14 DEF MergeOk, u, r

\* The record r compares as equal with the keys of the group g.
Shares(g, r) == \A j \in DOMAIN g : Rank(g[j].key) = Rank(r.key)

\* The keys of h are those of g and of r.
KeysFrom(h, g, r) ==
  \A j \in DOMAIN h : \/ h[j].key = r.key
                      \/ \E k \in DOMAIN g : h[j].key = g[k].key

\* No item that may be next belongs to the group.
NoneShares(w, g, p, some) ==
  \A i : MayBeNext(w, i, p, some) => ~Shares(g, w[i][1])

\* No iterator has an item of partition p ready.
NoneOfPartition(w, p) ==
  \A j \in 1 .. Len(w) : w[j] # <<>> => PartitionOf(w[j][1].key) # p

\* Taking one more item of the group keeps the order of the merge.
LEMMA TakeGroup ==
  ASSUME ModeOk, NEW w \in Streams, NEW p \in Nat, NEW some \in BOOLEAN,
         NEW g \in Seq(Rec), NEW o \in Seq(Rec), MergeOk(w, g, o, p, some),
         NEW i, MayBeNext(w, i, p, some),
         Shares(g, w[i][1]),
         NEW v, Replaces(w, i, Tail(w[i]), v),
         NEW h \in Seq(Rec), KeysDiffer(h), KeysFrom(h, g, w[i][1])
  PROVE  Aggregate /\ some => MergeOk(v, h, o, p, some)
<1> DEFINE r == w[i][1]
           cmp == IF some THEN Comparing ELSE Ordering
<1>1. i \in 1 .. Len(w) /\ w[i] # <<>> /\ PartitionOf(r.key) = p
  BY DEF MayBeNext
<1>2. /\ DOMAIN w = 1 .. Len(w) /\ Len(w[i]) \in Nat /\ w[i] \in Seq(Rec)
      /\ \A j \in 1 .. Len(w) : DOMAIN w[j] = 1 .. Len(w[j])
  BY <1>1, WaitTypes
<1>3. 1 \in 1 .. Len(w[i])  BY <1>1, <1>2
<1>5. /\ WaitsSorted(w, some) /\ WaitsLater(w, p) /\ OutFirst(w, g, o)
      /\ GroupFirst(w, g, p, some)
      /\ Aggregate => KeysApart(w, g, o, some)
  BY DEF MergeOk
<1>6. /\ WaitsSorted(v, some) /\ WaitsLater(v, p)
      /\ \A j \in DOMAIN v : \A n \in DOMAIN v[j] :
           j \in DOMAIN w /\ \E m \in DOMAIN w[j] : v[j][n] = w[j][m]
  <2>1. WaitsSorted(v, some) /\ WaitsLater(v, p) /\ Within(v, w)
    BY <1>1, <1>5, TakenSorted
  <2> QED  BY <2>1 DEF Within
<1> HAVE Aggregate /\ some
<1>9. ASSUME NEW j \in DOMAIN v, NEW n \in DOMAIN v[j]
      PROVE  NotAfter(r, v[j][n], TRUE)
  <2>1. PICK m \in DOMAIN w[j] : v[j][n] = w[j][m]  BY <1>6
  <2>2. j \in 1 .. Len(w) /\ m \in 1 .. Len(w[j])  BY <1>2, <1>6
  <2>3. NotAfter(r, w[j][m], cmp)  BY <1>5, <2>2, HeadFirst
  <2>4. cmp  BY DEF Comparing
  <2> HIDE DEF cmp, r
  <2> QED  BY <2>1, <2>3, <2>4, NotAfterWeaker
<1>10. i \in DOMAIN w /\ 1 \in DOMAIN w[i]  BY <1>1, <1>2, <1>3
<1>11. \A j \in DOMAIN o : NotAfter(o[j], r, Ordering) /\ o[j].key # r.key
  BY <1>5, <1>10 DEF OutFirst, KeysApart
<1>12. \A j \in DOMAIN h : \/ h[j].key = r.key
                           \/ \E k \in DOMAIN g : h[j].key = g[k].key
  BY DEF KeysFrom
<1>13. \A j \in DOMAIN g : Rank(g[j].key) = Rank(r.key)  BY DEF Shares
<1> HIDE DEF r
<1>14. OutFirst(v, h, o)
  <2>1. ASSUME NEW j \in DOMAIN o, NEW k \in DOMAIN h
        PROVE  NotAfter(o[j], h[k], Ordering)
    <3>1. CASE h[k].key = r.key  BY <1>11, <3>1, NotAfterKeys
    <3>2. ASSUME NEW n \in DOMAIN g, h[k].key = g[n].key
          PROVE  NotAfter(o[j], h[k], Ordering)
      <4>1. NotAfter(o[j], g[n], Ordering)  BY <1>5 DEF OutFirst
      <4> QED  BY <3>2, <4>1, NotAfterKeys
    <3> QED  BY <1>12, <3>1, <3>2
  <2>2. ASSUME NEW j \in DOMAIN o, NEW k \in DOMAIN v, NEW n \in DOMAIN v[k]
        PROVE  NotAfter(o[j], v[k][n], Ordering)
    <3>1. PICK m \in DOMAIN w[k] : v[k][n] = w[k][m]  BY <1>6
    <3>2. k \in DOMAIN w  BY <1>6
    <3> QED  BY <1>5, <3>1, <3>2 DEF OutFirst
  <2> QED  BY <1>5, <2>1, <2>2 DEF OutFirst
<1>15. GroupFirst(v, h, p, some)
  <2>1. ASSUME NEW j \in DOMAIN h
        PROVE  Rank(h[j].key) = Rank(r.key) /\ PartitionOf(h[j].key) = p
    <3>1. CASE h[j].key = r.key  BY <1>1, <3>1
    <3>2. ASSUME NEW n \in DOMAIN g, h[j].key = g[n].key
          PROVE  Rank(h[j].key) = Rank(r.key) /\ PartitionOf(h[j].key) = p
      BY <1>5, <1>13, <3>2 DEF GroupFirst
    <3> QED  BY <1>12, <3>1, <3>2
  <2>2. ASSUME NEW j \in DOMAIN h, NEW k \in DOMAIN v, NEW n \in DOMAIN v[k]
        PROVE  NotAfter(h[j], v[k][n], TRUE)
    <3>1. CASE h[j].key = r.key  BY <1>9, <3>1, NotAfterKeys
    <3>2. ASSUME NEW l \in DOMAIN g, h[j].key = g[l].key
          PROVE  NotAfter(h[j], v[k][n], TRUE)
      <4>1. PICK m \in DOMAIN w[k] : v[k][n] = w[k][m]  BY <1>6
      <4>2. k \in DOMAIN w  BY <1>6
      <4>3. NotAfter(g[l], w[k][m], TRUE)  BY <1>5, <4>2 DEF GroupFirst
      <4> QED  BY <3>2, <4>1, <4>3, NotAfterKeys
    <3> QED  BY <1>12, <3>1, <3>2
  <2> QED  BY <2>1, <2>2 DEF GroupFirst
<1>16. KeysApart(v, h, o, some)
  <2>1. ASSUME NEW j \in DOMAIN o, NEW k \in DOMAIN h PROVE o[j].key # h[k].key
    BY <1>5, <1>11, <1>12 DEF KeysApart
  <2>2. ASSUME NEW j \in DOMAIN o, NEW k \in DOMAIN v, NEW n \in DOMAIN v[k]
        PROVE  o[j].key # v[k][n].key
    <3>1. PICK m \in DOMAIN w[k] : v[k][n] = w[k][m]  BY <1>6
    <3>2. k \in DOMAIN w  BY <1>6
    <3> QED  BY <1>5, <3>1, <3>2 DEF KeysApart
  <2>3. KeysDiffer(o)  BY <1>5 DEF KeysApart
  <2> QED  BY <2>1, <2>2, <2>3 DEF KeysApart
<1> QED  BY <1>6, <1>14, <1>15, <1>16 DEF MergeOk

\* The elements of a concatenation, one way or the other.
LEMMA ConcatCases ==
  ASSUME NEW s \in Seq(Rec), NEW t \in Seq(Rec)
  PROVE  LET u == s \o t
         IN  /\ u \in Seq(Rec)
             /\ \A i \in DOMAIN u :
                  \/ i \in DOMAIN s /\ u[i] = s[i]
                  \/ \E j \in DOMAIN t : i = Len(s) + j /\ u[i] = t[j]
<1> DEFINE u == s \o t
<1>1. /\ u \in Seq(Rec) /\ Len(u) = Len(s) + Len(t)
      /\ \A i \in 1 .. Len(s) : u[i] = s[i]
      /\ \A i \in 1 .. Len(t) : u[Len(s) + i] = t[i]
  BY ConcatIs
<1>2. /\ Len(s) \in Nat /\ Len(t) \in Nat
      /\ DOMAIN s = 1 .. Len(s) /\ DOMAIN t = 1 .. Len(t)
  OBVIOUS
<1> HIDE DEF u
<1>3. DOMAIN u = 1 .. Len(s) + Len(t)  BY <1>1
<1>4. ASSUME NEW i \in DOMAIN u
      PROVE  \/ i \in DOMAIN s /\ u[i] = s[i]
             \/ \E j \in DOMAIN t : i = Len(s) + j /\ u[i] = t[j]
  <2>1. CASE i <= Len(s)  BY <1>1, <1>2, <1>3, <2>1
  <2>2. CASE ~(i <= Len(s))
    <3> DEFINE j == i - Len(s)
    <3>1. j \in 1 .. Len(t) /\ i = Len(s) + j  BY <1>2, <1>3, <2>2
    <3> HIDE DEF j
    <3> QED  BY <1>1, <1>2, <3>1
  <2> QED  BY <2>1, <2>2
<1> QED  BY <1>1, <1>4 DEF u

\* If there is an item of the current partition, one of them may be next.
LEMMA OneMayBeNext ==
  ASSUME ModeOk, NEW w \in Streams, NEW p \in Nat, NEW some \in BOOLEAN,
         NEW k \in 1 .. Len(w), w[k] # <<>>, PartitionOf(w[k][1].key) = p
  PROVE  \E i : /\ MayBeNext(w, i, p, some)
                /\ Rank(w[i][1].key) <= Rank(w[k][1].key)
<1> DEFINE N == {j \in 1 .. Len(w) : w[j] # <<>> /\ PartitionOf(w[j][1].key) = p}
           T == {Rank(w[j][1].key) : j \in N}
<1>1. ASSUME NEW j \in N PROVE Rank(w[j][1].key) \in Nat
  <2>1. w[j] \in Seq(Rec) /\ Len(w[j]) \in Nat  BY WaitTypes
  <2>2. 1 \in 1 .. Len(w[j])  BY <2>1
  <2> QED  BY <2>2, WaitTypes
<1>2. k \in N  OBVIOUS
<1>3. T \in SUBSET Nat /\ T # {}  BY <1>1, <1>2
<1>4. PICK m \in T : \A x \in T : m <= x  BY <1>3, LeastNat
<1>5. PICK i \in N : m = Rank(w[i][1].key)  OBVIOUS
<1>6. ASSUME NEW j \in N PROVE Rank(w[i][1].key) <= Rank(w[j][1].key)
  BY <1>4, <1>5
<1>7. MayBeNext(w, i, p, some)  BY <1>6 DEF MayBeNext
<1> QED  BY <1>2, <1>6, <1>7

\* Returning the group keeps the order of the merge.
LEMMA ReturnOk ==
  ASSUME ModeOk, NEW w \in Streams, NEW p \in Nat, NEW some \in BOOLEAN,
         NEW g \in Seq(Rec), NEW o \in Seq(Rec), MergeOk(w, g, o, p, some),
         g # <<>>,
         NoneShares(w, g, p, some)
  PROVE  MergeOk(w, <<>>, o \o g, p, some)
<1> DEFINE u == o \o g
<1>1. /\ WaitsSorted(w, some) /\ WaitsLater(w, p) /\ OutFirst(w, g, o)
      /\ GroupFirst(w, g, p, some)
      /\ Aggregate => KeysApart(w, g, o, some)
  BY DEF MergeOk
<1>2. Aggregate /\ some  BY <1>1 DEF GroupFirst
<1>3. KeysApart(w, g, o, some)  BY <1>1, <1>2
<1>4. /\ u \in Seq(Rec)
      /\ \A i \in DOMAIN u :
           \/ i \in DOMAIN o /\ u[i] = o[i]
           \/ \E j \in DOMAIN g : i = Len(o) + j /\ u[i] = g[j]
  BY ConcatCases
<1>5. /\ Len(o) \in Nat /\ DOMAIN o = 1 .. Len(o)
      /\ DOMAIN g = 1 .. Len(g) /\ Len(g) \in Nat
      /\ \A j \in DOMAIN g : g[j] \in Rec /\ g[j].key \in Keys
  BY RecSeq
<1> HIDE DEF u
<1>6. \A j \in DOMAIN g : Rank(g[j].key) \in Nat  BY <1>5, ModeValues
<1>7. ASSUME NEW j \in DOMAIN g, NEW k \in DOMAIN w, NEW n \in DOMAIN w[k],
             g[j].key = w[k][n].key
      PROVE  FALSE
  <2>0. k \in 1 .. Len(w) /\ n \in 1 .. Len(w[k])  BY WaitTypes
  <2>1. PartitionOf(w[k][n].key) = p  BY <1>1, <1>7 DEF GroupFirst
  <2>2. /\ w[k] # <<>> /\ 1 \in 1 .. Len(w[k])
        /\ PartitionOf(w[k][1].key) = p
        /\ (IF some THEN Comparing ELSE Ordering) =>
             Rank(w[k][1].key) <= Rank(w[k][n].key)
    BY <1>1, <2>0, <2>1, HeadOfPartition
  <2>3. Rank(w[k][1].key) <= Rank(g[j].key)
    BY <1>2, <1>7, <2>2 DEF Comparing
  <2>4. PICK i : /\ MayBeNext(w, i, p, some)
                 /\ Rank(w[i][1].key) <= Rank(w[k][1].key)
    BY <2>0, <2>2, OneMayBeNext
  <2>5. PICK l \in DOMAIN g : Rank(g[l].key) # Rank(w[i][1].key)
    BY <2>4 DEF NoneShares, Shares
  <2>6. /\ i \in 1 .. Len(w) /\ w[i] # <<>> /\ PartitionOf(w[i][1].key) = p
        /\ w[i] \in Seq(Rec) /\ Len(w[i]) \in Nat /\ DOMAIN w = 1 .. Len(w)
        /\ DOMAIN w[i] = 1 .. Len(w[i])
    BY <2>4, WaitTypes DEF MayBeNext
  <2>7. 1 \in 1 .. Len(w[i])  BY <2>6
  <2>8. Rank(w[i][1].key) \in Nat /\ Rank(w[k][1].key) \in Nat
    BY <2>0, <2>2, <2>6, <2>7, WaitTypes
  <2>9. NotAfter(g[l], w[i][1], TRUE)  BY <1>1, <2>6, <2>7 DEF GroupFirst
  <2>10. PartitionOf(g[l].key) = p /\ p \in Nat  BY <1>1 DEF GroupFirst
  <2>11. Rank(g[l].key) <= Rank(w[i][1].key)
    BY <2>6, <2>9, <2>10 DEF NotAfter
  <2>12. Rank(g[l].key) = Rank(g[j].key)  BY <1>1 DEF GroupFirst
  <2> QED  BY <1>6, <2>3, <2>4, <2>5, <2>8, <2>11, <2>12
<1>8. OutFirst(w, <<>>, u)
  <2>1. ASSUME NEW j \in DOMAIN u, NEW k \in DOMAIN u, j < k
        PROVE  NotAfter(u[j], u[k], Ordering)
    <3>1. CASE j \in DOMAIN o /\ u[j] = o[j] /\ k \in DOMAIN o /\ u[k] = o[k]
      BY <1>1, <2>1, <3>1 DEF OutFirst
    <3>2. ASSUME NEW b \in DOMAIN g, j \in DOMAIN o, u[j] = o[j], u[k] = g[b]
          PROVE  NotAfter(u[j], u[k], Ordering)
      BY <1>1, <3>2 DEF OutFirst
    <3>3. ASSUME NEW a \in DOMAIN g, j = Len(o) + a, k \in DOMAIN o
          PROVE  FALSE
      BY <1>5, <2>1, <3>3
    <3>4. ASSUME NEW a \in DOMAIN g, NEW b \in DOMAIN g, u[j] = g[a], u[k] = g[b]
          PROVE  NotAfter(u[j], u[k], Ordering)
      <4>1. /\ PartitionOf(g[a].key) = p /\ PartitionOf(g[b].key) = p
            /\ Rank(g[a].key) = Rank(g[b].key)
        BY <1>1 DEF GroupFirst
      <4>2. Rank(g[a].key) <= Rank(g[b].key)  BY <1>6, <4>1
      <4> QED  BY <3>4, <4>1, <4>2 DEF NotAfter
    <3> QED  BY <1>4, <3>1, <3>2, <3>3, <3>4
  <2>2. ASSUME NEW j \in DOMAIN u, NEW k \in DOMAIN w, NEW n \in DOMAIN w[k]
        PROVE  NotAfter(u[j], w[k][n], Ordering)
    <3>1. CASE j \in DOMAIN o /\ u[j] = o[j]  BY <1>1, <3>1 DEF OutFirst
    <3>2. ASSUME NEW a \in DOMAIN g, u[j] = g[a]
          PROVE  NotAfter(u[j], w[k][n], Ordering)
      <4>1. NotAfter(g[a], w[k][n], TRUE)  BY <1>1 DEF GroupFirst
      <4> QED  BY <3>2, <4>1, NotAfterWeaker
    <3> QED  BY <1>4, <3>1, <3>2
  <2> QED  BY <2>1, <2>2 DEF OutFirst
<1>9. GroupFirst(w, <<>>, p, some)  BY DEF GroupFirst
<1>10. KeysApart(w, <<>>, u, some)
  <2>1. KeysDiffer(u)
    <3>1. ASSUME NEW j \in DOMAIN u, NEW k \in DOMAIN u, u[j].key = u[k].key
          PROVE  j = k
      <4>1. CASE j \in DOMAIN o /\ u[j] = o[j] /\ k \in DOMAIN o /\ u[k] = o[k]
        BY <1>3, <3>1, <4>1 DEF KeysApart, KeysDiffer
      <4>2. ASSUME NEW b \in DOMAIN g, j \in DOMAIN o, u[j] = o[j], u[k] = g[b]
            PROVE  FALSE
        BY <1>3, <3>1, <4>2 DEF KeysApart
      <4>3. ASSUME NEW a \in DOMAIN g, u[j] = g[a], k \in DOMAIN o, u[k] = o[k]
            PROVE  FALSE
        BY <1>3, <3>1, <4>3 DEF KeysApart
      <4>4. ASSUME NEW a \in DOMAIN g, NEW b \in DOMAIN g,
                   j = Len(o) + a, u[j] = g[a], k = Len(o) + b, u[k] = g[b]
            PROVE  j = k
        <5>1. a = b  BY <1>3, <3>1, <4>4 DEF KeysApart, KeysDiffer
        <5> QED  BY <4>4, <5>1
      <4> QED  BY <1>4, <4>1, <4>2, <4>3, <4>4
    <3> QED  BY <3>1 DEF KeysDiffer
  <2>2. ASSUME NEW j \in DOMAIN u, NEW k \in DOMAIN w, NEW n \in DOMAIN w[k]
        PROVE  u[j].key # w[k][n].key
    <3>1. CASE j \in DOMAIN o /\ u[j] = o[j]  BY <1>3, <3>1 DEF KeysApart
    <3>2. ASSUME NEW a \in DOMAIN g, u[j] = g[a] PROVE u[j].key # w[k][n].key
      BY <1>7, <3>2
    <3> QED  BY <1>4, <3>1, <3>2
  <2>3. KeysDiffer(<<>>)  BY DEF KeysDiffer
  <2> QED  BY <1>2, <2>1, <2>2, <2>3 DEF KeysApart
<1> QED  BY <1>1, <1>8, <1>9, <1>10 DEF MergeOk, u

\* The next partition: what waits is of a later one.
LEMMA NextPartOk ==
  ASSUME ModeOk, NEW w \in Streams, NEW p \in Nat, NEW some \in BOOLEAN,
         NEW o \in Seq(Rec), MergeOk(w, <<>>, o, p, some),
         NoneOfPartition(w, p)
  PROVE  MergeOk(w, <<>>, o, p + 1, some)
<1>1. /\ WaitsSorted(w, some) /\ WaitsLater(w, p) /\ OutFirst(w, <<>>, o)
      /\ GroupFirst(w, <<>>, p, some)
      /\ Aggregate => KeysApart(w, <<>>, o, some)
  BY DEF MergeOk
<1>2. WaitsLater(w, p + 1)
  <2>1. ASSUME NEW j \in DOMAIN w, NEW n \in DOMAIN w[j]
        PROVE  p + 1 <= PartitionOf(w[j][n].key)
    <3>1. j \in 1 .. Len(w) /\ n \in 1 .. Len(w[j])  BY <2>1, WaitTypes
    <3>2. PartitionOf(w[j][n].key) # p
      BY <1>1, <3>1, HeadOfPartition DEF NoneOfPartition
    <3>3. p <= PartitionOf(w[j][n].key)  BY <1>1, <2>1 DEF WaitsLater
    <3>4. PartitionOf(w[j][n].key) \in Nat  BY <3>1, WaitTypes
    <3> QED  BY <3>2, <3>3, <3>4
  <2> QED  BY <2>1 DEF WaitsLater
<1>3. GroupFirst(w, <<>>, p + 1, some)  BY DEF GroupFirst
<1> QED  BY <1>1, <1>2, <1>3 DEF MergeOk

\* The start of the merge.
LEMMA StartOk ==
  ASSUME ModeOk, NEW w \in Streams, NEW some \in BOOLEAN, WaitsSorted(w, some),
         Aggregate /\ ~some => \A j \in DOMAIN w : KeysDiffer(w[j])
  PROVE  MergeOk(w, <<>>, <<>>, 0, some)
<1>1. WaitsLater(w, 0)
  <2>1. ASSUME NEW j \in DOMAIN w, NEW n \in DOMAIN w[j]
        PROVE  0 <= PartitionOf(w[j][n].key)
    <3>1. j \in 1 .. Len(w) /\ n \in 1 .. Len(w[j])  BY <2>1, WaitTypes
    <3>2. PartitionOf(w[j][n].key) \in Nat  BY <3>1, WaitTypes
    <3> QED  BY <3>2
  <2> QED  BY <2>1 DEF WaitsLater
<1>2. OutFirst(w, <<>>, <<>>)  BY DEF OutFirst
<1>3. GroupFirst(w, <<>>, 0, some)  BY DEF GroupFirst
<1>4. Aggregate => KeysApart(w, <<>>, <<>>, some)  BY DEF KeysApart, KeysDiffer
<1> QED  BY <1>1, <1>2, <1>3, <1>4 DEF MergeOk

-----------------------------------------------------------------------------
(***************************************************************************)
(* The mode does not change, so what depends on it does not.               *)
(***************************************************************************)
LEMMA SameMode ==
  ASSUME mode' = mode
  PROVE  /\ ModeOk' = ModeOk /\ Stage' = Stage /\ Ordering' = Ordering
         /\ Aggregate' = Aggregate /\ NumPartitions' = NumPartitions
         /\ Comparing' = Comparing
         /\ \A k : PartitionOf(k)' = PartitionOf(k)
         /\ \A k : Rank(k)' = Rank(k)
         /\ \A x, y, c : NotAfter(x, y, c)' <=> NotAfter(x, y, c)
  BY DEF ModeOk, Stage, Ordering, Aggregate, NumPartitions, Comparing,
         PartitionOf, Rank, NotAfter

\* The streams are judged by the same mode after the step.
LEMMA SameWellFormed ==
  ASSUME mode' = mode
  PROVE  /\ WellFormed(outs') => WellFormed(outs)'
         /\ StreamPerPartition(outs') => StreamPerPartition(outs)'
  BY DEF WellFormed, StreamOk, StreamPerPartition, Stage, NotAfter, PartitionOf,
         Rank, Ordering, Aggregate, NumPartitions

\* So is the merge.
LEMMA SameMergeOk ==
  ASSUME mode' = mode,
         MergeOk(Waits', group', out', part', outs' # <<>>)
  PROVE  MergeOk(Waits, group, out, part, outs # <<>>)'
<1> DEFINE w == Waits'
           g == group'
           o == out'
           p == part'
           some == outs' # <<>>
<1>1. /\ WaitsSorted(w, some) /\ WaitsLater(w, p) /\ OutFirst(w, g, o)
      /\ GroupFirst(w, g, p, some)
      /\ Aggregate => KeysApart(w, g, o, some)
  BY DEF MergeOk
<1>2. WaitsSorted(Waits, outs # <<>>)'
  BY <1>1 DEF WaitsSorted, NotAfter, PartitionOf, Rank, Ordering, Aggregate,
              NumPartitions, Comparing
<1>3. WaitsLater(Waits, part)'
  BY <1>1 DEF WaitsLater, PartitionOf, NumPartitions
<1>4. OutFirst(Waits, group, out)'
  BY <1>1 DEF OutFirst, NotAfter, PartitionOf, Rank, Ordering, NumPartitions
<1>5. GroupFirst(Waits, group, part, outs # <<>>)'
  BY <1>1 DEF GroupFirst, NotAfter, PartitionOf, Rank, Ordering, Aggregate,
              NumPartitions
<1>6. (Aggregate => KeysApart(Waits, group, out, outs # <<>>))'
  BY <1>1 DEF Aggregate, KeysApart, KeysDiffer
<1> QED  BY <1>2, <1>3, <1>4, <1>5, <1>6 DEF MergeOk

-----------------------------------------------------------------------------
(***************************************************************************)
(* What the iterators of merge have ready and give.                        *)
(***************************************************************************)
ReadersOk(o, q) ==
  /\ DOMAIN q = 1 .. Len(o) /\ Len(q) = Len(o)
  /\ \A i \in 1 .. Len(o) : ReaderOk(o[i], q[i])

\* What the readers have left.
LEMMA LeftTypes ==
  ASSUME NEW o \in Streams, NEW q, ReadersOk(o, q)
  PROVE  LET l == [i \in 1 .. Len(q) |-> Left(o[i], q[i])]
         IN  /\ l \in Streams /\ Len(l) = Len(q) /\ DOMAIN l = 1 .. Len(o)
             /\ \A i \in 1 .. Len(o) : l[i] = Left(o[i], q[i])
<1> DEFINE l == [i \in 1 .. Len(q) |-> Left(o[i], q[i])]
<1>1. /\ Len(q) = Len(o) /\ Len(o) \in Nat
      /\ \A i \in 1 .. Len(o) : ReaderOk(o[i], q[i]) /\ o[i] \in Seq(Rec)
  BY DEF ReadersOk, Streams
<1>2. \A i \in 1 .. Len(o) : Left(o[i], q[i]) \in Seq(Rec)  BY <1>1, LeftIs
<1>3. l \in [1 .. Len(o) -> Seq(Rec)]  BY <1>1, <1>2
<1>4. DOMAIN l = 1 .. Len(o) /\ \A i \in 1 .. Len(o) : l[i] = Left(o[i], q[i])
  BY <1>1
<1> HIDE DEF l
<1>5. l \in Streams /\ Len(l) = Len(o)  BY <1>1, <1>3, FunSeq, Zenon DEF Streams
<1> QED  BY <1>1, <1>4, <1>5 DEF l

\* The iterators.
LEMMA WaitsIs ==
  ASSUME SorterType, ReadersOk(outs, rd)
  PROVE  /\ LeftOfReaders \in Streams /\ Len(LeftOfReaders) = Len(rd)
         /\ Len(rd) = Len(outs) /\ Len(rd) \in Nat
         /\ \A i \in 1 .. Len(rd) : LeftOfReaders[i] = Left(outs[i], rd[i])
         /\ Waits \in Streams /\ Len(Waits) = Len(rd) + 1
         /\ Iterators = 1 .. Len(Waits)
         /\ \A i \in 1 .. Len(rd) : Waits[i] = LeftOfReaders[i]
         /\ Waits[Len(rd) + 1] = mem
<1> DEFINE l == LeftOfReaders
<1>1. /\ l \in Streams /\ Len(l) = Len(rd) /\ Len(rd) = Len(outs)
      /\ \A i \in 1 .. Len(rd) : l[i] = Left(outs[i], rd[i])
  BY LeftTypes DEF SorterType, LeftOfReaders, ReadersOk
<1>2. mem \in Seq(Rec) /\ Len(rd) \in Nat  BY <1>1 DEF SorterType, Streams
<1> HIDE DEF l
<1>3. Waits = Append(l, mem)  BY DEF Waits, l
<1>4. /\ Waits \in Streams /\ Len(Waits) = Len(l) + 1
      /\ Waits[Len(l) + 1] = mem /\ \A j \in 1 .. Len(l) : Waits[j] = l[j]
  BY <1>1, <1>2, <1>3, StreamNew
<1> QED  BY <1>1, <1>2, <1>4 DEF Iterators, l

\* The item that an iterator has ready is the head of what it has to give.
LEMMA ItemIs ==
  ASSUME SorterType, ReadersOk(outs, rd), NEW i \in Iterators
  PROVE  /\ i \in NonEmptyIterators <=>
              Waits[i] # <<>> /\ PartitionOf(Waits[i][1].key) = part
         /\ i \in NonEmptyIterators => Item(i)[1] = Waits[i][1]
<1> DEFINE s == IF i <= Len(rd) THEN rd[i].next ELSE mem
<1>1. /\ Iterators = 1 .. Len(rd) + 1 /\ Len(rd) \in Nat /\ Len(rd) = Len(outs)
      /\ \A j \in 1 .. Len(rd) : Waits[j] = Left(outs[j], rd[j])
      /\ Waits[Len(rd) + 1] = mem
  BY WaitsIs
<1>2. /\ s = <<>> <=> Waits[i] = <<>>
      /\ s # <<>> => s[1] = Waits[i][1]
  <2>1. CASE i <= Len(rd)
    <3>1. i \in 1 .. Len(rd)  BY <1>1, <2>1
    <3>2. outs[i] \in Seq(Rec) /\ ReaderOk(outs[i], rd[i])
      BY <1>1, <3>1 DEF SorterType, Streams, ReadersOk
    <3>3. /\ rd[i].next # <<>> => /\ Left(outs[i], rd[i]) # <<>>
                                  /\ rd[i].next[1] = Left(outs[i], rd[i])[1]
          /\ rd[i].next = <<>> => Left(outs[i], rd[i]) = <<>>
      BY <3>2, LeftIs
    <3> QED  BY <1>1, <2>1, <3>1, <3>3
  <2>2. CASE ~(i <= Len(rd))
    <3>1. i = Len(rd) + 1  BY <1>1, <2>2
    <3> QED  BY <1>1, <2>2, <3>1
  <2> QED  BY <2>1, <2>2
<1>3. Item(i) = IF s # <<>> /\ PartitionOf(s[1].key) = part THEN <<s[1]>> ELSE <<>>
  BY DEF Item
<1> HIDE DEF s
<1>4. i \in NonEmptyIterators <=> Item(i) # <<>>  BY DEF NonEmptyIterators
<1>5. CASE s # <<>> /\ PartitionOf(s[1].key) = part
  <2>1. Item(i) = <<s[1]>>  BY <1>3, <1>5
  <2>2. Item(i) # <<>> /\ Item(i)[1] = s[1]  BY <2>1
  <2> QED  BY <1>2, <1>4, <1>5, <2>2
<1>6. CASE ~(s # <<>> /\ PartitionOf(s[1].key) = part)
  <2>1. Item(i) = <<>>  BY <1>3, <1>6
  <2> QED  BY <1>2, <1>4, <1>6, <2>1
<1> QED  BY <1>5, <1>6

\* Whose turn it is.
LEMMA TurnIs ==
  ASSUME SorterType, ReadersOk(outs, rd)
  PROVE  /\ \A i \in NonEmptyIterators :
              TurnOf(i) => MayBeNext(Waits, i, part, outs # <<>>)
         /\ Grouping => \A i : MayBeNext(Waits, i, part, outs # <<>>) =>
                                 i \in NonEmptyIterators /\ TurnOf(i)
<1>1. Iterators = 1 .. Len(Waits)  BY WaitsIs
<1>2. \A i \in NonEmptyIterators :
        /\ i \in Iterators /\ Waits[i] # <<>>
        /\ PartitionOf(Waits[i][1].key) = part
        /\ Item(i)[1] = Waits[i][1]
  <2> TAKE i \in NonEmptyIterators
  <2>1. i \in Iterators  BY DEF NonEmptyIterators
  <2> QED  BY <2>1, ItemIs
<1>3. ASSUME NEW i \in NonEmptyIterators, TurnOf(i)
      PROVE  MayBeNext(Waits, i, part, outs # <<>>)
  <2>1. ASSUME Comparing, outs # <<>>, NEW j \in 1 .. Len(Waits),
               Waits[j] # <<>>, PartitionOf(Waits[j][1].key) = part
        PROVE  Rank(Waits[i][1].key) <= Rank(Waits[j][1].key)
    <3>1. j \in NonEmptyIterators  BY <1>1, <2>1, ItemIs
    <3>2. Rank(Item(i)[1].key) <= Rank(Item(j)[1].key)
      BY <1>3, <2>1, <3>1 DEF TurnOf
    <3> QED  BY <1>2, <1>3, <3>1, <3>2
  <2> QED  BY <1>1, <1>2, <1>3, <2>1 DEF MayBeNext
<1>4. ASSUME Grouping, NEW i, MayBeNext(Waits, i, part, outs # <<>>)
      PROVE  i \in NonEmptyIterators /\ TurnOf(i)
  <2>1. Comparing /\ outs # <<>>  BY <1>4 DEF Grouping, Comparing
  <2>2. i \in NonEmptyIterators  BY <1>1, <1>4, ItemIs DEF MayBeNext
  <2>3. ASSUME NEW j \in NonEmptyIterators
        PROVE  Rank(Item(i)[1].key) <= Rank(Item(j)[1].key)
    <3>1. Rank(Waits[i][1].key) <= Rank(Waits[j][1].key)
      BY <1>1, <1>2, <1>4, <2>1 DEF MayBeNext
    <3> QED  BY <1>2, <2>2, <3>1
  <2> QED  BY <2>1, <2>2, <2>3 DEF TurnOf
<1> QED  BY <1>3, <1>4

\* An item leaves iterator i, and nothing else changes in what waits.
LEMMA ConsumeIs ==
  ASSUME SorterType, ReadersOk(outs, rd), outs' = outs,
         NEW i \in NonEmptyIterators, Consume(i)
  PROVE  /\ ReadersOk(outs, rd')
         /\ mem' \in Seq(Rec)
         /\ Replaces(Waits, i, Tail(Waits[i]), Waits')
         /\ \/ /\ i \in 1 .. Len(rd) /\ mem' = mem
               /\ Replaces(LeftOfReaders, i, Tail(LeftOfReaders[i]), LeftOfReaders')
               /\ LeftOfReaders[i] # <<>> /\ LeftOfReaders[i] = Waits[i]
            \/ /\ mem # <<>> /\ mem = Waits[i] /\ mem' = Tail(mem)
               /\ LeftOfReaders' = LeftOfReaders
<1> DEFINE l == LeftOfReaders
           k == Len(rd)
<1>1. /\ l \in Streams /\ Len(l) = k /\ k = Len(outs) /\ k \in Nat
      /\ \A j \in 1 .. k : l[j] = Left(outs[j], rd[j])
      /\ Waits \in Streams /\ Len(Waits) = k + 1 /\ Iterators = 1 .. k + 1
      /\ \A j \in 1 .. k : Waits[j] = l[j]
      /\ Waits[k + 1] = mem
  BY WaitsIs
<1>2. i \in 1 .. k + 1 /\ i \in Iterators  BY <1>1 DEF NonEmptyIterators
<1>3. Waits[i] # <<>>  BY <1>2, ItemIs
<1>4. mem \in Seq(Rec) /\ outs \in Streams  BY DEF SorterType
<1>5. ASSUME NEW m \in Seq(Rec), ReadersOk(outs, rd'), mem' = m
      PROVE  /\ l' \in Streams /\ Len(l') = k /\ Len(rd') = k
             /\ \A j \in 1 .. k : l'[j] = Left(outs[j], rd'[j])
             /\ Waits' \in Streams /\ Len(Waits') = k + 1
             /\ \A j \in 1 .. k : Waits'[j] = l'[j]
             /\ Waits'[k + 1] = m
  <2>1. l' = [j \in 1 .. Len(rd') |-> Left(outs[j], rd'[j])]
    BY DEF LeftOfReaders, Left
  <2>2. Waits' = Append(l', m)  BY <1>5 DEF Waits
  <2> DEFINE q == rd'
             x == l'
             y == Waits'
  <2>3. x = [j \in 1 .. Len(q) |-> Left(outs[j], q[j])]  BY <2>1
  <2>4. ReadersOk(outs, q)  BY <1>5
  <2>5. y = Append(x, m)  BY <2>2
  <2> HIDE DEF q, x, y
  <2>6. /\ x \in Streams /\ Len(x) = Len(q)
        /\ \A j \in 1 .. Len(outs) : x[j] = Left(outs[j], q[j])
    BY <1>4, <2>3, <2>4, LeftTypes
  <2>7. Len(q) = k  BY <1>1, <2>4 DEF ReadersOk
  <2>8. /\ y \in Streams /\ Len(y) = Len(x) + 1
        /\ y[Len(x) + 1] = m /\ \A j \in 1 .. Len(x) : y[j] = x[j]
    BY <1>5, <2>5, <2>6, StreamNew
  <2> QED  BY <1>1, <2>6, <2>7, <2>8 DEF q, x, y
<1>6. CASE i <= k
  <2>1. i \in 1 .. k  BY <1>1, <1>2, <1>6
  <2> DEFINE r == rd[i]
             q == Pull(i, [r EXCEPT !.next = <<>>])
             n == rd'
  <2>2. mem' = mem /\ rd' = [rd EXCEPT ![i] = q]  BY <1>6 DEF Consume
  <2>3. ReaderOk(outs[i], r) /\ outs[i] \in Seq(Rec) /\ l[i] = Left(outs[i], r)
    BY <1>1, <1>4, <2>1 DEF ReadersOk, Streams
  <2>4. r.next # <<>>
    <3>1. Waits[i] = l[i]  BY <1>1, <2>1
    <3> QED  BY <1>3, <2>3, <3>1, LeftIs
  <2> HIDE DEF r
  <2>5. ReaderOk(outs[i], q) /\ Left(outs[i], q) = Tail(l[i])
    BY <2>3, <2>4, PullNext
  <2>6. /\ DOMAIN n = 1 .. k /\ n[i] = q
        /\ \A j \in 1 .. k : j # i => n[j] = rd[j]
    BY <1>1, <2>1, <2>2 DEF ReadersOk
  <2> HIDE DEF q, n
  <2>7. Len(n) = k  BY <1>1, <2>6
  <2>8. ReadersOk(outs, n)
    <3>1. ASSUME NEW j \in 1 .. k PROVE ReaderOk(outs[j], n[j])
      <4>1. CASE j = i  BY <2>5, <2>6, <4>1
      <4>2. CASE j # i  BY <1>1, <2>6, <4>2 DEF ReadersOk
      <4> QED  BY <4>1, <4>2
    <3> QED  BY <1>1, <2>6, <2>7, <3>1 DEF ReadersOk
  <2>9. /\ l' \in Streams /\ Len(l') = k
        /\ \A j \in 1 .. k : l'[j] = Left(outs[j], n[j])
        /\ Waits' \in Streams /\ Len(Waits') = k + 1
        /\ \A j \in 1 .. k : Waits'[j] = l'[j]
        /\ Waits'[k + 1] = mem
    BY <1>4, <1>5, <2>2, <2>8 DEF n
  <2> HIDE DEF l, k
  <2>10. l'[i] = Tail(l[i]) /\ \A j \in 1 .. k : j # i => l'[j] = l[j]
    BY <1>1, <2>1, <2>5, <2>6, <2>9
  <2>11. Replaces(l, i, Tail(l[i]), l')  BY <1>1, <2>9, <2>10 DEF Replaces
  <2>12. Waits'[i] = Tail(Waits[i]) /\ Waits[i] = l[i]
    BY <1>1, <2>1, <2>9, <2>10
  <2>13. ASSUME NEW j \in 1 .. k + 1, j # i PROVE Waits'[j] = Waits[j]
    <3>1. CASE j \in 1 .. k  BY <1>1, <2>9, <2>10, <2>13, <3>1
    <3>2. CASE j = k + 1  BY <1>1, <2>9, <3>2
    <3> QED  BY <1>1, <3>1, <3>2
  <2>14. Replaces(Waits, i, Tail(Waits[i]), Waits')
    BY <1>1, <2>9, <2>12, <2>13 DEF Replaces
  <2> QED  BY <1>3, <1>4, <2>1, <2>2, <2>8, <2>11, <2>12, <2>14 DEF l, k, n
<1>7. CASE ~(i <= k)
  <2>1. i = k + 1  BY <1>1, <1>2, <1>7
  <2>2. mem' = Tail(mem) /\ rd' = rd  BY <1>7 DEF Consume
  <2>3. mem # <<>> /\ mem = Waits[i]  BY <1>1, <1>3, <2>1
  <2> DEFINE m == Tail(mem)
  <2>4. m \in Seq(Rec)  BY <1>4, <2>3
  <2> HIDE DEF m
  <2>5. /\ l' \in Streams /\ Len(l') = k
        /\ \A j \in 1 .. k : l'[j] = Left(outs[j], rd[j])
        /\ Waits' \in Streams /\ Len(Waits') = k + 1
        /\ \A j \in 1 .. k : Waits'[j] = l'[j]
        /\ Waits'[k + 1] = m
    BY <1>5, <2>2, <2>4 DEF m
  <2>6. l' = l  BY <2>2 DEF LeftOfReaders, Left
  <2> HIDE DEF l, k
  <2>7. ASSUME NEW j \in 1 .. k + 1, j # i PROVE Waits'[j] = Waits[j]
    <3>1. j \in 1 .. k  BY <1>1, <2>1, <2>7
    <3> QED  BY <1>1, <2>5, <2>6, <3>1
  <2>8. Waits'[i] = Tail(Waits[i])  BY <2>1, <2>3, <2>5 DEF m
  <2>9. Replaces(Waits, i, Tail(Waits[i]), Waits')
    BY <1>1, <2>5, <2>7, <2>8 DEF Replaces
  <2> QED  BY <2>2, <2>3, <2>4, <2>6, <2>9 DEF l, m
<1> QED  BY <1>6, <1>7

-----------------------------------------------------------------------------
(***************************************************************************)
(* Where the records are.                                                  *)
(***************************************************************************)
\* What Everywhere is, of any state.
UnreadPlaces(ph, o, q) ==
  UNION {At("stream", i, IF ph \in {"insert", "stored"} THEN o[i]
                         ELSE Left(o[i], q[i])) : i \in DOMAIN o}
EverywhereOf(ph, c, o, q, m, g, t) ==
  CollPlaces(c) \cup UnreadPlaces(ph, o, q)
    \cup At("mem", 0, m) \cup At("group", 0, g) \cup At("out", 0, t)

\* An empty sequence has no places.
LEMMA AtEmpty == \A name, i : At(name, i, <<>>) = {}
  BY DEF At

\* Everywhere, as a function of the state before or after a step.
LEMMA EverywhereIs ==
  /\ Everywhere = EverywhereOf(phase, coll, outs, rd, mem, group, out)
  /\ Everywhere' = EverywhereOf(phase', coll', outs', rd', mem', group', out')
<1>1. UNION {At("stream", i, Unread(i)) : i \in DOMAIN outs} =
        UnreadPlaces(phase, outs, rd)
  BY DEF UnreadPlaces, Unread, Left
<1>2. (UNION {At("stream", i, Unread(i)) : i \in DOMAIN outs})' =
        UnreadPlaces(phase', outs', rd')
  BY DEF UnreadPlaces, Unread, Left, At
<1>3. Everywhere = EverywhereOf(phase, coll, outs, rd, mem, group, out)
  <2> DEFINE U == UNION {At("stream", i, Unread(i)) : i \in DOMAIN outs}
  <2>1. Everywhere = CollPlaces(coll) \cup U \cup At("mem", 0, mem)
                       \cup At("group", 0, group) \cup At("out", 0, out)
    BY DEF Everywhere, CollPlaces
  <2>2. U = UnreadPlaces(phase, outs, rd)  BY <1>1
  <2> HIDE DEF U
  <2> QED  BY <2>1, <2>2 DEF EverywhereOf
<1>4. Everywhere' = EverywhereOf(phase', coll', outs', rd', mem', group', out')
  <2> DEFINE U == UNION {At("stream", i, Unread(i)) : i \in DOMAIN outs}
  <2>1. Everywhere' = CollPlaces(coll') \cup U' \cup At("mem", 0, mem')
                        \cup At("group", 0, group') \cup At("out", 0, out')
    BY DEF Everywhere, CollPlaces, At
  <2>2. U' = UnreadPlaces(phase', outs', rd')  BY <1>2
  <2> HIDE DEF U
  <2> QED  BY <2>1, <2>2 DEF EverywhereOf
<1> QED  BY <1>3, <1>4

\* Before reading.
LEMMA EverywhereStored ==
  ASSUME NEW ph \in {"insert", "stored"}, NEW c, NEW o \in Streams, NEW q
  PROVE  EverywhereOf(ph, c, o, q, <<>>, <<>>, <<>>) =
           CollPlaces(c) \cup StreamPlaces(o)
<1>1. ph \in {"insert", "stored"}  OBVIOUS
<1>2. UnreadPlaces(ph, o, q) = StreamPlaces(o)
  BY <1>1 DEF UnreadPlaces, StreamPlaces
<1>3. EverywhereOf(ph, c, o, q, <<>>, <<>>, <<>>) =
        CollPlaces(c) \cup UnreadPlaces(ph, o, q) \cup {} \cup {} \cup {}
  BY AtEmpty DEF EverywhereOf
<1> QED  BY <1>2, <1>3

\* While reading.
MergePlaces(l, m, g, t) ==
  StreamPlaces(l) \cup At("mem", 0, m) \cup At("group", 0, g) \cup At("out", 0, t)

LeftOf(o, q) == [i \in 1 .. Len(q) |-> Left(o[i], q[i])]

\* Everywhere while reading.
LEMMA EverywhereRead ==
  ASSUME NEW ph \in {"read", "finished"}, NEW o \in Streams, NEW q, NEW m,
         NEW g, NEW t, ReadersOk(o, q)
  PROVE  EverywhereOf(ph, {}, o, q, m, g, t) = MergePlaces(LeftOf(o, q), m, g, t)
<1> DEFINE l == [i \in 1 .. Len(q) |-> Left(o[i], q[i])]
<1>1. /\ DOMAIN l = 1 .. Len(o) /\ DOMAIN o = 1 .. Len(o)
      /\ \A i \in 1 .. Len(o) : l[i] = Left(o[i], q[i])
  BY LeftTypes DEF Streams
<1> HIDE DEF l
<1>2. StreamPlaces(l) = UnreadPlaces(ph, o, q)
  <2>1. ph \notin {"insert", "stored"}  OBVIOUS
  <2> QED  BY <1>1, <2>1 DEF StreamPlaces, UnreadPlaces
<1>3. CollPlaces({}) = {}  BY DEF CollPlaces
<1>4. EverywhereOf(ph, {}, o, q, m, g, t) =
        {} \cup StreamPlaces(l)
          \cup At("mem", 0, m) \cup At("group", 0, g) \cup At("out", 0, t)
  BY <1>2, <1>3 DEF EverywhereOf
<1>5. EverywhereOf(ph, {}, o, q, m, g, t) =
        StreamPlaces(l)
          \cup At("mem", 0, m) \cup At("group", 0, g) \cup At("out", 0, t)
  BY <1>4
<1> QED  BY <1>5 DEF l, LeftOf, MergePlaces

\* A record goes into the collection.
LEMMA InsertConserves ==
  ASSUME NEW c \in SUBSET Rec, NEW o \in Streams, NEW inp \in Seq(Keys),
         NEW k \in Keys, Aggregate => UniqueKeys(c),
         Conserved(CollPlaces(c) \cup StreamPlaces(o), inp),
         NEW r, r = [key |-> k, ids |-> {Len(inp) + 1}]
  PROVE  /\ r \in Rec
         /\ Conserved(CollPlaces(InsertInto(c, r)) \cup StreamPlaces(o),
                      Append(inp, k))
<1> DEFINE x == <<"new", 0, 0, r>>
           C == CollPlaces(c)
           S == StreamPlaces(o)
           D == CollPlaces(InsertInto(c, r))
<1>1. r \in Rec  BY DEF Rec
<1>2. x[4] = r /\ x[1] = "new"  OBVIOUS
<1>3. Conserved((C \cup S) \cup {x}, Append(inp, k))
  <2>1. x[4] = [key |-> k, ids |-> {Len(inp) + 1}]  BY <1>2
  <2> HIDE DEF x, C, S
  <2> QED  BY <2>1, ConservedNew DEF C, S
<1>4. Carries(C \cup {x}, D)  BY <1>1, InsertCarries
<1>5. \A y \in C \cup {x} : y \notin S
  <2>1. \A y \in C : y[1] = "coll"  BY DEF CollPlaces
  <2>2. \A y \in S : y[1] = "stream"  BY StreamPlaceNames
  <2> HIDE DEF x, C, S
  <2> QED  BY <1>2, <2>1, <2>2
<1> HIDE DEF x, C, S, D
<1>6. Carries((C \cup {x}) \cup S, D \cup S)  BY <1>4, <1>5, CarriesSome
<1>7. (C \cup {x}) \cup S = (C \cup S) \cup {x}  OBVIOUS
<1>8. Conserved(D \cup S, Append(inp, k))
  BY <1>3, <1>6, <1>7, CarriesConserves
<1> QED  BY <1>1, <1>8 DEF D, S

\* The head of what one iterator has to give goes to place y.
LEMMA ConsumeCarries ==
  ASSUME SorterType, ReadersOk(outs, rd), outs' = outs,
         NEW i \in NonEmptyIterators, Consume(i),
         NEW y, y[1] # "stream", y[1] # "mem", y[4] = Waits[i][1]
  PROVE  Carries(StreamPlaces(LeftOfReaders) \cup At("mem", 0, mem),
                 (StreamPlaces(LeftOfReaders') \cup At("mem", 0, mem'))
                   \cup {y})
<1> DEFINE l == LeftOfReaders
           k == LeftOfReaders'
           M == At("mem", 0, mem)
<1>1. \/ /\ i \in 1 .. Len(rd) /\ mem' = mem
         /\ Replaces(l, i, Tail(l[i]), k) /\ l[i] # <<>> /\ l[i] = Waits[i]
      \/ /\ mem # <<>> /\ mem = Waits[i] /\ mem' = Tail(mem) /\ k = l
  BY ConsumeIs
<1>2. /\ l \in Streams /\ Len(l) = Len(rd) /\ mem \in Seq(Rec)
      /\ \A j \in 1 .. Len(rd) : l[j] \in Seq(Rec)
  BY WaitsIs DEF SorterType, Streams
<1>3. \A x \in M : x[1] = "mem"  BY <1>2, AtNames
<1> HIDE DEF l, k
<1>4. CASE /\ i \in 1 .. Len(rd) /\ mem' = mem
           /\ Replaces(l, i, Tail(l[i]), k) /\ l[i] # <<>> /\ l[i] = Waits[i]
  <2> DEFINE s == l[i]
             t == Tail(l[i])
             P == At("stream", i, s)
             Q == At("stream", i, t)
             O == OtherPlaces(l, i)
  <2>1. s \in Seq(Rec) /\ s # <<>> /\ t = Tail(s) /\ s = Waits[i]
    BY <1>2, <1>4
  <2>9. t \in Seq(Rec)  BY <2>1
  <2>10. i \in 1 .. Len(l) /\ Replaces(l, i, t, k)  BY <1>2, <1>4
  <2>11. l \in Streams  BY <1>2
  <2> HIDE DEF t
  <2>2. /\ StreamPlaces(l) = P \cup O /\ StreamPlaces(k) = Q \cup O
        /\ \A x \in O : x[1] = "stream" /\ x[2] # i
    BY <2>9, <2>10, <2>11, StreamReplace
  <2> HIDE DEF s
  <2>3. y \notin Q
    <3>1. \A x \in Q : x[1] = "stream"  BY <2>9, AtNames
    <3> QED  BY <3>1
  <2>4. Carries(P, Q \cup {y})  BY <2>1, <2>3, TailCarries
  <2>5. \A x \in P : x[1] = "stream" /\ x[2] = i  BY <2>1, AtNames
  <2>6. \A x \in P : x \notin O \cup M  BY <1>3, <2>2, <2>5
  <2> HIDE DEF P, Q, O, M
  <2>7. Carries(P \cup (O \cup M), (Q \cup {y}) \cup (O \cup M))
    BY <2>4, <2>6, CarriesSome
  <2>8. P \cup (O \cup M) = StreamPlaces(l) \cup M
        /\ (Q \cup {y}) \cup (O \cup M) = (StreamPlaces(k) \cup M) \cup {y}
    BY <2>2
  <2> QED  BY <1>4, <2>7, <2>8 DEF l, k, M
<1>5. CASE mem # <<>> /\ mem = Waits[i] /\ mem' = Tail(mem) /\ k = l
  <2> DEFINE t == Tail(mem)
             Q == At("mem", 0, t)
             S == StreamPlaces(l)
  <2>1. t = Tail(mem) /\ t = mem'  BY <1>5
  <2>8. t \in Seq(Rec)  BY <1>2, <1>5
  <2> HIDE DEF t
  <2>2. y \notin Q
    <3>1. \A x \in Q : x[1] = "mem"  BY <2>8, AtNames
    <3> QED  BY <3>1
  <2>3. Carries(M, Q \cup {y})  BY <1>2, <1>5, <2>1, <2>2, TailCarries
  <2>4. \A x \in M : x \notin S  BY <1>2, <1>3, StreamPlaceNames
  <2>5. S = StreamPlaces(k) /\ Q = At("mem", 0, mem')  BY <1>5, <2>1
  <2> HIDE DEF M, Q, S
  <2>6. Carries(M \cup S, (Q \cup {y}) \cup S)  BY <2>3, <2>4, CarriesSome
  <2>7. M \cup S = S \cup M /\ (Q \cup {y}) \cup S = (S \cup Q) \cup {y}
    OBVIOUS
  <2> QED  BY <2>5, <2>6, <2>7 DEF l, k, M, S
<1> QED  BY <1>1, <1>4, <1>5

-----------------------------------------------------------------------------
(***************************************************************************)
(* Every step keeps the invariant.                                         *)
(***************************************************************************)
\* What has to be shown of a step of the insert phase.
LEMMA StoredNext ==
  ASSUME ModeOk, mode' = mode, phase' \in {"insert", "stored"},
         input' \in Seq(Keys), coll' \in SUBSET Rec, IsFiniteSet(coll'),
         outs' \in Streams, rd' = <<>>, mem' = <<>>, group' = <<>>, out' = <<>>,
         part' = 0, phase' # "insert" => coll' = {},
         Aggregate => UniqueKeys(coll'),
         WellFormed(outs'), StreamPerPartition(outs'),
         Conserved(CollPlaces(coll') \cup StreamPlaces(outs'), input')
  PROVE  SorterInv'
<1>1. ~Reading'  BY DEF Reading
<1>2. ModeOk' /\ Aggregate' = Aggregate  BY SameMode
<1>3. <<>> \in Seq(Rec) /\ 0 \in Nat  OBVIOUS
<1>4. SorterType'  BY <1>2, <1>3 DEF SorterType, IsFiniteSet
<1>5. WellFormed(outs)' /\ StreamPerPartition(outs)'  BY SameWellFormed
<1>6. (Aggregate => UniqueKeys(coll))'  BY <1>2 DEF UniqueKeys
<1>7. PhaseInv'  BY <1>1, <1>5, <1>6 DEF PhaseInv
<1>8. ReadInv'  BY <1>1 DEF ReadInv
<1>9. Everywhere' = CollPlaces(coll') \cup StreamPlaces(outs')
  <2>1. Everywhere' = EverywhereOf(phase', coll', outs', rd', <<>>, <<>>, <<>>)
    BY EverywhereIs
  <2>2. EverywhereOf(phase', coll', outs', rd', <<>>, <<>>, <<>>) =
          CollPlaces(coll') \cup StreamPlaces(outs')
    <3> DEFINE ph == phase'  o == outs'  c == coll'  q == rd'
    <3>1. ph \in {"insert", "stored"} /\ o \in Streams  OBVIOUS
    <3> HIDE DEF ph, o, c, q
    <3>2. EverywhereOf(ph, c, o, q, <<>>, <<>>, <<>>) =
            CollPlaces(c) \cup StreamPlaces(o)
      BY <3>1, EverywhereStored, Zenon
    <3> QED  BY <3>2 DEF ph, o, c, q
  <2> QED  BY <2>1, <2>2
<1>10. Conserved(Everywhere', input')  BY <1>9
<1>11. Conserved(Everywhere, input)'  BY <1>10 DEF Conserved
<1> QED  BY <1>4, <1>7, <1>8, <1>11 DEF SorterInv

\* What has to be shown of a step of the merge.
LEMMA ReadNext ==
  ASSUME ModeOk, mode' = mode, phase' \in {"read", "finished"}, Stage = "reduce",
         input \in Seq(Keys), input' = input, coll' = {},
         outs \in Streams, outs' = outs, WellFormed(outs),
         StreamPerPartition(outs), mem' \in Seq(Rec), group' \in Seq(Rec),
         out' \in Seq(Rec), part' \in Nat, ReadersOk(outs, rd'),
         MergeOk(Waits', group', out', part', outs # <<>>),
         Conserved(MergePlaces(LeftOfReaders', mem', group', out'), input)
  PROVE  SorterInv'
<1>1. Reading'  BY DEF Reading
<1>2. ModeOk' /\ Aggregate' = Aggregate /\ Stage' = Stage  BY SameMode
<1>3. IsFiniteSet(coll') /\ coll' \in SUBSET Rec  BY FS_EmptySet
<1>4. SorterType'  BY <1>2, <1>3 DEF SorterType, IsFiniteSet
<1>5. WellFormed(outs)' /\ StreamPerPartition(outs)'  BY SameWellFormed
<1>6. (Aggregate => UniqueKeys(coll))'  BY DEF UniqueKeys
<1>7. PhaseInv'  BY <1>1, <1>5, <1>6 DEF PhaseInv
<1>8. MergeOk(Waits', group', out', part', outs' # <<>>)  OBVIOUS
<1>9. MergeOk(Waits, group, out, part, outs # <<>>)'  BY <1>8, SameMergeOk
<1>10. /\ DOMAIN rd' = 1 .. Len(outs') /\ Len(rd') = Len(outs')
       /\ \A i \in 1 .. Len(outs') : ReaderOk(outs'[i], rd'[i])
  BY DEF ReadersOk
<1>11. (\A i \in 1 .. Len(outs) : ReaderOk(outs[i], rd[i]))'
  BY <1>10 DEF ReaderOk
<1>12. ReadInv'  BY <1>2, <1>9, <1>10, <1>11 DEF ReadInv
<1>13. LeftOfReaders' = LeftOf(outs', rd')
  BY DEF LeftOfReaders, LeftOf, Left
<1>14. Everywhere' = EverywhereOf(phase', {}, outs', rd', mem', group', out')
  BY EverywhereIs
<1>15. Everywhere' = MergePlaces(LeftOfReaders', mem', group', out')
  BY <1>13, <1>14, EverywhereRead
<1>16. Conserved(Everywhere', input')  BY <1>15
<1>17. Conserved(Everywhere, input)'  BY <1>16 DEF Conserved
<1> QED  BY <1>4, <1>7, <1>12, <1>17 DEF SorterInv

\* What the invariant says before reading.
LEMMA StoredInv ==
  ASSUME SorterInv, phase \in {"insert", "stored"}
  PROVE  /\ ModeOk /\ input \in Seq(Keys) /\ coll \in SUBSET Rec
         /\ IsFiniteSet(coll) /\ outs \in Streams
         /\ rd = <<>> /\ mem = <<>> /\ group = <<>> /\ out = <<>> /\ part = 0
         /\ Aggregate => UniqueKeys(coll)
         /\ WellFormed(outs) /\ StreamPerPartition(outs)
         /\ Conserved(CollPlaces(coll) \cup StreamPlaces(outs), input)
<1>1. ~Reading  BY DEF Reading
<1>2. SorterType /\ PhaseInv /\ Conserved(Everywhere, input)  BY DEF SorterInv
<1>3. /\ rd = <<>> /\ mem = <<>> /\ group = <<>> /\ out = <<>> /\ part = 0
      /\ Aggregate => UniqueKeys(coll)
      /\ WellFormed(outs) /\ StreamPerPartition(outs)
  BY <1>1, <1>2 DEF PhaseInv
<1>4. /\ ModeOk /\ input \in Seq(Keys) /\ coll \in SUBSET Rec
      /\ IsFiniteSet(coll) /\ outs \in Streams
  BY <1>2 DEF SorterType
<1>5. Everywhere = CollPlaces(coll) \cup StreamPlaces(outs)
  BY <1>3, <1>4, EverywhereIs, EverywhereStored
<1> QED  BY <1>2, <1>3, <1>4, <1>5

\* What the invariant says while reading.
LEMMA ReadingInv ==
  ASSUME SorterInv, Reading
  PROVE  /\ SorterType /\ ModeOk /\ Stage = "reduce" /\ coll = {}
         /\ input \in Seq(Keys) /\ outs \in Streams /\ WellFormed(outs)
         /\ StreamPerPartition(outs) /\ mem \in Seq(Rec) /\ group \in Seq(Rec)
         /\ out \in Seq(Rec) /\ part \in Nat /\ ReadersOk(outs, rd)
         /\ MergeOk(Waits, group, out, part, outs # <<>>)
         /\ Waits \in Streams /\ LeftOfReaders \in Streams
         /\ Conserved(MergePlaces(LeftOfReaders, mem, group, out), input)
<1>1. SorterType /\ PhaseInv /\ ReadInv /\ Conserved(Everywhere, input)
  BY DEF SorterInv
<1>2. phase \in {"read", "finished"}  BY DEF Reading
<1>3. /\ Stage = "reduce" /\ ReadersOk(outs, rd)
      /\ MergeOk(Waits, group, out, part, outs # <<>>)
  BY <1>1 DEF ReadInv, ReadersOk
<1>4. coll = {} /\ WellFormed(outs) /\ StreamPerPartition(outs)
  BY <1>1, <1>2 DEF PhaseInv
<1>5. /\ ModeOk /\ input \in Seq(Keys) /\ outs \in Streams /\ mem \in Seq(Rec)
      /\ group \in Seq(Rec) /\ out \in Seq(Rec) /\ part \in Nat
  BY <1>1 DEF SorterType
<1>6. Waits \in Streams /\ LeftOfReaders \in Streams  BY <1>1, <1>3, WaitsIs
<1>7. Everywhere = EverywhereOf(phase, {}, outs, rd, mem, group, out)
  BY <1>4, EverywhereIs
<1>8. Everywhere = MergePlaces(LeftOfReaders, mem, group, out)
  <2>1. LeftOfReaders = LeftOf(outs, rd)  BY DEF LeftOfReaders, LeftOf
  <2> QED  BY <1>2, <1>3, <1>5, <1>7, <2>1, EverywhereRead
<1> QED  BY <1>1, <1>3, <1>4, <1>5, <1>6, <1>8

\* A new sorter: no records, and in the map stage one empty stream for each
\* partition.
LEMMA SorterInitInv ==
  ASSUME SorterInit
  PROVE  SorterInv
<1>1. ModeOk  BY DEF SorterInit, ModeOk
<1>2. Stage \in {"map", "reduce"} /\ NumPartitions \in Nat  BY <1>1, ModeValues
<1>3. outs = IF Stage = "map" THEN [i \in 1 .. NumPartitions |-> <<>>] ELSE <<>>
  BY DEF SorterInit
<1>4. <<>> \in Seq(Rec) /\ <<>> \in Seq(Keys) /\ 0 \in Nat  OBVIOUS
<1>5. /\ outs \in Streams /\ StreamPerPartition(outs)
      /\ \A i \in DOMAIN outs : outs[i] = <<>> /\ Stage = "map"
  <2>1. CASE Stage = "map"
    <3>1. outs = [i \in 1 .. NumPartitions |-> <<>>]  BY <1>3, <2>1
    <3>2. outs \in [1 .. NumPartitions -> Seq(Rec)]  BY <1>4, <3>1
    <3>3. outs \in Streams /\ Len(outs) = NumPartitions
      BY <1>2, <3>2, FunSeq, Zenon DEF Streams
    <3> QED  BY <2>1, <3>1, <3>3 DEF StreamPerPartition
  <2>2. CASE Stage # "map"
    <3>1. outs = <<>>  BY <1>3, <2>2
    <3>2. outs \in Streams /\ DOMAIN outs = {}  BY <3>1 DEF Streams
    <3> QED  BY <2>2, <3>2 DEF StreamPerPartition
  <2> QED  BY <2>1, <2>2
<1>6. WellFormed(outs)
  <2>1. ASSUME NEW i \in DOMAIN outs PROVE StreamOk(outs[i], i)
    <3>1. outs[i] = <<>> /\ Stage = "map"  BY <1>5
    <3> QED  BY <3>1 DEF StreamOk
  <2> QED  BY <2>1 DEF WellFormed
<1>7. /\ phase = "insert" /\ input = <<>> /\ coll = {} /\ rd = <<>>
      /\ mem = <<>> /\ part = 0 /\ group = <<>> /\ out = <<>>
  BY DEF SorterInit
<1>8. ~Reading  BY <1>7 DEF Reading
<1>9. SorterType  BY <1>1, <1>4, <1>5, <1>7, FS_EmptySet DEF SorterType
<1>10. PhaseInv  BY <1>5, <1>6, <1>7, <1>8 DEF PhaseInv, UniqueKeys
<1>11. ReadInv  BY <1>8 DEF ReadInv
<1>12. Everywhere = CollPlaces({}) \cup StreamPlaces(outs)
  BY <1>5, <1>7, EverywhereIs, EverywhereStored
<1>13. CollPlaces({}) = {} /\ StreamPlaces(outs) = {}
  <2>1. \A i \in DOMAIN outs : At("stream", i, outs[i]) = {}  BY <1>5, AtEmpty
  <2> QED  BY <2>1 DEF CollPlaces, StreamPlaces
<1>14. Everywhere = {}  BY <1>12, <1>13
<1>15. Conserved(Everywhere, input)
  <2>1. 1 .. Len(input) = {}  BY <1>7
  <2> QED  BY <1>14, <2>1 DEF Conserved
<1> QED  BY <1>9, <1>10, <1>11, <1>15 DEF SorterInv

\* insertAll: the record goes into the collection, which may then be spilled.
LEMMA InsertInv ==
  ASSUME SorterInv, NEW k \in Keys, Insert(k)
  PROVE  SorterInv'
<1> DEFINE r == [key |-> k, ids |-> {Len(input) + 1}]
           c == InsertInto(coll, r)
<1>1. phase = "insert"  BY DEF Insert
<1>2. /\ ModeOk /\ input \in Seq(Keys) /\ coll \in SUBSET Rec
      /\ IsFiniteSet(coll) /\ outs \in Streams
      /\ rd = <<>> /\ mem = <<>> /\ group = <<>> /\ out = <<>> /\ part = 0
      /\ Aggregate => UniqueKeys(coll)
      /\ WellFormed(outs) /\ StreamPerPartition(outs)
      /\ Conserved(CollPlaces(coll) \cup StreamPlaces(outs), input)
  BY <1>1, StoredInv
<1>3. /\ mode' = mode /\ phase' = phase /\ rd' = rd /\ mem' = mem
      /\ part' = part /\ group' = group /\ out' = out
      /\ input' = Append(input, k)
      /\ \/ coll' = c /\ outs' = outs
         \/ /\ \E s \in SortedIterators(c, Comparing) : outs' = Spilled(s)
            /\ coll' = {}
  BY DEF Insert
<1>4. r \in Rec /\ Conserved(CollPlaces(c) \cup StreamPlaces(outs), Append(input, k))
  <2>1. r = [key |-> k, ids |-> {Len(input) + 1}]  OBVIOUS
  <2> HIDE DEF r
  <2> QED  BY <1>2, <2>1, InsertConserves
<1> HIDE DEF r
<1>5. /\ c \in SUBSET Rec /\ IsFiniteSet(c)
      /\ Aggregate => UniqueKeys(c)
  BY <1>2, <1>4, InsertCarries
<1>6. input' \in Seq(Keys)  BY <1>2, <1>3
<1> HIDE DEF c
<1>7. CASE coll' = c /\ outs' = outs
  <2>1. Conserved(CollPlaces(coll') \cup StreamPlaces(outs'), input')
    BY <1>3, <1>4, <1>7
  <2>2. /\ coll' \in SUBSET Rec /\ IsFiniteSet(coll')
        /\ Aggregate => UniqueKeys(coll')
    BY <1>5, <1>7
  <2>3. outs' \in Streams /\ WellFormed(outs') /\ StreamPerPartition(outs')
    BY <1>2, <1>7
  <2> QED  BY <1>1, <1>2, <1>3, <1>6, <2>1, <2>2, <2>3, StoredNext
<1>8. ASSUME NEW s \in SortedIterators(c, Comparing), outs' = Spilled(s),
             coll' = {}
      PROVE  SorterInv'
  <2>1. /\ Spilled(s) \in Streams /\ WellFormed(Spilled(s))
        /\ StreamPerPartition(Spilled(s))
        /\ Carries(CollPlaces(c) \cup StreamPlaces(outs), StreamPlaces(Spilled(s)))
    BY <1>2, <1>5, SpillCarries
  <2>2. Conserved(StreamPlaces(outs'), input')
    BY <1>3, <1>4, <1>8, <2>1, CarriesConserves
  <2>3. CollPlaces({}) \cup StreamPlaces(outs') = StreamPlaces(outs')
    BY DEF CollPlaces
  <2>4. Conserved(CollPlaces(coll') \cup StreamPlaces(outs'), input')
    BY <1>8, <2>2, <2>3
  <2>5. /\ IsFiniteSet(coll') /\ coll' \in SUBSET Rec /\ UniqueKeys(coll')
    BY <1>8, FS_EmptySet DEF UniqueKeys
  <2>6. outs' \in Streams /\ WellFormed(outs') /\ StreamPerPartition(outs')
    BY <1>8, <2>1
  <2> QED  BY <1>1, <1>2, <1>3, <1>6, <2>4, <2>5, <2>6, StoredNext
<1> QED  BY <1>3, <1>7, <1>8

\* forceSpillToPmem: the whole collection goes to the streams.
LEMMA ForceSpillInv ==
  ASSUME SorterInv, ForceSpillToPmem
  PROVE  SorterInv'
<1>1. phase = "insert"  BY DEF ForceSpillToPmem
<1>2. /\ ModeOk /\ input \in Seq(Keys) /\ coll \in SUBSET Rec
      /\ IsFiniteSet(coll) /\ outs \in Streams
      /\ rd = <<>> /\ mem = <<>> /\ group = <<>> /\ out = <<>> /\ part = 0
      /\ WellFormed(outs) /\ StreamPerPartition(outs)
      /\ Conserved(CollPlaces(coll) \cup StreamPlaces(outs), input)
  BY <1>1, StoredInv
<1>3. /\ mode' = mode /\ phase' = "stored" /\ rd' = rd /\ mem' = mem
      /\ part' = part /\ group' = group /\ out' = out
      /\ input' = input /\ coll' = {}
  BY DEF ForceSpillToPmem
<1>4. PICK s \in SortedIterators(coll, Comparing) : outs' = Spilled(s)
  BY DEF ForceSpillToPmem
<1>5. /\ Spilled(s) \in Streams /\ WellFormed(Spilled(s))
      /\ StreamPerPartition(Spilled(s))
      /\ Carries(CollPlaces(coll) \cup StreamPlaces(outs), StreamPlaces(Spilled(s)))
  BY <1>2, SpillCarries
<1>6. Conserved(StreamPlaces(outs'), input')
  BY <1>2, <1>3, <1>4, <1>5, CarriesConserves
<1>7. CollPlaces({}) \cup StreamPlaces(outs') = StreamPlaces(outs')
  BY DEF CollPlaces
<1>8. Conserved(CollPlaces(coll') \cup StreamPlaces(outs'), input')
  BY <1>3, <1>6, <1>7
<1>9. /\ IsFiniteSet(coll') /\ coll' \in SUBSET Rec /\ UniqueKeys(coll')
  BY <1>3, FS_EmptySet DEF UniqueKeys
<1>10. outs' \in Streams /\ WellFormed(outs') /\ StreamPerPartition(outs')
  BY <1>4, <1>5
<1> QED  BY <1>2, <1>3, <1>8, <1>9, <1>10, StoredNext

\* partitionedIterator: the streams, then the sorted collection.
LEMMA PartitionedWaits ==
  ASSUME ModeOk, NEW o \in Streams, NEW m \in Seq(Rec), Stage = "reduce",
         WellFormed(o), NEW some \in BOOLEAN, some <=> o # <<>>,
         \A i, j \in 1 .. Len(m) :
           i < j => NotAfter(m[i], m[j], IF some THEN Comparing ELSE Ordering)
  PROVE  WaitsSorted(Append(o, m), some)
<1> DEFINE w == Append(o, m)
           cmp == IF some THEN Comparing ELSE Ordering
<1>1. /\ Len(o) \in Nat /\ DOMAIN o = 1 .. Len(o) /\ DOMAIN w = 1 .. Len(o) + 1
      /\ \A i \in 1 .. Len(o) : w[i] = o[i] /\ o[i] \in Seq(Rec)
      /\ w[Len(o) + 1] = m
  BY DEF Streams
<1> HIDE DEF w
<1>2. ASSUME NEW i \in DOMAIN w, NEW a \in DOMAIN w[i], NEW b \in DOMAIN w[i],
             a < b
      PROVE  NotAfter(w[i][a], w[i][b], cmp)
  <2>1. CASE i \in 1 .. Len(o)
    <3>1. some  BY <1>1, <2>1
    <3>2. StreamOk(o[i], i) /\ w[i] = o[i]  BY <1>1, <2>1 DEF WellFormed
    <3>3. NotAfter(o[i][a], o[i][b], Ordering \/ Aggregate)
      BY <1>2, <3>2 DEF StreamOk
    <3>4. cmp <=> Ordering \/ Aggregate  BY <3>1, ModeValues DEF Comparing
    <3> HIDE DEF cmp
    <3> QED  BY <3>2, <3>3, <3>4, NotAfterWeaker
  <2>2. CASE i = Len(o) + 1
    <3>1. w[i] = m /\ DOMAIN m = 1 .. Len(m)  BY <1>1, <2>2
    <3> QED  BY <1>2, <3>1
  <2> QED  BY <1>1, <2>1, <2>2
<1>3. ~some => \A i, j \in DOMAIN w : i = j
  <2>1. ~some => Len(o) = 0  BY <1>1
  <2> QED  BY <1>1, <2>1
<1> QED  BY <1>2, <1>3 DEF WaitsSorted, w

\* The keys of a sorted iterator over a collection with one record for each key.
LEMMA UniqueSorted ==
  ASSUME NEW c \in SUBSET Rec, UniqueKeys(c), NEW m \in Seq(Rec),
         \A i \in 1 .. Len(m) : m[i] \in c,
         \A i, j \in 1 .. Len(m) : i # j => m[i] # m[j]
  PROVE  KeysDiffer(m)
<1>1. DOMAIN m = 1 .. Len(m)  OBVIOUS
<1>2. ASSUME NEW i \in 1 .. Len(m), NEW j \in 1 .. Len(m), m[i].key = m[j].key
      PROVE  i = j
  <2>1. m[i] = m[j]  BY <1>2 DEF UniqueKeys
  <2> QED  BY <2>1
<1> QED  BY <1>1, <1>2 DEF KeysDiffer

\* The readers that partitionedIterator opens have all of the streams to give.
LEMMA NewReaders ==
  ASSUME outs \in Streams, \A i \in 1 .. Len(outs) : outs[i] # <<>>, outs' = outs,
         rd' = [i \in DOMAIN outs |-> Pull(i, NewReader)]
  PROVE  ReadersOk(outs, rd') /\ LeftOfReaders' = outs
<1>1. DOMAIN outs = 1 .. Len(outs) /\ Len(outs) \in Nat  BY DEF Streams
<1>2. ASSUME NEW i \in 1 .. Len(outs)
      PROVE  ReaderOk(outs[i], rd'[i]) /\ Left(outs[i], rd'[i]) = outs[i]
  <2>1. outs[i] \in Seq(Rec) /\ outs[i] # <<>>  BY DEF Streams
  <2>2. rd'[i] = Pull(i, NewReader)  BY <1>1
  <2> QED  BY <2>1, <2>2, PullNew
<1>3. DOMAIN rd' = 1 .. Len(outs)  BY <1>1
<1>4. Len(rd') = Len(outs)
  <2>1. \A i \in 1 .. Len(outs) : rd'[i] \in Readers  BY <1>2 DEF ReaderOk
  <2>2. rd' = [i \in 1 .. Len(outs) |-> Pull(i, NewReader)]  BY <1>1
  <2>3. \A i \in 1 .. Len(outs) : Pull(i, NewReader) \in Readers  BY <2>1, <2>2
  <2>4. rd' \in [1 .. Len(outs) -> Readers]  BY <2>2, <2>3, Zenon
  <2> QED  BY <1>1, <2>4, FunSeq, Zenon
<1>5. ReadersOk(outs, rd')  BY <1>2, <1>3, <1>4 DEF ReadersOk
<1>6. LeftOfReaders' = [i \in 1 .. Len(outs) |-> Left(outs[i], rd'[i])]
  <2>1. LeftOfReaders' = [i \in 1 .. Len(rd') |-> Left(outs'[i], rd'[i])]
    BY DEF LeftOfReaders, Left
  <2> QED  BY <1>4, <2>1
<1>7. LeftOfReaders' = [i \in 1 .. Len(outs) |-> outs[i]]  BY <1>2, <1>6
<1>8. outs = [i \in 1 .. Len(outs) |-> outs[i]]  BY DEF Streams
<1> QED  BY <1>5, <1>7, <1>8

\* partitionedIterator starts a merge that is in order.
LEMMA PartitionedInv ==
  ASSUME SorterInv, PartitionedIterator
  PROVE  SorterInv'
<1> DEFINE some == outs # <<>>
           cmp == IF some THEN Comparing ELSE Ordering
<1>1. phase = "insert" /\ Stage = "reduce"  BY DEF PartitionedIterator
<1>2. /\ ModeOk /\ input \in Seq(Keys) /\ coll \in SUBSET Rec
      /\ IsFiniteSet(coll) /\ outs \in Streams
      /\ rd = <<>> /\ mem = <<>> /\ group = <<>> /\ out = <<>> /\ part = 0
      /\ Aggregate => UniqueKeys(coll)
      /\ WellFormed(outs) /\ StreamPerPartition(outs)
      /\ Conserved(CollPlaces(coll) \cup StreamPlaces(outs), input)
  BY <1>1, StoredInv
<1>3. /\ mode' = mode /\ phase' = "read" /\ input' = input /\ coll' = {}
      /\ outs' = outs /\ part' = part /\ group' = group /\ out' = out
      /\ rd' = [i \in DOMAIN outs |-> Pull(i, NewReader)]
  BY DEF PartitionedIterator
<1>4. mem' \in SortedIterators(coll, cmp)  BY DEF PartitionedIterator
<1>5. /\ mem' \in Seq(Rec)
      /\ \A i \in 1 .. Len(mem') : mem'[i] \in coll
      /\ \A r \in coll : \E i \in 1 .. Len(mem') : mem'[i] = r
      /\ \A i, j \in 1 .. Len(mem') : i # j => mem'[i] # mem'[j]
      /\ \A i, j \in 1 .. Len(mem') : i < j => NotAfter(mem'[i], mem'[j], cmp)
  <2> HIDE DEF cmp
  <2> QED  BY <1>2, <1>4, SortedIteratorIs
<1>6. \A i \in 1 .. Len(outs) : outs[i] # <<>>
  <2>1. ASSUME NEW i \in 1 .. Len(outs) PROVE outs[i] # <<>>
    <3>1. i \in DOMAIN outs  BY <1>2 DEF Streams
    <3>2. StreamOk(outs[i], i)  BY <1>2, <3>1 DEF WellFormed
    <3> QED  BY <1>1, <3>2 DEF StreamOk
  <2> QED  BY <2>1
<1>7. ReadersOk(outs, rd') /\ LeftOfReaders' = outs
  BY <1>2, <1>3, <1>6, NewReaders
<1>8. Waits' = Append(outs, mem')  BY <1>7 DEF Waits
<1>9. WaitsSorted(Append(outs, mem'), some)
  <2>1. some \in BOOLEAN /\ (some <=> outs # <<>>)  OBVIOUS
  <2> HIDE DEF some
  <2> QED  BY <1>1, <1>2, <1>5, <2>1, PartitionedWaits
<1>10. Append(outs, mem') \in Streams  BY <1>2, <1>5 DEF Streams
<1>11. Aggregate /\ ~some =>
         \A j \in DOMAIN Append(outs, mem') : KeysDiffer(Append(outs, mem')[j])
  <2>1. SUFFICES ASSUME Aggregate, ~some,
                        NEW j \in DOMAIN Append(outs, mem')
                 PROVE  KeysDiffer(Append(outs, mem')[j])
    OBVIOUS
  <2>2. KeysDiffer(mem')  BY <1>2, <1>5, <2>1, UniqueSorted
  <2>3. Append(outs, mem')[j] = mem'  BY <1>5, <2>1
  <2> QED  BY <2>2, <2>3
<1>12. MergeOk(Append(outs, mem'), <<>>, <<>>, 0, some)
  <2>1. some \in BOOLEAN  OBVIOUS
  <2> HIDE DEF some
  <2> QED  BY <1>2, <1>9, <1>10, <1>11, <2>1, StartOk
<1>13. MergeOk(Waits', group', out', part', outs # <<>>)
  BY <1>2, <1>3, <1>8, <1>12
<1>14. Conserved(MergePlaces(LeftOfReaders', mem', group', out'), input)
  <2> DEFINE C == CollPlaces(coll)
             S == StreamPlaces(outs)
             M == At("mem", 0, mem')
  <2>1. Carries(C, M)  BY <1>2, <1>5, CollCarries
  <2>2. \A x \in C : x \notin S
    <3>1. \A y \in C : y[1] = "coll"  BY DEF CollPlaces
    <3>2. \A y \in S : y[1] = "stream"  BY <1>2, StreamPlaceNames
    <3> HIDE DEF C, S
    <3> QED  BY <3>1, <3>2
  <2>3. Carries(C \cup S, M \cup S)
    <3> HIDE DEF C, S, M
    <3> QED  BY <2>1, <2>2, CarriesSome
  <2>4. Conserved(M \cup S, input)  BY <1>2, <2>3, CarriesConserves
  <2>5. MergePlaces(LeftOfReaders', mem', group', out') = M \cup S
    <3>1. group' = <<>> /\ out' = <<>>  BY <1>2, <1>3
    <3>2. At("group", 0, group') = {} /\ At("out", 0, out') = {}
      BY <3>1, AtEmpty
    <3> QED  BY <1>7, <3>2 DEF MergePlaces
  <2> QED  BY <2>4, <2>5
<1>15. /\ group' \in Seq(Rec) /\ out' \in Seq(Rec) /\ part' \in Nat
       /\ phase' \in {"read", "finished"}
  BY <1>2, <1>3
<1> QED  BY <1>1, <1>2, <1>3, <1>5, <1>7, <1>13, <1>14, <1>15, ReadNext

\* What a step of the merge finds when it asks iterator i.
LEMMA TakingInv ==
  ASSUME SorterInv, phase = "read", outs' = outs, NEW i \in NonEmptyIterators,
         TurnOf(i), Consume(i)
  PROVE  /\ Waits[i][1] \in Rec /\ Item(i)[1] = Waits[i][1]
         /\ MayBeNext(Waits, i, part, outs # <<>>)
         /\ Replaces(Waits, i, Tail(Waits[i]), Waits')
         /\ ReadersOk(outs, rd') /\ mem' \in Seq(Rec)
<1>1. Reading  BY DEF Reading
<1>2. /\ SorterType /\ ModeOk /\ ReadersOk(outs, rd) /\ Waits \in Streams
  BY <1>1, ReadingInv
<1>3. i \in Iterators  BY DEF NonEmptyIterators
<1>4. Item(i)[1] = Waits[i][1]  BY <1>2, <1>3, ItemIs
<1>5. MayBeNext(Waits, i, part, outs # <<>>)  BY <1>2, TurnIs
<1>6. Waits[i][1] \in Rec
  <2>1. i \in 1 .. Len(Waits) /\ Waits[i] # <<>>  BY <1>5 DEF MayBeNext
  <2>2. Waits[i] \in Seq(Rec)  BY <1>2, <2>1 DEF Streams
  <2> QED  BY <2>1, <2>2
<1>7. /\ Replaces(Waits, i, Tail(Waits[i]), Waits')
      /\ ReadersOk(outs, rd') /\ mem' \in Seq(Rec)
  BY <1>2, ConsumeIs
<1> QED  BY <1>4, <1>5, <1>6, <1>7

\* Places by their names.
LEMMA MergeNames ==
  ASSUME NEW l \in Streams, NEW m \in Seq(Rec), NEW g \in Seq(Rec),
         NEW t \in Seq(Rec)
  PROVE  /\ \A x \in StreamPlaces(l) \cup At("mem", 0, m) :
              x \notin At("group", 0, g) /\ x \notin At("out", 0, t)
         /\ \A x \in At("group", 0, g) : x \notin At("out", 0, t)
<1>1. \A x \in StreamPlaces(l) : x[1] = "stream"  BY StreamPlaceNames
<1>2. \A x \in At("mem", 0, m) : x[1] = "mem"  BY AtNames
<1>3. \A x \in At("group", 0, g) : x[1] = "group"  BY AtNames
<1>4. \A x \in At("out", 0, t) : x[1] = "out"  BY AtNames
<1> QED  BY <1>1, <1>2, <1>3, <1>4

\* next() without aggregation: the item goes to the result.
LEMMA NextItemInv ==
  ASSUME SorterInv, NEW i \in Iterators, NextItem(i)
  PROVE  SorterInv'
<1> DEFINE r == Waits[i][1]
           y == <<"out", 0, Len(out) + 1, r>>
<1>1. phase = "read" /\ Reading  BY DEF NextItem, Reading
<1>2. /\ SorterType /\ ModeOk /\ Stage = "reduce" /\ coll = {}
      /\ input \in Seq(Keys) /\ outs \in Streams /\ WellFormed(outs)
      /\ StreamPerPartition(outs) /\ mem \in Seq(Rec) /\ group \in Seq(Rec)
      /\ out \in Seq(Rec) /\ part \in Nat /\ ReadersOk(outs, rd)
      /\ MergeOk(Waits, group, out, part, outs # <<>>)
      /\ Waits \in Streams /\ LeftOfReaders \in Streams
      /\ Conserved(MergePlaces(LeftOfReaders, mem, group, out), input)
  BY <1>1, ReadingInv
<1>3. /\ i \in NonEmptyIterators /\ TurnOf(i) /\ Consume(i) /\ ~Grouping
      /\ out' = Append(out, Item(i)[1])
      /\ mode' = mode /\ phase' = phase /\ input' = input /\ coll' = coll
      /\ outs' = outs /\ part' = part /\ group' = group
  BY DEF NextItem
<1>4. /\ r \in Rec /\ Item(i)[1] = r
      /\ MayBeNext(Waits, i, part, outs # <<>>)
      /\ Replaces(Waits, i, Tail(Waits[i]), Waits')
      /\ ReadersOk(outs, rd') /\ mem' \in Seq(Rec)
  BY <1>1, <1>3, TakingInv
<1>5. out' = Append(out, r)  BY <1>3, <1>4
<1>6. MergeOk(Waits', group, Append(out, r), part, outs # <<>>)
  <2> DEFINE some == outs # <<>>
  <2>1. some \in BOOLEAN  OBVIOUS
  <2>2. ~(Aggregate /\ some)  BY <1>3 DEF Grouping
  <2>3. MayBeNext(Waits, i, part, some) /\ MergeOk(Waits, group, out, part, some)
    BY <1>2, <1>4
  <2> HIDE DEF some
  <2>4. MergeOk(Waits', group, Append(out, r), part, some)
    BY <1>2, <1>4, <2>1, <2>2, <2>3, TakeOut
  <2> QED  BY <2>4 DEF some
<1>7. MergeOk(Waits', group', out', part', outs # <<>>)
  BY <1>3, <1>5, <1>6
<1>8. Conserved(MergePlaces(LeftOfReaders', mem', group', out'), input)
  <2> DEFINE S == StreamPlaces(LeftOfReaders) \cup At("mem", 0, mem)
             T == StreamPlaces(LeftOfReaders') \cup At("mem", 0, mem')
             G == At("group", 0, group)
             O == At("out", 0, out)
  <2>1. Carries(S, T \cup {y})
    <3>1. y[1] = "out" /\ y[4] = r  OBVIOUS
    <3>2. y[1] # "stream" /\ y[1] # "mem"  BY <3>1
    <3>3. /\ SorterType /\ ReadersOk(outs, rd) /\ outs' = outs
          /\ i \in NonEmptyIterators /\ Consume(i)
      BY <1>2, <1>3
    <3> HIDE DEF y
    <3> QED  BY <3>1, <3>2, <3>3, ConsumeCarries
  <2>2. \A x \in S : x \notin G \cup O  BY <1>2, MergeNames
  <2>3. At("out", 0, out') = O \cup {y}  BY <1>2, <1>4, <1>5, AtAppend
  <2>4. At("group", 0, group') = G  BY <1>3
  <2>5. MergePlaces(LeftOfReaders, mem, group, out) = S \cup (G \cup O)
    BY DEF MergePlaces
  <2>6. MergePlaces(LeftOfReaders', mem', group', out') = T \cup (G \cup (O \cup {y}))
    BY <2>3, <2>4 DEF MergePlaces
  <2> HIDE DEF S, T, G, O, y
  <2>7. Carries(S \cup (G \cup O), (T \cup {y}) \cup (G \cup O))
    BY <2>1, <2>2, CarriesSome
  <2>8. (T \cup {y}) \cup (G \cup O) = T \cup (G \cup (O \cup {y}))  OBVIOUS
  <2>9. Conserved(S \cup (G \cup O), input)  BY <1>2, <2>5
  <2>10. Conserved((T \cup {y}) \cup (G \cup O), input)
    BY <2>7, <2>9, CarriesConserves
  <2> QED  BY <2>6, <2>8, <2>10
<1>9. /\ group' \in Seq(Rec) /\ out' \in Seq(Rec) /\ part' \in Nat
      /\ phase' \in {"read", "finished"} /\ coll' = {}
  BY <1>1, <1>2, <1>3, <1>4, <1>5
<1> QED  BY <1>2, <1>3, <1>4, <1>7, <1>8, <1>9, ReadNext

\* next() with aggregation: the item goes to the group.
LEMMA CollectInv ==
  ASSUME SorterInv, NEW i \in Iterators, Collect(i)
  PROVE  SorterInv'
<1> DEFINE r == Waits[i][1]
           y == <<"new", 0, 0, r>>
           h == Joined(group, r)
<1>1. phase = "read" /\ Reading  BY DEF Collect, Reading
<1>2. /\ SorterType /\ ModeOk /\ Stage = "reduce" /\ coll = {}
      /\ input \in Seq(Keys) /\ outs \in Streams /\ WellFormed(outs)
      /\ StreamPerPartition(outs) /\ mem \in Seq(Rec) /\ group \in Seq(Rec)
      /\ out \in Seq(Rec) /\ part \in Nat /\ ReadersOk(outs, rd)
      /\ MergeOk(Waits, group, out, part, outs # <<>>)
      /\ Waits \in Streams /\ LeftOfReaders \in Streams
      /\ Conserved(MergePlaces(LeftOfReaders, mem, group, out), input)
  BY <1>1, ReadingInv
<1>3. /\ i \in NonEmptyIterators /\ TurnOf(i) /\ Consume(i) /\ Grouping
      /\ SameGroup(Item(i)[1]) /\ group' = Joined(group, Item(i)[1])
      /\ mode' = mode /\ phase' = phase /\ input' = input /\ coll' = coll
      /\ outs' = outs /\ part' = part /\ out' = out
  BY DEF Collect
<1>4. /\ r \in Rec /\ Item(i)[1] = r
      /\ MayBeNext(Waits, i, part, outs # <<>>)
      /\ Replaces(Waits, i, Tail(Waits[i]), Waits')
      /\ ReadersOk(outs, rd') /\ mem' \in Seq(Rec)
  BY <1>1, <1>3, TakingInv
<1>5. group' = h  BY <1>3, <1>4
<1>6. Aggregate /\ outs # <<>>  BY <1>3 DEF Grouping
<1>7. KeysDiffer(group)  BY <1>2, <1>6 DEF MergeOk, KeysApart
<1>8. /\ h \in Seq(Rec) /\ KeysDiffer(h)
      /\ \A j \in DOMAIN h : \/ h[j].key = r.key
                             \/ \E k \in DOMAIN group : h[j].key = group[k].key
      /\ Carries(At("group", 0, group) \cup {y}, At("group", 0, h))
  <2> HIDE DEF r
  <2> QED  BY <1>2, <1>4, <1>7, JoinedCarries
<1>9. MergeOk(Waits', h, out, part, outs # <<>>)
  <2> DEFINE some == outs # <<>>
  <2>1. some \in BOOLEAN /\ Aggregate /\ some  BY <1>6
  <2>2. Shares(group, Waits[i][1])  BY <1>3, <1>4 DEF SameGroup, Shares
  <2>3. MayBeNext(Waits, i, part, some) /\ MergeOk(Waits, group, out, part, some)
    BY <1>2, <1>4
  <2> HIDE DEF some, h
  <2>4. /\ ModeOk /\ Waits \in Streams /\ part \in Nat /\ group \in Seq(Rec)
        /\ out \in Seq(Rec) /\ Replaces(Waits, i, Tail(Waits[i]), Waits')
    BY <1>2, <1>4
  <2>5. h \in Seq(Rec) /\ KeysDiffer(h) /\ KeysFrom(h, group, Waits[i][1])
    BY <1>8 DEF KeysFrom
  <2>6. Aggregate /\ some => MergeOk(Waits', h, out, part, some)
    BY <2>1, <2>2, <2>3, <2>4, <2>5, TakeGroup
  <2> QED  BY <2>1, <2>6 DEF some
<1>10. MergeOk(Waits', group', out', part', outs # <<>>)
  BY <1>3, <1>5, <1>9
<1>11. Conserved(MergePlaces(LeftOfReaders', mem', group', out'), input)
  <2> DEFINE S == StreamPlaces(LeftOfReaders) \cup At("mem", 0, mem)
             T == StreamPlaces(LeftOfReaders') \cup At("mem", 0, mem')
             G == At("group", 0, group)
             H == At("group", 0, h)
             O == At("out", 0, out)
  <2>1. y[1] = "new" /\ y[4] = r  OBVIOUS
  <2>2. Carries(S, T \cup {y})
    <3>1. y[1] # "stream" /\ y[1] # "mem"  BY <2>1
    <3> HIDE DEF y
    <3> QED  BY <1>2, <1>3, <2>1, <3>1, ConsumeCarries
  <2>3. \A x \in S : x \notin G \cup O  BY <1>2, MergeNames
  <2>4. LeftOfReaders' \in Streams
    <3>1. outs' \in Streams /\ ReadersOk(outs', rd')  BY <1>2, <1>3, <1>4
    <3>2. [j \in 1 .. Len(rd') |-> Left(outs'[j], rd'[j])] \in Streams
      BY <3>1, LeftTypes
    <3> QED  BY <3>2 DEF LeftOfReaders, Left
  <2>5. \A x \in T : x \notin G \cup O  BY <1>2, <1>4, <2>4, MergeNames
  <2>6. \A x \in T : x[1] = "stream" \/ x[1] = "mem"
    BY <1>4, <2>4, StreamPlaceNames, AtNames
  <2>7. \A x \in G \cup O : x[1] = "group" \/ x[1] = "out"  BY <1>2, AtNames
  <2>8. At("group", 0, group') = H /\ At("out", 0, out') = O  BY <1>3, <1>5
  <2>9. MergePlaces(LeftOfReaders, mem, group, out) = S \cup (G \cup O)
    BY DEF MergePlaces
  <2>10. MergePlaces(LeftOfReaders', mem', group', out') = H \cup (T \cup O)
    BY <2>8 DEF MergePlaces
  <2>11. Carries(G \cup {y}, H)  BY <1>8
  <2>12. \A x \in G : x \notin O  BY <1>2, MergeNames
  <2> HIDE DEF S, T, G, H, O, y
  <2>13. Carries(S \cup (G \cup O), (T \cup {y}) \cup (G \cup O))
    BY <2>2, <2>3, CarriesSome
  <2>14. \A x \in G \cup {y} : x \notin T \cup O
    BY <2>1, <2>5, <2>6, <2>7, <2>12
  <2>15. Carries((G \cup {y}) \cup (T \cup O), H \cup (T \cup O))
    BY <2>11, <2>14, CarriesSome
  <2>16. (T \cup {y}) \cup (G \cup O) = (G \cup {y}) \cup (T \cup O)  OBVIOUS
  <2>17. Carries(S \cup (G \cup O), H \cup (T \cup O))
    BY <2>13, <2>15, <2>16, CarriesTwice
  <2> QED  BY <1>2, <2>9, <2>10, <2>17, CarriesConserves
<1>12. /\ group' \in Seq(Rec) /\ out' \in Seq(Rec) /\ part' \in Nat
       /\ phase' \in {"read", "finished"} /\ coll' = {}
  BY <1>1, <1>2, <1>3, <1>5, <1>8
<1> QED  BY <1>2, <1>3, <1>4, <1>10, <1>11, <1>12, ReadNext

\* The group goes to the result.
LEMMA ReturnGroupInv ==
  ASSUME SorterInv, ReturnGroup
  PROVE  SorterInv'
<1>1. phase = "read" /\ Reading  BY DEF ReturnGroup, Reading
<1>2. /\ SorterType /\ ModeOk /\ Stage = "reduce" /\ coll = {}
      /\ input \in Seq(Keys) /\ outs \in Streams /\ WellFormed(outs)
      /\ StreamPerPartition(outs) /\ mem \in Seq(Rec) /\ group \in Seq(Rec)
      /\ out \in Seq(Rec) /\ part \in Nat /\ ReadersOk(outs, rd)
      /\ MergeOk(Waits, group, out, part, outs # <<>>)
      /\ Waits \in Streams /\ LeftOfReaders \in Streams
      /\ Conserved(MergePlaces(LeftOfReaders, mem, group, out), input)
  BY <1>1, ReadingInv
<1>3. /\ group # <<>> /\ out' = out \o group /\ group' = <<>>
      /\ \A i \in NonEmptyIterators : TurnOf(i) => ~SameGroup(Item(i)[1])
      /\ mode' = mode /\ phase' = phase /\ input' = input /\ coll' = coll
      /\ outs' = outs /\ part' = part /\ rd' = rd /\ mem' = mem
  BY DEF ReturnGroup
<1>4. Grouping
  BY <1>2, <1>3 DEF MergeOk, GroupFirst, Grouping
<1>5. NoneShares(Waits, group, part, outs # <<>>)
  <2>1. ASSUME NEW i, MayBeNext(Waits, i, part, outs # <<>>)
        PROVE  ~Shares(group, Waits[i][1])
    <3>1. i \in NonEmptyIterators /\ TurnOf(i)  BY <1>2, <1>4, <2>1, TurnIs
    <3>2. Item(i)[1] = Waits[i][1]
      BY <1>2, <3>1, ItemIs DEF NonEmptyIterators
    <3>3. ~SameGroup(Waits[i][1])  BY <1>3, <3>1, <3>2
    <3> QED  BY <3>3 DEF SameGroup, Shares
  <2> QED  BY <2>1 DEF NoneShares
<1>6. MergeOk(Waits, <<>>, out \o group, part, outs # <<>>)
  <2> DEFINE some == outs # <<>>
  <2>1. /\ some \in BOOLEAN /\ NoneShares(Waits, group, part, some)
        /\ MergeOk(Waits, group, out, part, some)
    BY <1>2, <1>5
  <2> HIDE DEF some
  <2>2. MergeOk(Waits, <<>>, out \o group, part, some)
    BY <1>2, <1>3, <2>1, ReturnOk
  <2> QED  BY <2>2 DEF some
<1>7. LeftOfReaders' = LeftOfReaders /\ Waits' = Waits
  BY <1>3 DEF LeftOfReaders, Waits, Left
<1>8. MergeOk(Waits', group', out', part', outs # <<>>)
  BY <1>3, <1>6, <1>7
<1>9. Conserved(MergePlaces(LeftOfReaders', mem', group', out'), input)
  <2> DEFINE S == StreamPlaces(LeftOfReaders) \cup At("mem", 0, mem)
             G == At("group", 0, group)
             O == At("out", 0, out)
             U == At("out", 0, out \o group)
  <2>1. Carries(G \cup O, U)  BY <1>2, ConcatCarries
  <2>2. \A x \in G \cup O : x \notin S  BY <1>2, MergeNames
  <2>3. MergePlaces(LeftOfReaders, mem, group, out) = (G \cup O) \cup S
    BY DEF MergePlaces
  <2>4. MergePlaces(LeftOfReaders', mem', group', out') = U \cup S
    <3>1. At("group", 0, group') = {}  BY <1>3, AtEmpty
    <3> QED  BY <1>3, <1>7, <3>1 DEF MergePlaces
  <2> HIDE DEF S, G, O, U
  <2>5. Carries((G \cup O) \cup S, U \cup S)  BY <2>1, <2>2, CarriesSome
  <2> QED  BY <1>2, <2>3, <2>4, <2>5, CarriesConserves
<1>10. /\ group' \in Seq(Rec) /\ out' \in Seq(Rec) /\ part' \in Nat
       /\ phase' \in {"read", "finished"} /\ coll' = {}
  <2>1. out \o group \in Seq(Rec) /\ <<>> \in Seq(Rec)  BY <1>2, ConcatIs
  <2> QED  BY <1>1, <1>2, <1>3, <2>1
<1>11. ReadersOk(outs, rd') /\ mem' \in Seq(Rec)  BY <1>2, <1>3
<1> QED  BY <1>2, <1>3, <1>8, <1>9, <1>10, <1>11, ReadNext

\* The next partition, or the end.
LEMMA NextPartitionInv ==
  ASSUME SorterInv, NextPartition
  PROVE  SorterInv'
<1>1. phase = "read" /\ Reading  BY DEF NextPartition, Reading
<1>2. /\ SorterType /\ ModeOk /\ Stage = "reduce" /\ coll = {}
      /\ input \in Seq(Keys) /\ outs \in Streams /\ WellFormed(outs)
      /\ StreamPerPartition(outs) /\ mem \in Seq(Rec) /\ group \in Seq(Rec)
      /\ out \in Seq(Rec) /\ part \in Nat /\ ReadersOk(outs, rd)
      /\ MergeOk(Waits, group, out, part, outs # <<>>)
      /\ Waits \in Streams /\ LeftOfReaders \in Streams
      /\ Conserved(MergePlaces(LeftOfReaders, mem, group, out), input)
  BY <1>1, ReadingInv
<1>3. /\ group = <<>> /\ NonEmptyIterators = {}
      /\ \/ part' = part + 1 /\ phase' = phase
         \/ part' = part /\ phase' = "finished"
      /\ mode' = mode /\ input' = input /\ coll' = coll /\ group' = group
      /\ out' = out /\ outs' = outs /\ rd' = rd /\ mem' = mem
  BY DEF NextPartition
<1>4. NoneOfPartition(Waits, part)
  <2>1. ASSUME NEW j \in 1 .. Len(Waits), Waits[j] # <<>>
        PROVE  PartitionOf(Waits[j][1].key) # part
    <3>1. j \in Iterators  BY <1>2, WaitsIs
    <3> QED  BY <1>2, <1>3, <2>1, <3>1, ItemIs
  <2> QED  BY <2>1 DEF NoneOfPartition
<1>5. MergeOk(Waits, <<>>, out, part + 1, outs # <<>>)
  <2> DEFINE some == outs # <<>>
  <2>1. some \in BOOLEAN /\ MergeOk(Waits, <<>>, out, part, some)
    BY <1>2, <1>3
  <2> HIDE DEF some
  <2>2. MergeOk(Waits, <<>>, out, part + 1, some)
    BY <1>2, <1>4, <2>1, NextPartOk
  <2> QED  BY <2>2 DEF some
<1>6. LeftOfReaders' = LeftOfReaders /\ Waits' = Waits
  BY <1>3 DEF LeftOfReaders, Waits, Left
<1>7. MergeOk(Waits', group', out', part', outs # <<>>)
  BY <1>2, <1>3, <1>5, <1>6
<1>8. Conserved(MergePlaces(LeftOfReaders', mem', group', out'), input)
  BY <1>2, <1>3, <1>6
<1>9. /\ group' \in Seq(Rec) /\ out' \in Seq(Rec) /\ part' \in Nat
      /\ phase' \in {"read", "finished"} /\ coll' = {}
  BY <1>1, <1>2, <1>3
<1>10. ReadersOk(outs, rd') /\ mem' \in Seq(Rec)  BY <1>2, <1>3
<1> QED  BY <1>2, <1>3, <1>7, <1>8, <1>9, <1>10, ReadNext

\* A step that changes nothing.
LEMMA SameInv ==
  ASSUME SorterInv, UNCHANGED svars
  PROVE  SorterInv'
<1>1. /\ mode' = mode /\ phase' = phase /\ input' = input /\ coll' = coll
      /\ outs' = outs /\ rd' = rd /\ mem' = mem /\ part' = part
      /\ group' = group /\ out' = out
  BY DEF svars
<1>2. CASE Reading
  <2>1. /\ ModeOk /\ Stage = "reduce" /\ coll = {}
        /\ input \in Seq(Keys) /\ outs \in Streams /\ WellFormed(outs)
        /\ StreamPerPartition(outs) /\ mem \in Seq(Rec) /\ group \in Seq(Rec)
        /\ out \in Seq(Rec) /\ part \in Nat /\ ReadersOk(outs, rd)
        /\ MergeOk(Waits, group, out, part, outs # <<>>)
        /\ Conserved(MergePlaces(LeftOfReaders, mem, group, out), input)
    BY <1>2, ReadingInv
  <2>2. LeftOfReaders' = LeftOfReaders /\ Waits' = Waits
    BY <1>1 DEF LeftOfReaders, Waits, Left
  <2>3. /\ MergeOk(Waits', group', out', part', outs # <<>>)
        /\ Conserved(MergePlaces(LeftOfReaders', mem', group', out'), input)
        /\ ReadersOk(outs, rd')
    BY <1>1, <2>1, <2>2
  <2>4. phase' \in {"read", "finished"}  BY <1>1, <1>2 DEF Reading
  <2> QED  BY <1>1, <2>1, <2>3, <2>4, ReadNext
<1>3. CASE ~Reading
  <2>1. phase \in {"insert", "stored"}
    BY <1>3 DEF SorterInv, SorterType, Reading
  <2>2. /\ ModeOk /\ input \in Seq(Keys) /\ coll \in SUBSET Rec
        /\ IsFiniteSet(coll) /\ outs \in Streams
        /\ rd = <<>> /\ mem = <<>> /\ group = <<>> /\ out = <<>> /\ part = 0
        /\ Aggregate => UniqueKeys(coll)
        /\ WellFormed(outs) /\ StreamPerPartition(outs)
        /\ Conserved(CollPlaces(coll) \cup StreamPlaces(outs), input)
    BY <2>1, StoredInv
  <2>3. phase # "insert" => coll = {}  BY DEF SorterInv, PhaseInv
  <2>4. /\ Conserved(CollPlaces(coll') \cup StreamPlaces(outs'), input')
        /\ coll' \in SUBSET Rec /\ IsFiniteSet(coll') /\ outs' \in Streams
        /\ Aggregate => UniqueKeys(coll')
        /\ WellFormed(outs') /\ StreamPerPartition(outs')
    BY <1>1, <2>2
  <2> QED  BY <1>1, <2>1, <2>2, <2>3, <2>4, StoredNext
<1> QED  BY <1>2, <1>3

\* SorterInv holds of every run of nvmExternalSorter, for every mode, and
\* however often the collection is spilled.
THEOREM SorterInvariant == SorterSpec => []SorterInv
<1>1. SorterInit => SorterInv  BY SorterInitInv
<1>2. SorterInv /\ [SorterNext]_svars => SorterInv'
  <2> SUFFICES ASSUME SorterInv, [SorterNext]_svars PROVE SorterInv'
    OBVIOUS
  <2>1. CASE UNCHANGED svars  BY <2>1, SameInv
  <2>2. ASSUME NEW k \in Keys, Insert(k) PROVE SorterInv'  BY <2>2, InsertInv
  <2>3. CASE ForceSpillToPmem  BY <2>3, ForceSpillInv
  <2>4. CASE PartitionedIterator  BY <2>4, PartitionedInv
  <2>5. ASSUME NEW i \in Iterators, NextItem(i) PROVE SorterInv'
    BY <2>5, NextItemInv
  <2>6. ASSUME NEW i \in Iterators, Collect(i) PROVE SorterInv'
    BY <2>6, CollectInv
  <2>7. CASE ReturnGroup  BY <2>7, ReturnGroupInv
  <2>8. CASE NextPartition  BY <2>8, NextPartitionInv
  <2> QED  BY <2>1, <2>2, <2>3, <2>4, <2>5, <2>6, <2>7, <2>8 DEF SorterNext
<1> QED  BY <1>1, <1>2, PTL DEF SorterSpec

\* No record is lost, duplicated or filed under another key on its way through
\* the collection, the spills, the readers and the merge.
THEOREM RecordsKept == SorterSpec => []RecordsConserved
<1>1. SorterInv => RecordsConserved
  <2> SUFFICES ASSUME SorterInv, NEW n \in 1 .. Len(input)
               PROVE  \E x \in Everywhere :
                        /\ n \in x[4].ids /\ x[4].key = input[n]
                        /\ \A y \in Everywhere : n \in y[4].ids => y = x
    BY DEF RecordsConserved
  <2>1. Conserved(Everywhere, input)  BY DEF SorterInv
  <2>2. PICK x \in Everywhere : n \in x[4].ids  BY <2>1 DEF Conserved
  <2>3. x[4].key = input[n]  BY <2>1, <2>2 DEF Conserved
  <2>4. \A y \in Everywhere : n \in y[4].ids => y = x
    BY <2>1, <2>2 DEF Conserved
  <2> QED  BY <2>2, <2>3, <2>4
<1> QED  BY <1>1, SorterInvariant, PTL

\* The order of the result, before and while it is read.
LEMMA OutIs ==
  ASSUME SorterInv
  PROVE  /\ DOMAIN out = 1 .. Len(out)
         /\ \A i, j \in DOMAIN out : i < j => NotAfter(out[i], out[j], Ordering)
         /\ Aggregate => KeysDiffer(out)
<1>1. out \in Seq(Rec)  BY DEF SorterInv, SorterType
<1>2. CASE Reading
  <2>1. MergeOk(Waits, group, out, part, outs # <<>>)  BY <1>2, ReadingInv
  <2> QED  BY <1>1, <2>1 DEF MergeOk, OutFirst, KeysApart
<1>3. CASE ~Reading
  <2>1. out = <<>>  BY <1>3 DEF SorterInv, PhaseInv
  <2> QED  BY <2>1 DEF KeysDiffer
<1> QED  BY <1>2, <1>3

\* The reducer gets its records partition by partition and, with an ordering,
\* by key: readers, memory and heap together keep the order of the spills.
THEOREM SortedOutput == SorterSpec => []OutputSorted
<1>1. SorterInv => OutputSorted  BY OutIs DEF OutputSorted
<1> QED  BY <1>1, SorterInvariant, PTL

\* With an aggregator a key is returned once, also when its records were
\* spilled several times between those of keys with the same hash code.
THEOREM KeysOnce == SorterSpec => []OneRecordPerKey
<1>1. SorterInv => OneRecordPerKey  BY OutIs DEF OneRecordPerKey, KeysDiffer
<1> QED  BY <1>1, SorterInvariant, PTL

\* Every stream that spillMemoryIteratorToPmem writes is of one partition, and
\* sorted if it is to be merged.
THEOREM StreamsSorted == SorterSpec => []StreamsWellFormed
<1>1. SorterInv => StreamsWellFormed
  <2> SUFFICES ASSUME SorterInv PROVE StreamsWellFormed  OBVIOUS
  <2>1. WellFormed(outs)  BY DEF SorterInv, PhaseInv
  <2> QED  BY <2>1 DEF WellFormed, StreamOk, StreamsWellFormed
<1> QED  BY <1>1, SorterInvariant, PTL

=============================================================================
