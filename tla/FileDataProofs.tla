--------------------------- MODULE FileDataProofs ---------------------------
(***************************************************************************)
(* Proofs about FileData: for files, writes and tags of any size and       *)
(* number, the extent list is tidy and reads return what was written.      *)
(*                                                                         *)
(* coalesce and clipExtents are loops.  What one computes is proved by     *)
(* naming its closed form, showing that the form satisfies the loop's      *)
(* equation, and looking at the first step where another solution would    *)
(* differ (Least).                                                         *)
(***************************************************************************)
EXTENDS FileData, FiniteSetTheorems, TLAPS

----------------------------------------------------------------------------
(* Loops over lists *)

\* The fields of an extent.
LEMMA ExtentFields ==
  ASSUME NEW x \in Extent
  PROVE  /\ x.off \in Nat /\ x.len \in Nat /\ x.boff \in Nat /\ End(x) \in Nat
         /\ x.blob \in Blob /\ x.blob.len \in Nat
<1>1. x.off \in Nat /\ x.len \in Nat /\ x.boff \in Nat /\ x.blob \in Blob
  BY DEF Extent
<1>2. x.blob.len \in Nat
  BY <1>1, FileAssumption DEF Blob
<1> QED BY <1>1, <1>2 DEF End

\* A function on 1 .. n with values in S is a sequence over S.
LEMMA ListOf ==
  ASSUME NEW S, NEW n \in Nat, NEW f, f = [i \in 1 .. n |-> f[i]],
         \A i \in 1 .. n : f[i] \in S
  PROVE  f \in Seq(S) /\ Len(f) = n
<1>1. f \in [1 .. n -> S]
  BY Zenon
<1> QED BY <1>1

\* The least-number principle, for a set.
LEMMA Least ==
  ASSUME NEW T, T \subseteq Nat, T # {}
  PROVE  \E m \in T : \A k \in T : m <= k
<1>1. PICK m \in T : \A k \in T : ~(<<k, m>> \in OpToRel(<, Nat))
  BY NatLessThanWellFounded, WFMin, Zenon
<1>2. \A k \in T : ~(k < m)
  BY Zenon, <1>1 DEF OpToRel
<1> QED BY <1>2

\* Two functions that agree wherever they agree just before are the same.
LEMMA SameLoop ==
  ASSUME NEW n \in Nat, NEW f, NEW g, f[0] = g[0],
         \A i \in 1 .. n : f[i - 1] = g[i - 1] => f[i] = g[i]
  PROVE  f[n] = g[n]
<1> DEFINE Bad == {i \in 0 .. n : f[i] # g[i]}
<1>1. SUFFICES ASSUME Bad # {} PROVE FALSE
  <2>1. n \in 0 .. n
    OBVIOUS
  <2> QED BY <2>1, Zenon
<1>2. Bad \subseteq Nat
  OBVIOUS
<1>3. PICK m \in Bad : \A k \in Bad : m <= k
  <2> HIDE DEF Bad
  <2> QED BY <1>1, <1>2, Least, Zenon
<1>4. m # 0 /\ m \in 0 .. n /\ f[m] # g[m]
  OBVIOUS
<1>5. m \in 1 .. n /\ m - 1 \in 0 .. n /\ ~(m <= m - 1)
  BY <1>4
<1>6. f[m - 1] = g[m - 1]
  BY <1>3, <1>5, Zenon
<1> QED BY <1>4, <1>5, <1>6, Zenon

\* coalesce leaves a list alone in which no extent continues the one before.
LEMMA Unmerged ==
  ASSUME NEW X, NEW exts \in Seq(X),
         \A i \in 1 .. Len(exts) - 1 : ~adjacent(exts[i], exts[i + 1])
  PROVE  coalesce(exts) = exts
<1> DEFINE Loop(h) ==
             h = [i \in 0 .. Len(exts) |->
                    IF i = 0 THEN <<>> ELSE Merged(h[i - 1], exts[i])]
           g == [i \in 0 .. Len(exts) |-> SubSeq(exts, 1, i)]
           f == CHOOSE h : Loop(h)
<1>1. coalesce(exts) = f[Len(exts)]
  BY DEF coalesce
<1>2. ASSUME NEW i \in 1 .. Len(exts)
      PROVE  Merged(SubSeq(exts, 1, i - 1), exts[i]) = SubSeq(exts, 1, i)
  <2>1. Append(SubSeq(exts, 1, i - 1), exts[i]) = SubSeq(exts, 1, i)
    OBVIOUS
  <2>2. CASE i = 1
    <3>1. SubSeq(exts, 1, i - 1) = <<>>
      BY <2>2
    <3> QED BY <3>1, <2>1, Zenon DEF Merged
  <2>3. CASE i > 1
    <3> DEFINE s == SubSeq(exts, 1, i - 1)
    <3>1. s \in Seq(X) /\ Len(s) = i - 1
      BY <2>3
    <3>2. s # <<>> /\ s[i - 1] = exts[i - 1]
      <4>1. Len(s) # Len(<<>>)
        BY <2>3, <3>1
      <4>2. s[i - 1] = exts[i - 1]
        BY <2>3
      <4> QED BY <4>1, <4>2, Zenon
    <3>3. ~adjacent(exts[i - 1], exts[i])
      BY <2>3
    <3>4. ~adjacent(s[Len(s)], exts[i])
      BY <3>1, <3>2, <3>3, Zenon
    <3> QED BY <3>4, <2>1, Zenon DEF Merged
  <2> QED BY <2>2, <2>3
<1>3. Loop(g)
  <2>1. ASSUME NEW i \in 0 .. Len(exts), i # 0
        PROVE  g[i] = Merged(g[i - 1], exts[i])
    <3>1. i \in 1 .. Len(exts) /\ i - 1 \in 0 .. Len(exts)
      BY <2>1
    <3>2. g[i - 1] = SubSeq(exts, 1, i - 1) /\ g[i] = SubSeq(exts, 1, i)
      BY <3>1, Zenon
    <3> QED BY <3>1, <3>2, <1>2, Zenon
  <2>2. g[0] = <<>>
    OBVIOUS
  <2> QED BY <2>1, <2>2, Zenon
<1>4. Loop(f)
  <2> HIDE DEF Loop
  <2> QED BY <1>3, Zenon
<1>5. f[Len(exts)] = g[Len(exts)]
  <2> HIDE DEF f, g
  <2>1. f[0] = <<>> /\ g[0] = <<>>
    <3>1. 0 \in 0 .. Len(exts)
      OBVIOUS
    <3> QED BY <1>3, <1>4, <3>1, Zenon
  <2>2. ASSUME NEW i \in 1 .. Len(exts)
        PROVE  f[i] = Merged(f[i - 1], exts[i]) /\ g[i] = Merged(g[i - 1], exts[i])
    <3>1. i \in 0 .. Len(exts) /\ i # 0
      OBVIOUS
    <3> QED BY <1>3, <1>4, <3>1, Zenon
  <2>3. Len(exts) \in Nat
    OBVIOUS
  <2>4. \A i \in 1 .. Len(exts) : f[i - 1] = g[i - 1] => f[i] = g[i]
    BY <2>2, Zenon
  <2> HIDE DEF Loop
  <2> QED BY <2>1, <2>3, <2>4, SameLoop, Zenon
<1>6. g[Len(exts)] = exts
  OBVIOUS
<1> QED BY <1>1, <1>5, <1>6, Zenon

\* In a list sorted by offset, what begins before end is a prefix.
LEMMA Prefix ==
  ASSUME NEW exts \in Seq(Extent), NEW end \in Nat,
         \A i, j \in DOMAIN exts : i < j => exts[i].off < exts[j].off
  PROVE  \E n \in 0 .. Len(exts) :
           \A j \in 1 .. Len(exts) : exts[j].off < end <=> j <= n
<1> DEFINE Late == {j \in 1 .. Len(exts) : ~(exts[j].off < end)}
<1>0. \A j \in 1 .. Len(exts) : exts[j].off \in Nat
  <2>1. \A j \in 1 .. Len(exts) : exts[j] \in Extent
    OBVIOUS
  <2> QED BY <2>1, ExtentFields, Zenon
<1>1. CASE Late = {}
  <2>1. Len(exts) \in 0 .. Len(exts)
    OBVIOUS
  <2>2. \A j \in 1 .. Len(exts) : exts[j].off < end <=> j <= Len(exts)
    BY <1>1
  <2> QED BY <2>1, <2>2, Zenon
<1>2. CASE Late # {}
  <2>1. Late \subseteq Nat
    OBVIOUS
  <2>2. PICK m \in Late : \A k \in Late : m <= k
    <3> HIDE DEF Late
    <3> QED BY <1>2, <2>1, Least, Zenon
  <2>3. m \in 1 .. Len(exts) /\ m - 1 \in 0 .. Len(exts) /\ ~(exts[m].off < end)
    OBVIOUS
  <2>4. ASSUME NEW j \in 1 .. Len(exts)
        PROVE  exts[j].off < end <=> j <= m - 1
    <3>1. CASE j < m
      <4>1. j \notin Late
        BY <2>2, <2>3, <3>1
      <4> QED BY <4>1, <3>1, <2>3
    <3>2. CASE j = m
      BY <2>3, <3>2
    <3>3. CASE m < j
      <4>1. exts[m].off < exts[j].off
        BY <2>3, <3>3
      <4> QED BY <4>1, <3>3, <2>3, <1>0
    <3> QED BY <3>1, <3>2, <3>3, <2>3
  <2> QED BY <2>3, <2>4, Zenon
<1> QED BY <1>1, <1>2

\* clipExtents keeps that prefix, each extent cut at the end.
LEMMA ClippedPrefix ==
  ASSUME NEW exts \in Seq(Extent), NEW end \in Nat, NEW n \in 0 .. Len(exts),
         \A j \in 1 .. Len(exts) : exts[j].off < end <=> j <= n
  PROVE  clipExtents(exts, end) = [j \in 1 .. n |-> Clipped(exts[j], end)]
<1> DEFINE Step(out, i) ==
             IF exts[i].off >= end THEN out
             ELSE Append(out, Clipped(exts[i], end))
           Loop(h) ==
             h = [i \in 0 .. Len(exts) |->
                    IF i = 0 THEN <<>> ELSE Step(h[i - 1], i)]
           Upto(i) == [j \in 1 .. i |-> Clipped(exts[j], end)]
           g == [i \in 0 .. Len(exts) |-> IF i <= n THEN Upto(i) ELSE Upto(n)]
           f == CHOOSE h : Loop(h)
<1>1. clipExtents(exts, end) = f[Len(exts)]
  BY Zenon DEF clipExtents
<1>2. ASSUME NEW i \in 1 .. Len(exts)
      PROVE  /\ i <= n => Step(Upto(i - 1), i) = Upto(i)
             /\ ~(i <= n) => Step(Upto(n), i) = Upto(n)
  <2>0. exts[i].off \in Nat
    <3>1. exts[i] \in Extent
      OBVIOUS
    <3> QED BY <3>1, ExtentFields, Zenon
  <2>1. CASE i <= n
    <3>1. ~(exts[i].off >= end)
      BY <2>0, <2>1
    <3>2. Append(Upto(i - 1), Clipped(exts[i], end)) = Upto(i)
      <4> DEFINE c(j) == Clipped(exts[j], end)
      <4> HIDE DEF c
      <4>1. Append([j \in 1 .. i - 1 |-> c(j)], c(i)) = [j \in 1 .. i |-> c(j)]
        <5> DEFINE C == {c(j) : j \in 1 .. i}
                   s == [j \in 1 .. i - 1 |-> c(j)]
                   t == [j \in 1 .. i |-> c(j)]
        <5>0. i \in Nat /\ i - 1 \in Nat /\ \A j \in 1 .. i - 1 : j \in 1 .. i
          BY <2>0
        <5>1. s \in Seq(C) /\ Len(s) = i - 1
          <6>1. \A j \in 1 .. i - 1 : s[j] \in C
            BY <5>0, Zenon
          <6>2. s = [j \in 1 .. i - 1 |-> s[j]]
            BY Zenon
          <6> HIDE DEF s, C
          <6> QED BY <5>0, <6>1, <6>2, ListOf, ZenonT(30)
        <5>2. t \in Seq(C) /\ Len(t) = i
          <6>1. \A j \in 1 .. i : t[j] \in C
            BY Zenon
          <6>2. t = [j \in 1 .. i |-> t[j]]
            BY Zenon
          <6> HIDE DEF t, C
          <6> QED BY <5>0, <6>1, <6>2, ListOf, Zenon
        <5>3. c(i) \in C
          OBVIOUS
        <5>4. Append(s, c(i)) \in Seq(C) /\ Len(Append(s, c(i))) = i
          BY <5>1, <5>3
        <5>5. \A j \in 1 .. i : Append(s, c(i))[j] = t[j]
          BY <5>1, <5>3
        <5> HIDE DEF s, t, C
        <5> QED BY <5>2, <5>4, <5>5
      <4> QED BY <4>1 DEF c
    <3> QED BY <3>1, <3>2, <2>1, Zenon
  <2>2. CASE ~(i <= n)
    <3>1. exts[i].off >= end
      BY <2>0, <2>2
    <3> QED BY <3>1, <2>2, Zenon
  <2> QED BY <2>1, <2>2
<1>3. \A i \in 1 .. Len(exts) : g[i] = Step(g[i - 1], i)
  <2> TAKE i \in 1 .. Len(exts)
  <2>1. i \in 0 .. Len(exts) /\ i - 1 \in 0 .. Len(exts)
    OBVIOUS
  <2>2. g[i] = (IF i <= n THEN Upto(i) ELSE Upto(n))
    BY <2>1, Zenon
  <2>3. g[i - 1] = (IF i - 1 <= n THEN Upto(i - 1) ELSE Upto(n))
    BY <2>1, Zenon
  <2> HIDE DEF Upto, Step, g
  <2>4. CASE i <= n
    <3>1. i - 1 <= n
      BY <2>4
    <3> QED BY <3>1, <2>2, <2>3, <2>4, <1>2, Zenon
  <2>5. CASE ~(i <= n)
    <3>1. CASE i - 1 <= n
      <4>1. i - 1 = n
        BY <3>1, <2>5
      <4> QED BY <4>1, <3>1, <2>2, <2>3, <2>5, <1>2, Zenon
    <3>2. CASE ~(i - 1 <= n)
      BY <3>2, <2>2, <2>3, <2>5, <1>2, Zenon
    <3> QED BY <3>1, <3>2
  <2> QED BY <2>4, <2>5
<1>4. g[0] = <<>> /\ g[Len(exts)] = Upto(n)
  <2>1. Len(exts) <= n => Len(exts) = n
    OBVIOUS
  <2>2. 0 \in 0 .. Len(exts) /\ Len(exts) \in 0 .. Len(exts) /\ 0 <= n
    OBVIOUS
  <2>3. Upto(0) = <<>>
    OBVIOUS
  <2> QED BY <2>1, <2>2, <2>3, Zenon
<1>5. Loop(g)
  <2>1. \A i \in 0 .. Len(exts) : i # 0 => i \in 1 .. Len(exts)
    OBVIOUS
  <2>2. g = [i \in 0 .. Len(exts) |-> g[i]]
    BY Zenon
  <2> HIDE DEF g, Step
  <2> QED BY <2>1, <2>2, <1>3, <1>4, Zenon
<1>6. Loop(f)
  <2> HIDE DEF Loop
  <2> QED BY <1>5, Zenon
<1>7. f[Len(exts)] = g[Len(exts)]
  <2> HIDE DEF f, g, Step
  <2>1. f[0] = <<>>
    <3>1. 0 \in 0 .. Len(exts)
      OBVIOUS
    <3> QED BY <1>6, <3>1, Zenon
  <2>2. \A i \in 1 .. Len(exts) : f[i] = Step(f[i - 1], i)
    <3>1. \A i \in 1 .. Len(exts) : i \in 0 .. Len(exts) /\ i # 0
      OBVIOUS
    <3> QED BY <1>6, <3>1, Zenon
  <2>3. Len(exts) \in Nat
    OBVIOUS
  <2>4. \A i \in 1 .. Len(exts) : f[i - 1] = g[i - 1] => f[i] = g[i]
    BY <2>2, <1>3, Zenon
  <2>5. f[0] = g[0]
    BY <2>1, <1>4, Zenon
  <2> HIDE DEF Loop
  <2> QED BY <2>5, <2>3, <2>4, SameLoop, Zenon
<1> QED BY <1>1, <1>7, <1>4, Zenon

\* Sorted lists the members of a finite set of extents that begin at different
\* offsets, all of them, in order.
LEMMA SortedList ==
  ASSUME NEW S, IsFiniteSet(S), S \subseteq Extent,
         \A x, y \in S : x.off = y.off => x = y
  PROVE  /\ Sorted(S) \in Seq(S)
         /\ \A i, j \in 1 .. Len(Sorted(S)) :
              i < j => Sorted(S)[i].off < Sorted(S)[j].off
         /\ \A x \in S : \E i \in 1 .. Len(Sorted(S)) : Sorted(S)[i] = x
<1> DEFINE n == Cardinality(S)
           Lower(x) == {y \in S : y.off < x.off}
           Rank(x) == Cardinality(Lower(x))
<1>0. n \in Nat /\ \A x \in S : x.off \in Nat
  <2>1. n \in Nat
    BY FS_CardinalityType
  <2>2. \A x \in S : x \in Extent
    OBVIOUS
  <2> QED BY <2>1, <2>2, ExtentFields, Zenon
<1>1. ASSUME NEW x \in S
      PROVE  Rank(x) \in 0 .. n - 1
  <2>1. Lower(x) \in SUBSET S /\ x \notin Lower(x)
    BY <1>0
  <2>2. Lower(x) # S
    BY <2>1, Zenon
  <2> HIDE DEF Lower
  <2>3. IsFiniteSet(Lower(x)) /\ Rank(x) <= n /\ (n = Rank(x) => S = Lower(x))
    BY <2>1, FS_Subset
  <2>4. Rank(x) \in Nat
    BY <2>3, FS_CardinalityType
  <2> HIDE DEF n, Rank
  <2> QED BY <2>2, <2>3, <2>4, <1>0
<1>2. ASSUME NEW x \in S, NEW y \in S, x.off < y.off
      PROVE  Rank(x) < Rank(y)
  <2>1. Lower(x) \subseteq Lower(y) /\ x \in Lower(y) /\ x \notin Lower(x)
    BY <1>0, <1>2
  <2>2. Lower(y) \in SUBSET S
    OBVIOUS
  <2> HIDE DEF Lower
  <2>3. IsFiniteSet(Lower(y))
    BY <2>2, FS_Subset
  <2>4. Rank(x) <= Rank(y) /\ (Rank(y) = Rank(x) => Lower(y) = Lower(x))
    BY <2>1, <2>3, FS_Subset
  <2>5. Rank(x) \in Nat /\ Rank(y) \in Nat
    BY <1>0, <1>1
  <2>6. Lower(x) # Lower(y)
    BY <2>1, Zenon
  <2> HIDE DEF Rank
  <2> QED BY <2>4, <2>5, <2>6
<1> HIDE DEF Rank
<1>3. ASSUME NEW x \in S, NEW y \in S, Rank(x) = Rank(y)
      PROVE  x = y
  <2>1. ~(x.off < y.off) /\ ~(y.off < x.off)
    <3>1. Rank(x) \in Int /\ Rank(y) \in Int
      BY <1>0, <1>1
    <3> QED BY <3>1, <1>2, <1>3
  <2>2. x.off = y.off
    BY <2>1, <1>0
  <2> QED BY <2>2, Zenon
<1>4. ASSUME NEW i \in 1 .. n
      PROVE  \E x \in S : Rank(x) = i - 1
  <2> DEFINE T == (0 .. n - 1) \ {i - 1}
             f == [x \in S |-> Rank(x)]
  <2>1. SUFFICES ASSUME \A x \in S : Rank(x) # i - 1 PROVE FALSE
    BY Zenon
  <2>2. f \in [S -> T]
    BY <2>1, <1>1
  <2>3. IsFiniteSet(0 .. n - 1) /\ Cardinality(0 .. n - 1) = n
    <3> HIDE DEF n
    <3>1. 0 \in Int /\ n - 1 \in Int /\ ~(0 > n - 1)
      BY <1>0
    <3>2. IsFiniteSet(0 .. n - 1) /\ Cardinality(0 .. n - 1) = (n - 1) - 0 + 1
      BY <3>1, FS_Interval
    <3> QED BY <3>2, <1>0
  <2>4. IsFiniteSet(T) /\ Cardinality(T) = n - 1
    <3> HIDE DEF n
    <3>1. i - 1 \in 0 .. n - 1
      BY <1>0
    <3> DEFINE I == 0 .. n - 1
    <3> HIDE DEF I
    <3>2. IsFiniteSet(I \ {i - 1})
          /\ Cardinality(I \ {i - 1}) = (IF i - 1 \in I THEN Cardinality(I) - 1
                                        ELSE Cardinality(I))
      BY <2>3, FS_RemoveElement, Zenon DEF I
    <3> QED BY <3>1, <3>2, <2>3, Zenon DEF I
  <2>5. Cardinality(T) < n
    <3> HIDE DEF n, T
    <3> QED BY <2>4, <1>0
  <2>6. PICK x \in S, y \in S : x # y /\ f[x] = f[y]
    <3> HIDE DEF f, T
    <3>1. \E x, y \in S : x # y /\ f[x] = f[y]
      BY <2>2, <2>4, <2>5, FS_PigeonHole
    <3> QED BY <3>1, Zenon
  <2>7. Rank(x) = Rank(y)
    BY <2>6, Zenon
  <2> QED BY <2>6, <2>7, <1>3, Zenon
<1> DEFINE At(i) == CHOOSE x \in S : Rank(x) = i - 1
<1>5. \A i \in 1 .. n : At(i) \in S /\ Rank(At(i)) = i - 1
  BY <1>4, Zenon
<1>6. Sorted(S) = [i \in 1 .. n |-> At(i)]
  BY Zenon DEF Sorted, Rank
<1> HIDE DEF At
<1>7. Sorted(S) \in Seq(S) /\ Len(Sorted(S)) = n
  <2> HIDE DEF n
  <2>1. [i \in 1 .. n |-> At(i)] \in [1 .. n -> S]
    BY <1>5, Zenon
  <2>2. \A s \in [1 .. n -> S] : s \in Seq(S) /\ Len(s) = n
    BY <1>0
  <2> QED BY <2>1, <2>2, <1>6, Zenon
<1>8. \A i \in 1 .. n : Sorted(S)[i] = At(i)
  BY <1>6, Zenon
<1>9. ASSUME NEW i \in 1 .. n, NEW j \in 1 .. n, i < j
      PROVE  At(i).off < At(j).off
  <2> HIDE DEF n
  <2>1. At(i) \in S /\ At(j) \in S /\ Rank(At(i)) = i - 1 /\ Rank(At(j)) = j - 1
    BY <1>5, Zenon
  <2>2. ~(At(j).off < At(i).off)
    <3>1. ~(j - 1 < i - 1)
      BY <1>9
    <3> QED BY <3>1, <2>1, <1>2, Zenon
  <2>3. At(i) # At(j)
    BY <2>1, <1>9
  <2>4. At(i).off # At(j).off
    BY <2>1, <2>3, Zenon
  <2>5. At(i).off \in Nat /\ At(j).off \in Nat
    BY <2>1, <1>0, Zenon
  <2> QED BY <2>2, <2>4, <2>5
<1>10. ASSUME NEW x \in S
       PROVE  \E i \in 1 .. n : At(i) = x
  <2>1. Rank(x) \in 0 .. n - 1
    BY <1>1, Zenon
  <2> DEFINE i == Rank(x) + 1
  <2>2. i \in 1 .. n /\ i - 1 = Rank(x)
    <3> HIDE DEF n
    <3> QED BY <2>1, <1>0
  <2>3. At(i) \in S /\ Rank(At(i)) = Rank(x)
    BY <2>2, <1>5, Zenon
  <2>4. At(i) = x
    BY <2>3, <1>3, Zenon
  <2> QED BY <2>2, <2>4, Zenon
<1> HIDE DEF n
<1>11. \A i, j \in 1 .. n : i < j => Sorted(S)[i].off < Sorted(S)[j].off
  BY <1>8, <1>9, Zenon
<1>12. \A x \in S : \E i \in 1 .. n : Sorted(S)[i] = x
  BY <1>8, <1>10, Zenon
<1> QED BY <1>7, <1>11, <1>12, Zenon
----------------------------------------------------------------------------
(* insertExtent and clipExtents: what they leave at each offset *)

\* An extent of a tidy list.
Sound(x) == x \in Extent /\ x.len > 0 /\ x.boff + x.len <= x.blob.len

\* Offset k of the list holds b.
Shows(exts, k, b) ==
  \E i \in DOMAIN exts : Covers(exts[i], k) /\ b = ByteAt(exts[i], k)

Apart(x, y) == End(x) <= y.off \/ End(y) <= x.off

\* p is a part of x, outside e; each of its ends is an end of x or is at e.
PartOf(p, x, e) ==
  /\ Sound(p) /\ Apart(p, e)
  /\ x.off <= p.off /\ End(p) <= End(x)
  /\ p.blob = x.blob /\ p.boff = x.boff + (p.off - x.off)
  /\ p.off = x.off \/ p.off = End(e)
  /\ End(p) = End(x) \/ End(p) = e.off

\* The pieces of an extent are such parts.
LEMMA PieceParts ==
  ASSUME NEW x, Sound(x), NEW e, Sound(e), NEW p \in Pieces(x, e)
  PROVE  PartOf(p, x, e)
<1>0. /\ x \in Extent /\ e \in Extent
      /\ x.off \in Nat /\ x.len \in Nat /\ x.boff \in Nat /\ x.blob \in Blob
      /\ x.blob.len \in Nat /\ e.off \in Nat /\ e.len \in Nat
      /\ x.len > 0 /\ e.len > 0 /\ x.boff + x.len <= x.blob.len
  BY ExtentFields DEF Sound
<1>1. CASE ~overlaps(x, e.off, End(e))
  <2>1. p = x
    BY <1>1 DEF Pieces
  <2> QED BY <2>1, <1>0, <1>1 DEF PartOf, Sound, Apart, overlaps, End
<1> DEFINE left == [x EXCEPT !.len = e.off - x.off]
           right == [off |-> End(e), len |-> End(x) - End(e), blob |-> x.blob,
                     boff |-> x.boff + (End(e) - x.off)]
<1>2. CASE overlaps(x, e.off, End(e)) /\ x.off < e.off /\ p = left
  <2>1. /\ left.off = x.off /\ left.len = e.off - x.off
        /\ left.blob = x.blob /\ left.boff = x.boff
    BY <1>0 DEF Extent
  <2>2. left \in Extent
    BY <1>0, <1>2 DEF Extent
  <2> HIDE DEF left
  <2> QED BY <2>1, <2>2, <1>0, <1>2 DEF PartOf, Sound, Apart, overlaps, End
<1>3. CASE overlaps(x, e.off, End(e)) /\ End(x) > End(e) /\ p = right
  <2>1. /\ right.off = End(e) /\ right.len = End(x) - End(e)
        /\ right.blob = x.blob /\ right.boff = x.boff + (End(e) - x.off)
    OBVIOUS
  <2>2. right \in Extent
    BY <1>0, <1>3 DEF Extent, overlaps, End
  <2> HIDE DEF right
  <2> QED BY <2>1, <2>2, <1>0, <1>3 DEF PartOf, Sound, Apart, overlaps, End
<1> QED BY <1>1, <1>2, <1>3, Zenon DEF Pieces

\* Two pieces of an extent are apart, and every offset of it outside the new
\* extent is in one of them.
LEMMA PieceCover ==
  ASSUME NEW x, Sound(x), NEW e, Sound(e)
  PROVE  /\ \A p, q \in Pieces(x, e) : p = q \/ Apart(p, q)
         /\ \A k \in Nat : Covers(x, k) /\ ~Covers(e, k) =>
              \E p \in Pieces(x, e) : Covers(p, k)
         /\ IsFiniteSet(Pieces(x, e))
<1>0. /\ x \in Extent /\ e \in Extent
      /\ x.off \in Nat /\ x.len \in Nat /\ x.boff \in Nat
      /\ e.off \in Nat /\ e.len \in Nat
      /\ x.len > 0 /\ e.len > 0
  BY ExtentFields DEF Sound
<1> DEFINE left == [x EXCEPT !.len = e.off - x.off]
           right == [off |-> End(e), len |-> End(x) - End(e), blob |-> x.blob,
                     boff |-> x.boff + (End(e) - x.off)]
<1>1. /\ left.off = x.off /\ left.len = e.off - x.off
      /\ right.off = End(e) /\ right.len = End(x) - End(e)
  BY <1>0 DEF Extent
<1>2. \A p \in Pieces(x, e) : p = x \/ p = left \/ p = right
  BY Zenon DEF Pieces
<1>3. \A p \in Pieces(x, e) :
        \/ ~overlaps(x, e.off, End(e)) /\ p = x
        \/ overlaps(x, e.off, End(e)) /\ (p = left \/ p = right)
  BY Zenon DEF Pieces
<1>4. ~overlaps(x, e.off, End(e)) => x \in Pieces(x, e)
  BY Zenon DEF Pieces
<1>5. overlaps(x, e.off, End(e)) /\ x.off < e.off => left \in Pieces(x, e)
  BY Zenon DEF Pieces
<1>6. overlaps(x, e.off, End(e)) /\ End(x) > End(e) => right \in Pieces(x, e)
  BY Zenon DEF Pieces
<1>7. IsFiniteSet(Pieces(x, e))
  <2>1. IsFiniteSet({x} \cup {left} \cup {right})
    <3>1. IsFiniteSet({x})
      BY FS_Singleton, Zenon
    <3>2. IsFiniteSet({x} \cup {left})
      BY <3>1, FS_AddElement, Zenon
    <3> QED BY <3>2, FS_AddElement, Zenon
  <2>2. Pieces(x, e) \in SUBSET ({x} \cup {left} \cup {right})
    BY <1>2, Zenon
  <2> QED BY <2>1, <2>2, FS_Subset, Zenon
<1> HIDE DEF left, right
<1>8. Apart(left, right) /\ Apart(right, left)
  BY <1>0, <1>1 DEF Apart, End
<1>9. \A p, q \in Pieces(x, e) : p = q \/ Apart(p, q)
  BY <1>3, <1>8, Zenon
<1>10. ASSUME NEW k \in Nat, Covers(x, k), ~Covers(e, k)
       PROVE  \E p \in Pieces(x, e) : Covers(p, k)
  <2>1. CASE ~overlaps(x, e.off, End(e))
    BY <2>1, <1>4, <1>10, Zenon
  <2>2. CASE overlaps(x, e.off, End(e)) /\ k < e.off
    <3>1. x.off < e.off /\ Covers(left, k)
      BY <2>2, <1>0, <1>1, <1>10 DEF Covers, End
    <3> QED BY <3>1, <2>2, <1>5, Zenon
  <2>3. CASE overlaps(x, e.off, End(e)) /\ End(e) <= k
    <3>1. End(x) > End(e) /\ Covers(right, k)
      BY <2>3, <1>0, <1>1, <1>10 DEF Covers, End
    <3> QED BY <3>1, <2>3, <1>6, Zenon
  <2>4. k < e.off \/ End(e) <= k
    BY <1>0, <1>10 DEF Covers, End
  <2> QED BY <2>1, <2>2, <2>3, <2>4, Zenon
<1> QED BY <1>7, <1>9, <1>10, Zenon

\* The members of a tidy list are sound, apart and not adjacent.
LEMMA TidyParts ==
  ASSUME NEW exts, Tidy(exts)
  PROVE  /\ exts \in Seq(Extent) /\ DOMAIN exts = 1 .. Len(exts)
         /\ Len(exts) \in Nat
         /\ \A i \in DOMAIN exts : Sound(exts[i])
         /\ \A i, j \in DOMAIN exts :
              i # j => Apart(exts[i], exts[j]) /\ ~adjacent(exts[i], exts[j])
         /\ \A i, j \in DOMAIN exts : i < j => exts[i].off < exts[j].off
<1>1. exts \in Seq(Extent)
  BY Zenon DEF Tidy
<1>2. DOMAIN exts = 1 .. Len(exts) /\ Len(exts) \in Nat
  BY <1>1
<1>3. \A i \in DOMAIN exts : exts[i] \in Extent
  BY <1>1
<1>4. \A i \in DOMAIN exts : Sound(exts[i])
  BY <1>3, Zenon DEF Tidy, Sound
<1>5. ASSUME NEW i \in DOMAIN exts, NEW j \in DOMAIN exts, i < j
      PROVE  /\ exts[i].off < exts[j].off /\ Apart(exts[i], exts[j])
             /\ Apart(exts[j], exts[i])
             /\ ~adjacent(exts[i], exts[j]) /\ ~adjacent(exts[j], exts[i])
  <2>1. End(exts[i]) <= exts[j].off /\ ~adjacent(exts[i], exts[j])
    BY <1>5, Zenon DEF Tidy
  <2>2. /\ exts[i].off \in Nat /\ exts[i].len \in Nat /\ exts[i].len > 0
        /\ exts[j].off \in Nat /\ exts[j].len \in Nat /\ exts[j].len > 0
    BY <1>4, <1>3, ExtentFields, Zenon DEF Sound
  <2> QED BY <2>1, <2>2 DEF Apart, adjacent, End
<1>6. \A i, j \in DOMAIN exts : i # j => i < j \/ j < i
  BY <1>2
<1> QED BY <1>1, <1>2, <1>4, <1>5, <1>6, Zenon

\* A sound extent has the fields of one.
LEMMA SoundFields ==
  ASSUME NEW x, Sound(x)
  PROVE  /\ x.off \in Nat /\ x.len \in Nat /\ x.boff \in Nat /\ End(x) \in Nat
         /\ x.blob \in Blob /\ x.blob.len \in Nat /\ x.len > 0
         /\ x.boff + x.len <= x.blob.len /\ End(x) = x.off + x.len
BY ExtentFields, Zenon DEF Sound, End

\* Pieces of two extents that are apart and not adjacent are the same.
LEMMA PiecesApart ==
  ASSUME NEW x, Sound(x), NEW y, Sound(y), NEW e, Sound(e),
         Apart(x, y), ~adjacent(x, y),
         NEW p \in Pieces(x, e), NEW q \in Pieces(y, e)
  PROVE  Apart(p, q) /\ ~adjacent(p, q)
<1>1. /\ Sound(p) /\ Apart(p, e) /\ x.off <= p.off /\ End(p) <= End(x)
      /\ p.blob = x.blob /\ p.boff = x.boff + (p.off - x.off)
      /\ p.off = x.off \/ p.off = End(e)
      /\ End(p) = End(x) \/ End(p) = e.off
  <2>1. PartOf(p, x, e)
    BY PieceParts, Zenon
  <2> QED BY <2>1, Zenon DEF PartOf
<1>2. /\ Sound(q) /\ Apart(q, e) /\ y.off <= q.off /\ End(q) <= End(y)
      /\ q.blob = y.blob /\ q.boff = y.boff + (q.off - y.off)
      /\ q.off = y.off \/ q.off = End(e)
      /\ End(q) = End(y) \/ End(q) = e.off
  <2>1. PartOf(q, y, e)
    BY PieceParts, Zenon
  <2> QED BY <2>1, Zenon DEF PartOf
<1>3. /\ x.off \in Nat /\ x.len \in Nat /\ x.boff \in Nat
      /\ y.off \in Nat /\ y.len \in Nat /\ y.boff \in Nat
      /\ e.off \in Nat /\ e.len \in Nat /\ e.len > 0
      /\ x.len > 0 /\ y.len > 0
  BY SoundFields, Zenon
<1>4. /\ p.off \in Nat /\ p.len \in Nat /\ p.boff \in Nat
      /\ q.off \in Nat /\ q.len \in Nat /\ q.boff \in Nat
      /\ p.len > 0 /\ q.len > 0
  BY <1>1, <1>2, SoundFields, Zenon
<1>5. Apart(p, q)
  BY <1>1, <1>2, <1>3, <1>4 DEF Apart, End
<1>6. ASSUME adjacent(p, q) PROVE FALSE
  <2>1. End(p) = q.off /\ p.blob = q.blob /\ p.boff + p.len = q.boff
    BY <1>6, Zenon DEF adjacent
  <2>2. End(p) = End(x) /\ q.off = y.off
    BY <2>1, <1>1, <1>2, <1>3, <1>4 DEF Apart, End
  <2>3. End(x) = y.off /\ x.blob = y.blob
    BY <2>1, <2>2, <1>1, <1>2, Zenon
  <2>4. x.boff + x.len = y.boff
    BY <2>1, <2>2, <1>1, <1>2, <1>3, <1>4 DEF End
  <2> QED BY <2>3, <2>4, Zenon DEF adjacent
<1> QED BY <1>5, <1>6

\* A piece and an extent that is all of its blob are apart and not adjacent,
\* neither way round; nor are two pieces of one extent.
LEMMA PieceAndWhole ==
  ASSUME NEW x, Sound(x), NEW e, Sound(e), e.boff = 0, e.len = e.blob.len,
         NEW p \in Pieces(x, e)
  PROVE  /\ Apart(p, e) /\ Apart(e, p)
         /\ ~adjacent(p, e) /\ ~adjacent(e, p) /\ ~adjacent(e, e)
         /\ \A q \in Pieces(x, e) : ~adjacent(p, q)
<1>1. /\ Sound(p) /\ Apart(p, e) /\ x.off <= p.off /\ End(p) <= End(x)
      /\ p.off = x.off \/ p.off = End(e)
      /\ End(p) = End(x) \/ End(p) = e.off
  <2>1. PartOf(p, x, e)
    BY PieceParts, Zenon
  <2> QED BY <2>1, Zenon DEF PartOf
<1>2. /\ p.off \in Nat /\ p.len \in Nat /\ p.boff \in Nat /\ p.len > 0
      /\ p.boff + p.len <= p.blob.len /\ p.blob.len \in Nat
      /\ e.off \in Nat /\ e.len \in Nat /\ e.len > 0
      /\ x.off \in Nat /\ x.len \in Nat
  BY <1>1, SoundFields, Zenon
<1>3. ~adjacent(p, e) /\ ~adjacent(e, e)
  BY <1>2 DEF adjacent, End
<1>4. ~adjacent(e, p)
  BY <1>2 DEF adjacent, End
<1>5. ASSUME NEW q \in Pieces(x, e), adjacent(p, q) PROVE FALSE
  <2>1. /\ Sound(q) /\ Apart(q, e) /\ x.off <= q.off /\ End(q) <= End(x)
        /\ q.off = x.off \/ q.off = End(e)
    <3>1. PartOf(q, x, e)
      BY PieceParts, Zenon
    <3> QED BY <3>1, Zenon DEF PartOf
  <2>2. q.off \in Nat /\ q.len \in Nat /\ q.len > 0
    BY <2>1, SoundFields, Zenon
  <2>3. End(p) = q.off
    BY <1>5, Zenon DEF adjacent
  <2> QED BY <2>1, <2>2, <2>3, <1>1, <1>2 DEF Apart, End
<1>6. Apart(e, p)
  BY <1>1, Zenon DEF Apart
<1> QED BY <1>1, <1>3, <1>4, <1>5, <1>6, Zenon

\* A part of an extent has the bytes the extent has there.
LEMMA PartBytes ==
  ASSUME NEW x, Sound(x), NEW e, Sound(e), NEW p, PartOf(p, x, e),
         NEW k \in Nat, Covers(p, k)
  PROVE  Covers(x, k) /\ ~Covers(e, k) /\ ByteAt(p, k) = ByteAt(x, k)
<1>1. /\ Sound(p) /\ Apart(p, e) /\ x.off <= p.off /\ End(p) <= End(x)
      /\ p.blob = x.blob /\ p.boff = x.boff + (p.off - x.off)
  BY Zenon DEF PartOf
<1>2. /\ p.off \in Nat /\ p.len \in Nat /\ p.boff \in Nat
      /\ x.off \in Nat /\ x.len \in Nat /\ x.boff \in Nat
      /\ e.off \in Nat /\ e.len \in Nat
  BY <1>1, SoundFields, Zenon
<1>3. Covers(x, k) /\ ~Covers(e, k)
  BY <1>1, <1>2 DEF Covers, Apart, End
<1>4. p.boff + (k - p.off) = x.boff + (k - x.off)
  BY <1>1, <1>2
<1> QED BY <1>1, <1>3, <1>4, Zenon DEF ByteAt

\* insertExtent: the list stays tidy, shows the new extent where that is and
\* what it showed elsewhere.  coalesce has nothing to merge: a write is all of
\* its blob, so neither a piece before it nor one after it continues it.
LEMMA Inserted ==
  ASSUME NEW exts, Tidy(exts),
         NEW e, Sound(e), e.boff = 0, e.len = e.blob.len
  PROVE  /\ Tidy(insertExtent(exts, e))
         /\ \A k \in Nat : \A b :
              Shows(insertExtent(exts, e), k, b) <=>
                IF Covers(e, k) THEN b = ByteAt(e, k) ELSE Shows(exts, k, b)
<1> DEFINE P(i) == Pieces(exts[i], e)
           S == {e} \cup UNION {P(i) : i \in DOMAIN exts}
           r == Sorted(S)
<1>1. /\ exts \in Seq(Extent) /\ DOMAIN exts = 1 .. Len(exts)
      /\ Len(exts) \in Nat
      /\ \A i \in DOMAIN exts : Sound(exts[i])
      /\ \A i, j \in DOMAIN exts :
           i # j => Apart(exts[i], exts[j]) /\ ~adjacent(exts[i], exts[j])
  BY TidyParts, Zenon
<1>2. \A x \in S : x = e \/ \E i \in DOMAIN exts : x \in Pieces(exts[i], e)
  <2>1. \A x \in S : x = e \/ \E i \in DOMAIN exts : x \in P(i)
    <3> HIDE DEF P
    <3> QED OBVIOUS
  <2> HIDE DEF S
  <2> QED BY <2>1, Zenon
<1>3. e \in S /\ \A i \in DOMAIN exts : \A x \in Pieces(exts[i], e) : x \in S
  <2>1. e \in S /\ \A i \in DOMAIN exts : \A x \in P(i) : x \in S
    <3> HIDE DEF P
    <3> QED OBVIOUS
  <2> HIDE DEF S
  <2> QED BY <2>1, Zenon
<1>4. IsFiniteSet(S)
  <2> DEFINE U == {P(i) : i \in DOMAIN exts}
             f == [i \in DOMAIN exts |-> P(i)]
  <2>1. \A i \in DOMAIN exts : IsFiniteSet(P(i))
    BY <1>1, PieceCover, Zenon
  <2> HIDE DEF P
  <2>2. IsFiniteSet(DOMAIN exts)
    BY <1>1, FS_Interval
  <2>3. IsFiniteSet(U)
    <3>1. f \in Surjection(DOMAIN exts, U)
      BY DEF Surjection
    <3> QED BY <3>1, <2>2, FS_Surjection, Zenon
  <2>4. \A T \in U : IsFiniteSet(T)
    BY <2>1, Zenon
  <2> HIDE DEF U
  <2>5. IsFiniteSet(UNION U)
    BY <2>3, <2>4, FS_UNION, Zenon
  <2>6. IsFiniteSet((UNION U) \cup {e})
    BY <2>5, FS_AddElement, Zenon
  <2>7. S = (UNION U) \cup {e}
    BY DEF U
  <2> QED BY <2>6, <2>7, Zenon
<1> HIDE DEF S
<1>5. \A x \in S : Sound(x)
  BY <1>1, <1>2, PieceParts, Zenon DEF PartOf
<1>6. ASSUME NEW x \in S, NEW y \in S
      PROVE  (x = y \/ Apart(x, y)) /\ ~adjacent(x, y)
  <2>1. CASE x = e /\ y = e
    <3>1. ~adjacent(e, e)
      BY SoundFields DEF adjacent
    <3> QED BY <3>1, <2>1, Zenon
  <2>2. CASE x = e /\ y # e
    <3>1. PICK j \in DOMAIN exts : y \in Pieces(exts[j], e)
      BY <2>2, <1>2, Zenon
    <3>2. Sound(exts[j])
      BY <1>1, Zenon
    <3>3. Apart(e, y) /\ ~adjacent(e, y)
      BY <3>1, <3>2, PieceAndWhole, Zenon
    <3> QED BY <3>3, <2>2, Zenon
  <2>3. CASE x # e /\ y = e
    <3>1. PICK i \in DOMAIN exts : x \in Pieces(exts[i], e)
      BY <2>3, <1>2, Zenon
    <3>2. Sound(exts[i])
      BY <1>1, Zenon
    <3>3. Apart(x, e) /\ ~adjacent(x, e)
      BY <3>1, <3>2, PieceAndWhole, Zenon
    <3> QED BY <3>3, <2>3, Zenon
  <2>4. CASE x # e /\ y # e
    <3>1. PICK i \in DOMAIN exts : x \in Pieces(exts[i], e)
      BY <2>4, <1>2, Zenon
    <3>2. PICK j \in DOMAIN exts : y \in Pieces(exts[j], e)
      BY <2>4, <1>2, Zenon
    <3>3. Sound(exts[i]) /\ Sound(exts[j])
      BY <1>1, Zenon
    <3>4. CASE i = j
      <4>1. y \in Pieces(exts[i], e)
        BY <3>2, <3>4, Zenon
      <4>2. x = y \/ Apart(x, y)
        BY <3>1, <3>3, <4>1, PieceCover, Zenon
      <4>3. ~adjacent(x, y)
        BY <3>1, <3>3, <4>1, PieceAndWhole, Zenon
      <4> QED BY <4>2, <4>3
    <3>5. CASE i # j
      <4>1. Apart(exts[i], exts[j]) /\ ~adjacent(exts[i], exts[j])
        BY <3>5, <1>1, Zenon
      <4> QED BY <4>1, <3>1, <3>2, <3>3, PiecesApart, Zenon
    <3> QED BY <3>4, <3>5
  <2> QED BY <2>1, <2>2, <2>3, <2>4, Zenon
<1>7. \A x, y \in S : x.off = y.off => x = y
  <2>1. ASSUME NEW x \in S, NEW y \in S, x.off = y.off, Apart(x, y) PROVE FALSE
    <3>1. /\ x.off \in Nat /\ x.len \in Nat /\ x.len > 0
          /\ y.off \in Nat /\ y.len \in Nat /\ y.len > 0
      BY <1>5, SoundFields, Zenon
    <3> QED BY <3>1, <2>1 DEF Apart, End
  <2> QED BY <2>1, <1>6, Zenon
<1>8. /\ r \in Seq(S)
      /\ \A i, j \in 1 .. Len(r) : i < j => r[i].off < r[j].off
      /\ \A x \in S : \E i \in 1 .. Len(r) : r[i] = x
  <2>1. S \subseteq Extent
    BY <1>5, Zenon DEF Sound
  <2> QED BY <2>1, <1>4, <1>7, SortedList, Zenon
<1> HIDE DEF r
<1>9. /\ DOMAIN r = 1 .. Len(r) /\ Len(r) \in Nat
      /\ \A i \in 1 .. Len(r) : r[i] \in S
  BY <1>8
<1>10. insertExtent(exts, e) = r
  <2>1. insertExtent(exts, e) = coalesce(r)
    BY Zenon DEF insertExtent, r, S, P
  <2>2. \A i \in 1 .. Len(r) - 1 : i \in 1 .. Len(r) /\ i + 1 \in 1 .. Len(r)
    BY <1>9
  <2>3. \A i \in 1 .. Len(r) - 1 : ~adjacent(r[i], r[i + 1])
    BY <2>2, <1>6, <1>9, Zenon
  <2> QED BY <2>1, <2>3, <1>8, Unmerged, Zenon
<1>11. Tidy(r)
  <2>1. r \in Seq(Extent)
    <3>1. S \subseteq Extent
      BY <1>5, Zenon DEF Sound
    <3> QED BY <3>1, <1>8
  <2>2. \A i \in DOMAIN r : r[i].len > 0 /\ r[i].boff + r[i].len <= r[i].blob.len
    BY <1>9, <1>5, SoundFields, Zenon
  <2>3. ASSUME NEW i \in DOMAIN r, NEW j \in DOMAIN r, i < j
        PROVE  End(r[i]) <= r[j].off /\ ~adjacent(r[i], r[j])
    <3>1. r[i] \in S /\ r[j] \in S /\ r[i].off < r[j].off
      BY <2>3, <1>8, <1>9, Zenon
    <3>2. /\ r[i].off \in Nat /\ r[i].len \in Nat /\ r[i].len > 0
          /\ r[j].off \in Nat /\ r[j].len \in Nat /\ r[j].len > 0
      BY <3>1, <1>5, SoundFields, Zenon
    <3>3. r[i] = r[j] \/ Apart(r[i], r[j])
      BY <3>1, <1>6, Zenon
    <3>4. r[i] # r[j]
      BY <3>1, <3>2
    <3>5. End(r[i]) <= r[j].off
      BY <3>1, <3>2, <3>3, <3>4 DEF Apart, End
    <3> QED BY <3>1, <3>5, <1>6, Zenon
  <2> QED BY <2>1, <2>2, <2>3, Zenon DEF Tidy
<1>12. ASSUME NEW k \in Nat, NEW b
       PROVE  Shows(r, k, b) <=>
                IF Covers(e, k) THEN b = ByteAt(e, k) ELSE Shows(exts, k, b)
  <2>1. ASSUME Shows(r, k, b)
        PROVE  IF Covers(e, k) THEN b = ByteAt(e, k) ELSE Shows(exts, k, b)
    <3>1. PICK i \in DOMAIN r : Covers(r[i], k) /\ b = ByteAt(r[i], k)
      BY <2>1, Zenon DEF Shows
    <3>2. r[i] \in S
      BY <1>9, Zenon
    <3>3. CASE r[i] = e
      BY <3>1, <3>3, Zenon
    <3>4. CASE r[i] # e
      <4>1. PICK j \in DOMAIN exts : r[i] \in Pieces(exts[j], e)
        BY <3>2, <3>4, <1>2, Zenon
      <4>2. Sound(exts[j]) /\ PartOf(r[i], exts[j], e)
        BY <4>1, <1>1, PieceParts, Zenon
      <4>3. /\ Covers(exts[j], k) /\ ~Covers(e, k)
            /\ ByteAt(r[i], k) = ByteAt(exts[j], k)
        BY <4>2, <3>1, PartBytes, ZenonT(30)
      <4> QED BY <4>3, <3>1, Zenon DEF Shows
    <3> QED BY <3>3, <3>4
  <2>2. ASSUME Covers(e, k), b = ByteAt(e, k)
        PROVE  Shows(r, k, b)
    <3>1. PICK i \in 1 .. Len(r) : r[i] = e
      BY <1>3, <1>8, Zenon
    <3> QED BY <3>1, <2>2, <1>9, Zenon DEF Shows
  <2>3. ASSUME ~Covers(e, k), Shows(exts, k, b)
        PROVE  Shows(r, k, b)
    <3>1. PICK j \in DOMAIN exts : Covers(exts[j], k) /\ b = ByteAt(exts[j], k)
      BY <2>3, Zenon DEF Shows
    <3>2. Sound(exts[j])
      BY <1>1, Zenon
    <3>3. PICK p \in Pieces(exts[j], e) : Covers(p, k)
      BY <2>3, <3>1, <3>2, PieceCover, Zenon
    <3>4. ByteAt(p, k) = ByteAt(exts[j], k)
      <4>1. PartOf(p, exts[j], e)
        BY <3>2, <3>3, PieceParts, Zenon
      <4> QED BY <3>2, <3>3, <4>1, PartBytes, Zenon
    <3>5. PICK i \in 1 .. Len(r) : r[i] = p
      BY <3>3, <1>3, <1>8, Zenon
    <3> QED BY <3>1, <3>3, <3>4, <3>5, <1>9, Zenon DEF Shows
  <2> QED BY <2>1, <2>2, <2>3, Zenon
<1> QED BY <1>10, <1>11, <1>12, Zenon

\* clipExtents: the list stays tidy and shows what it showed before the end.
LEMMA Cut ==
  ASSUME NEW exts, Tidy(exts), NEW end \in Nat
  PROVE  /\ Tidy(clipExtents(exts, end))
         /\ \A k \in Nat : \A b :
              Shows(clipExtents(exts, end), k, b) <=> k < end /\ Shows(exts, k, b)
<1>1. /\ exts \in Seq(Extent) /\ DOMAIN exts = 1 .. Len(exts)
      /\ Len(exts) \in Nat
      /\ \A i \in DOMAIN exts : Sound(exts[i])
      /\ \A i, j \in DOMAIN exts : i < j => exts[i].off < exts[j].off
  BY TidyParts, Zenon
<1>2. PICK n \in 0 .. Len(exts) :
        \A j \in 1 .. Len(exts) : exts[j].off < end <=> j <= n
  BY <1>1, Prefix, Zenon
<1> DEFINE c(j) == Clipped(exts[j], end)
           r == [j \in 1 .. n |-> c(j)]
<1>3. clipExtents(exts, end) = r
  BY <1>1, <1>2, ClippedPrefix, Zenon
<1>4. ASSUME NEW j \in 1 .. n
      PROVE  /\ j \in DOMAIN exts /\ Sound(c(j)) /\ c(j).off = exts[j].off
             /\ c(j).blob = exts[j].blob /\ c(j).boff = exts[j].boff
             /\ End(c(j)) = IF End(exts[j]) > end THEN end ELSE End(exts[j])
  <2>1. j \in 1 .. Len(exts) /\ j <= n
    BY SMTT(30), <1>1, <1>2
  <2>2. Sound(exts[j]) /\ exts[j].off < end
    BY <2>1, <1>1, <1>2, Zenon
  <2> DEFINE x == exts[j]
  <2>3. /\ x.off \in Nat /\ x.len \in Nat /\ x.boff \in Nat /\ x.len > 0
        /\ x.blob \in Blob /\ x.blob.len \in Nat /\ x \in Extent
        /\ x.boff + x.len <= x.blob.len /\ End(x) = x.off + x.len
    BY <2>2, SoundFields, Zenon DEF Sound
  <2>4. CASE End(x) > end
    <3> DEFINE y == [x EXCEPT !.len = end - x.off]
    <3>1. c(j) = y
      BY <2>4, Zenon DEF Clipped
    <3> HIDE DEF x
    <3>2. /\ y.off = x.off /\ y.len = end - x.off /\ y.blob = x.blob
          /\ y.boff = x.boff
      BY <2>3 DEF Extent
    <3>3. y \in Extent
      BY SMTT(30), <2>2, <2>3 DEF Extent, x
    <3> HIDE DEF y, c
    <3>a. x.off < end
      BY <2>2, Zenon DEF x
    <3>b. y.len > 0 /\ y.boff + y.len <= x.blob.len /\ y.off + y.len = end
      <4>1. \A a, l, b, m \in Nat : a < end /\ a + l > end /\ b + l <= m =>
              end - a > 0 /\ b + (end - a) <= m /\ a + (end - a) = end
        OBVIOUS
      <4>2. x.off + x.len > end
        BY <2>3, <2>4, Zenon
      <4>3. /\ end - x.off > 0 /\ x.boff + (end - x.off) <= x.blob.len
            /\ x.off + (end - x.off) = end
        BY <3>a, <2>3, <4>1, <4>2, Zenon
      <4> QED BY <3>2, <4>3, Zenon
    <3>4. Sound(y) /\ End(y) = end
      BY <3>2, <3>3, <3>b, Zenon DEF Sound, End
    <3> QED BY <3>1, <3>2, <3>4, <2>1, <2>4, <1>1, Zenon DEF x
  <2>5. CASE ~(End(x) > end)
    <3>1. c(j) = x
      BY <2>5, Zenon DEF Clipped
    <3> QED BY <3>1, <2>1, <2>2, <2>5, <1>1, Zenon
  <2> QED BY <2>4, <2>5
<1> HIDE DEF c
<1>5. r \in Seq(Extent) /\ DOMAIN r = 1 .. n /\ \A j \in 1 .. n : r[j] = c(j)
  <2>1. \A j \in 1 .. n : c(j) \in Extent
    BY <1>4, Zenon DEF Sound
  <2> QED BY <2>1, <1>2
<1> HIDE DEF r
<1>6. Tidy(r)
  <2>1. \A j \in DOMAIN r : r[j].len > 0 /\ r[j].boff + r[j].len <= r[j].blob.len
    BY <1>4, <1>5, SoundFields, Zenon
  <2>2. ASSUME NEW i \in DOMAIN r, NEW j \in DOMAIN r, i < j
        PROVE  End(r[i]) <= r[j].off /\ ~adjacent(r[i], r[j])
    <3>1. i \in 1 .. n /\ j \in 1 .. n /\ r[i] = c(i) /\ r[j] = c(j)
      BY <1>5, Zenon
    <3>2. /\ Sound(c(i)) /\ c(i).blob = exts[i].blob /\ c(i).boff = exts[i].boff
          /\ c(i).off = exts[i].off /\ i \in DOMAIN exts
          /\ End(c(i)) = IF End(exts[i]) > end THEN end ELSE End(exts[i])
      BY <3>1, <1>4, Zenon
    <3>3. /\ Sound(c(j)) /\ c(j).blob = exts[j].blob /\ c(j).boff = exts[j].boff
          /\ c(j).off = exts[j].off /\ j \in DOMAIN exts
      BY <3>1, <1>4, Zenon
    <3>4. End(exts[i]) <= exts[j].off /\ ~adjacent(exts[i], exts[j])
      BY <2>2, <3>2, <3>3, Zenon DEF Tidy
    <3>5. /\ exts[i].off \in Nat /\ exts[i].len \in Nat /\ exts[j].off \in Nat
          /\ exts[i].boff \in Nat /\ End(exts[i]) = exts[i].off + exts[i].len
          /\ c(i).len \in Nat /\ End(c(i)) = c(i).off + c(i).len
      BY <3>2, <3>3, <1>1, SoundFields, Zenon
    <3>6. End(c(i)) <= c(j).off
      BY SMTT(30), <3>2, <3>3, <3>4, <3>5
    <3>7. ~adjacent(c(i), c(j))
      <4> SUFFICES ASSUME End(c(i)) = c(j).off
                   PROVE  c(i).len = exts[i].len /\ End(c(i)) = End(exts[i])
        BY <3>2, <3>3, <3>4, Zenon DEF adjacent
      <4>1. \A x, y \in Nat : x <= y /\ (IF x > end THEN end ELSE x) = y => x = y
        OBVIOUS
      <4>2. End(exts[i]) \in Nat
        BY SMTT(30), <3>5
      <4>3. End(c(i)) = End(exts[i])
        BY <3>2, <3>3, <3>4, <3>5, <4>1, <4>2, Zenon
      <4>4. c(i).off + c(i).len = c(i).off + exts[i].len
        BY <3>2, <3>5, <4>3, Zenon
      <4>5. \A x, y, z \in Nat : z + x = z + y => x = y
        OBVIOUS
      <4> QED BY <3>2, <3>5, <4>3, <4>4, <4>5, Zenon
    <3> QED BY <3>1, <3>6, <3>7, Zenon
  <2> QED BY <1>5, <2>1, <2>2, Zenon DEF Tidy
<1>7. ASSUME NEW k \in Nat, NEW j \in 1 .. n
      PROVE  /\ Covers(c(j), k) <=> k < end /\ Covers(exts[j], k)
             /\ ByteAt(c(j), k) = ByteAt(exts[j], k)
  <2>1. /\ c(j).off = exts[j].off /\ Sound(exts[j])
        /\ c(j).blob = exts[j].blob /\ c(j).boff = exts[j].boff
        /\ End(c(j)) = IF End(exts[j]) > end THEN end ELSE End(exts[j])
    BY <1>1, <1>4, Zenon
  <2>2. exts[j].off \in Nat /\ End(exts[j]) \in Nat
    BY <2>1, SoundFields, Zenon
  <2>3. ByteAt(c(j), k) = ByteAt(exts[j], k)
    BY <2>1, Zenon DEF ByteAt
  <2> QED BY <2>1, <2>2, <2>3 DEF Covers
<1>8. ASSUME NEW k \in Nat, NEW b
      PROVE  Shows(r, k, b) <=> k < end /\ Shows(exts, k, b)
  <2>1. ASSUME Shows(r, k, b) PROVE k < end /\ Shows(exts, k, b)
    <3>1. PICK j \in DOMAIN r : Covers(r[j], k) /\ b = ByteAt(r[j], k)
      BY <2>1, Zenon DEF Shows
    <3>2. j \in 1 .. n /\ j \in DOMAIN exts /\ r[j] = c(j)
      BY <1>4, <1>5, Zenon
    <3> QED BY <3>1, <3>2, <1>7, Zenon DEF Shows
  <2>2. ASSUME k < end, Shows(exts, k, b) PROVE Shows(r, k, b)
    <3>1. PICK j \in DOMAIN exts : Covers(exts[j], k) /\ b = ByteAt(exts[j], k)
      BY <2>2, Zenon DEF Shows
    <3>2. exts[j].off < end
      <4>1. exts[j].off \in Nat
        BY <1>1, SoundFields, Zenon
      <4> QED BY <4>1, <3>1, <2>2 DEF Covers
    <3>3. j \in 1 .. n
      BY <3>2, <1>1, <1>2
    <3> QED BY <3>1, <3>3, <2>2, <1>5, <1>7, Zenon DEF Shows
  <2> QED BY <2>1, <2>2
<1> QED BY <1>3, <1>6, <1>8, Zenon

\* How far a tidy list reaches.
LEMMA Reaches ==
  ASSUME NEW exts, Tidy(exts), NEW n \in Nat
  PROVE  (\A i \in DOMAIN exts : End(exts[i]) <= n) <=>
           \A k \in Nat : \A b : Shows(exts, k, b) => k < n
<1>1. \A i \in DOMAIN exts : Sound(exts[i])
  BY TidyParts, Zenon
<1>2. ASSUME \A i \in DOMAIN exts : End(exts[i]) <= n,
             NEW k \in Nat, NEW b, Shows(exts, k, b)
      PROVE  k < n
  <2>1. PICK i \in DOMAIN exts : Covers(exts[i], k)
    BY <1>2, Zenon DEF Shows
  <2>2. End(exts[i]) \in Nat /\ End(exts[i]) <= n
    BY <1>1, <1>2, SoundFields, Zenon
  <2> QED BY <2>1, <2>2 DEF Covers
<1>3. ASSUME \A k \in Nat : \A b : Shows(exts, k, b) => k < n,
             NEW i \in DOMAIN exts
      PROVE  End(exts[i]) <= n
  <2>1. /\ exts[i].off \in Nat /\ exts[i].len \in Nat /\ exts[i].len > 0
        /\ End(exts[i]) = exts[i].off + exts[i].len
    BY <1>1, SoundFields, Zenon
  <2> DEFINE k == End(exts[i]) - 1
  <2>2. k \in Nat /\ Covers(exts[i], k)
    BY <2>1 DEF Covers
  <2>3. k < n
    <3> HIDE DEF k
    <3>1. Shows(exts, k, ByteAt(exts[i], k))
      BY <2>2, Zenon DEF Shows
    <3> QED BY <3>1, <2>2, <1>3, Zenon
  <2> QED BY <2>1, <2>3
<1> QED BY <1>2, <1>3, Zenon
----------------------------------------------------------------------------
(* Writing and truncating: the list stays right for the content *)

\* Holds, in terms of what the list shows.
LEMMA HoldsShown ==
  ASSUME NEW exts, NEW below, NEW k \in Nat, NEW b
  PROVE  Holds(exts, below, k, b) <=>
           /\ \A c : Shows(exts, k, c) => b = c
           /\ \/ \E c : Shows(exts, k, c)
              \/ b = Zero
              \/ below /\ k < LowerSize /\ b = LowerByte(k)
<1>1. (\E c : Shows(exts, k, c)) <=> \E i \in DOMAIN exts : Covers(exts[i], k)
  BY Zenon DEF Shows
<1>2. (\A c : Shows(exts, k, c) => b = c) <=>
        \A i \in DOMAIN exts : Covers(exts[i], k) => b = ByteAt(exts[i], k)
  BY Zenon DEF Shows
<1> QED BY <1>1, <1>2, Zenon DEF Holds

\* The bytes of the padded content.
LEMMA PaddedBytes ==
  ASSUME NEW w \in Seq(Byte), NEW n \in Nat
  PROVE  /\ Padded(w, n) \in Seq(Byte)
         /\ Len(Padded(w, n)) = IF n > Len(w) THEN n ELSE Len(w)
         /\ \A i \in 1 .. Len(Padded(w, n)) :
              Padded(w, n)[i] = IF i <= Len(w) THEN w[i] ELSE Zero
<1> DEFINE m == n - Len(w)
           z == [i \in 1 .. m |-> Zero]
<1>0. Zero \in Byte
  BY DEF Byte
<1>1. Len(w) \in Nat /\ m \in Int
  OBVIOUS
<1>2. /\ z \in Seq(Byte) /\ Len(z) = (IF m > 0 THEN m ELSE 0)
      /\ \A i \in 1 .. m : z[i] = Zero
  <2> HIDE DEF m
  <2>1. CASE m > 0
    BY <1>0, <1>1, <2>1
  <2>2. CASE ~(m > 0)
    <3>1. 1 .. m = {}
      BY <1>1, <2>2
    <3>2. z = <<>>
      BY <3>1
    <3> HIDE DEF z
    <3> QED BY <3>1, <3>2, <2>2
  <2> QED BY Zenon, <2>1, <2>2
<1> HIDE DEF z
<1>3. Padded(w, n) = w \o z
  BY Zenon DEF Padded, z
<1>4. w \o z \in Seq(Byte) /\ Len(w \o z) = Len(w) + Len(z)
  BY <1>2
<1>5. \A i \in 1 .. Len(w) + Len(z) :
        (w \o z)[i] = IF i <= Len(w) THEN w[i] ELSE z[i - Len(w)]
  BY <1>2
<1>6. ASSUME NEW i \in 1 .. Len(w) + Len(z)
      PROVE  (w \o z)[i] = IF i <= Len(w) THEN w[i] ELSE Zero
  <2>1. CASE i <= Len(w)
    BY <2>1, <1>5, Zenon
  <2>2. CASE ~(i <= Len(w))
    <3>1. i - Len(w) \in 1 .. m
      BY <2>2, <1>1, <1>2
    <3> QED BY <3>1, <2>2, <1>5, <1>2, Zenon
  <2> QED BY <2>1, <2>2
<1>7. Len(w) + Len(z) = IF n > Len(w) THEN n ELSE Len(w)
  BY <1>1, <1>2
<1> QED BY <1>3, <1>4, <1>6, <1>7, Zenon

\* The bytes of the content after a write.
LEMMA WrittenBytes ==
  ASSUME NEW w \in Seq(Byte), NEW off \in Nat, NEW b \in Blob
  PROVE  LET end == off + b.len
             r == RefWrite(w, off, b)
         IN /\ r \in Seq(Byte)
            /\ Len(r) = IF end > Len(w) THEN end ELSE Len(w)
            /\ \A i \in 1 .. Len(r) :
                 r[i] = IF off <= i - 1 /\ i - 1 < end
                        THEN BlobByte(b, i - 1 - off)
                        ELSE IF i <= Len(w) THEN w[i] ELSE Zero
<1> DEFINE end == off + b.len
           p == Padded(w, end)
           r == RefWrite(w, off, b)
<1>1. b.len \in 1 .. MaxWrite /\ MaxWrite \in Nat
  BY FileAssumption DEF Blob
<1>2. end \in Nat
  BY <1>1
<1> HIDE DEF end
<1>3. /\ p \in Seq(Byte) /\ Len(p) = (IF end > Len(w) THEN end ELSE Len(w))
      /\ \A i \in 1 .. Len(p) : p[i] = IF i <= Len(w) THEN w[i] ELSE Zero
  BY <1>2, PaddedBytes, Zenon
<1>4. r = [i \in DOMAIN p |-> IF i - 1 \in off .. off + b.len - 1
                              THEN BlobByte(b, i - 1 - off) ELSE p[i]]
  BY Zenon DEF RefWrite, end
<1> HIDE DEF p, r
<1>5. DOMAIN p = 1 .. Len(p) /\ Len(p) \in Nat /\ \A i \in 1 .. Len(p) : p[i] \in Byte
  BY <1>3
<1>6. \A i \in 1 .. Len(p) :
        i - 1 \in off .. off + b.len - 1 <=> off <= i - 1 /\ i - 1 < end
  BY <1>1, <1>2, <1>5 DEF end
<1>7. ASSUME NEW i \in 1 .. Len(p), i - 1 \in off .. off + b.len - 1
      PROVE  BlobByte(b, i - 1 - off) \in Byte
  <2>1. i - 1 - off \in 0 .. MaxWrite - 1
    BY <1>1, <1>5, <1>7 DEF end
  <2> QED BY <2>1 DEF Byte
<1> DEFINE v(i) == IF i - 1 \in off .. off + b.len - 1
                   THEN BlobByte(b, i - 1 - off) ELSE p[i]
<1>8. \A i \in 1 .. Len(p) : v(i) \in Byte
  BY <1>5, <1>7, Zenon
<1>9. r = [i \in 1 .. Len(p) |-> v(i)]
  BY <1>4, <1>5, Zenon
<1> HIDE DEF v
<1>10. r \in Seq(Byte) /\ Len(r) = Len(p) /\ \A i \in 1 .. Len(p) : r[i] = v(i)
  BY <1>5, <1>8, <1>9
<1>11. \A i \in 1 .. Len(p) :
         v(i) = IF off <= i - 1 /\ i - 1 < end THEN BlobByte(b, i - 1 - off)
                ELSE IF i <= Len(w) THEN w[i] ELSE Zero
  BY <1>3, <1>6, Zenon DEF v
<1> QED BY <1>3, <1>10, <1>11, Zenon DEF r, end

\* The bytes of the content after a truncation.
LEMMA TruncatedBytes ==
  ASSUME NEW w \in Seq(Byte), NEW n \in Nat
  PROVE  /\ RefTruncate(w, n) \in Seq(Byte) /\ Len(RefTruncate(w, n)) = n
         /\ \A i \in 1 .. n :
              RefTruncate(w, n)[i] = IF i <= Len(w) THEN w[i] ELSE Zero
<1> DEFINE p == Padded(w, n)
<1>1. /\ p \in Seq(Byte) /\ Len(p) = (IF n > Len(w) THEN n ELSE Len(w))
      /\ \A i \in 1 .. Len(p) : p[i] = IF i <= Len(w) THEN w[i] ELSE Zero
  BY PaddedBytes, Zenon
<1> HIDE DEF p
<1>2. n <= Len(p) /\ Len(p) \in Nat
  BY <1>1
<1>3. /\ SubSeq(p, 1, n) \in Seq(Byte) /\ Len(SubSeq(p, 1, n)) = n
      /\ \A i \in 1 .. n : SubSeq(p, 1, n)[i] = p[i]
  BY <1>1, <1>2
<1>4. \A i \in 1 .. n : i \in 1 .. Len(p)
  BY <1>2
<1> QED BY <1>1, <1>3, <1>4, Zenon DEF RefTruncate, p

\* A byte that the extents show is right, and one that was right still is when
\* they show what they did.
LEMMA HoldsThe ==
  ASSUME NEW exts, NEW below, NEW k \in Nat, NEW b,
         \A c : Shows(exts, k, c) <=> c = b
  PROVE  Holds(exts, below, k, b)
<1>1. (\A c : Shows(exts, k, c) => b = c) /\ \E c : Shows(exts, k, c)
  BY Zenon
<1> QED BY <1>1, HoldsShown, Zenon

LEMMA HoldsStill ==
  ASSUME NEW old, NEW exts, NEW below, NEW k \in Nat, NEW b,
         \A c : Shows(exts, k, c) <=> Shows(old, k, c), Holds(old, below, k, b)
  PROVE  Holds(exts, below, k, b)
<1>1. /\ \A c : Shows(old, k, c) => b = c
      /\ \/ \E c : Shows(old, k, c)
         \/ b = Zero
         \/ below /\ k < LowerSize /\ b = LowerByte(k)
  BY HoldsShown, Zenon
<1>2. /\ \A c : Shows(exts, k, c) => b = c
      /\ \/ \E c : Shows(exts, k, c)
         \/ b = Zero
         \/ below /\ k < LowerSize /\ b = LowerByte(k)
  BY <1>1, Zenon
<1> QED BY <1>2, HoldsShown, Zenon

\* What Right says, offset by offset.
LEMMA RightShown ==
  ASSUME NEW exts, NEW below, NEW w, Right(exts, below, w)
  PROVE  /\ Tidy(exts) /\ w \in Seq(Byte) /\ Len(w) \in Nat
         /\ \A k \in Nat : \A c : Shows(exts, k, c) => k < Len(w)
         /\ \A i \in 1 .. Len(w) : Holds(exts, below, i - 1, w[i])
<1>1. Tidy(exts) /\ w \in Seq(Byte)
  BY Zenon DEF Right
<1>2. Len(w) \in Nat /\ DOMAIN w = 1 .. Len(w)
  BY <1>1
<1>3. \A i \in DOMAIN exts : End(exts[i]) <= Len(w)
  BY Zenon DEF Right
<1>4. \A k \in Nat : \A c : Shows(exts, k, c) => k < Len(w)
  BY <1>1, <1>2, <1>3, Reaches, Zenon
<1> QED BY <1>1, <1>2, <1>4, Zenon DEF Right

\* And back.
LEMMA ShownRight ==
  ASSUME NEW exts, NEW below, NEW w, Tidy(exts), w \in Seq(Byte),
         \A k \in Nat : \A c : Shows(exts, k, c) => k < Len(w),
         \A i \in 1 .. Len(w) : Holds(exts, below, i - 1, w[i])
  PROVE  Right(exts, below, w)
<1>1. Len(w) \in Nat /\ DOMAIN w = 1 .. Len(w)
  OBVIOUS
<1>2. \A i \in DOMAIN exts : End(exts[i]) <= Len(w)
  BY <1>1, Reaches, Zenon
<1> QED BY <1>1, <1>2, Zenon DEF Right

\* The extents that a write to a file of some size leaves.
Written(exts, off, b, size) ==
  LET ins == insertExtent(exts, Whole(off, b))
  IN IF off + b.len >= size THEN clipExtents(ins, off + b.len) ELSE ins

\* A write that inserts its extent, and cuts the list when it ends the file,
\* leaves the file an ordinary one would be.
LEMMA WrittenRight ==
  ASSUME NEW exts, NEW below, NEW w, Right(exts, below, w),
         NEW off \in Nat, NEW b \in Blob
  PROVE  /\ Right(Written(exts, off, b, Len(w)), below, RefWrite(w, off, b))
         /\ Len(RefWrite(w, off, b)) =
              IF off + b.len >= Len(w) THEN off + b.len ELSE Len(w)
<1> DEFINE end == off + b.len
           e == Whole(off, b)
           ins == insertExtent(exts, e)
           r == IF end >= Len(w) THEN clipExtents(ins, end) ELSE ins
           v == RefWrite(w, off, b)
<1>1. b.len \in 1 .. MaxWrite /\ MaxWrite \in Nat
  BY FileAssumption DEF Blob
<1>2. end \in Nat
  BY <1>1
<1>3. /\ Tidy(exts) /\ w \in Seq(Byte) /\ Len(w) \in Nat
      /\ \A k \in Nat : \A c : Shows(exts, k, c) => k < Len(w)
      /\ \A i \in 1 .. Len(w) : Holds(exts, below, i - 1, w[i])
  BY RightShown, Zenon
<1>4. /\ e.off = off /\ e.len = b.len /\ e.blob = b /\ e.boff = 0
      /\ End(e) = end
  BY Zenon DEF Whole, End
<1>5. Sound(e)
  <2>1. e \in Extent
    BY <1>1 DEF Whole, Extent
  <2> HIDE DEF e
  <2> QED BY <2>1, <1>1, <1>4 DEF Sound
<1>6. /\ v \in Seq(Byte) /\ Len(v) = (IF end > Len(w) THEN end ELSE Len(w))
      /\ \A i \in 1 .. Len(v) :
           v[i] = IF off <= i - 1 /\ i - 1 < end THEN BlobByte(b, i - 1 - off)
                  ELSE IF i <= Len(w) THEN w[i] ELSE Zero
  BY Zenon, <1>3, WrittenBytes
<1> HIDE DEF e, end, v
<1>7. Len(v) = IF end >= Len(w) THEN end ELSE Len(w)
  BY <1>2, <1>3, <1>6
<1>8. /\ Tidy(ins)
      /\ \A k \in Nat : \A c :
           Shows(ins, k, c) <=>
             IF Covers(e, k) THEN c = ByteAt(e, k) ELSE Shows(exts, k, c)
  BY <1>3, <1>4, <1>5, Inserted, Zenon
<1> HIDE DEF ins
<1>9. Tidy(r)
  BY <1>2, <1>8, Cut, Zenon
<1>10. \A k \in Nat : \A c : Shows(r, k, c) <=> k < Len(v) /\ Shows(ins, k, c)
  <2>1. CASE end >= Len(w)
    <3>1. r = clipExtents(ins, end) /\ Len(v) = end
      BY <2>1, <1>7, Zenon
    <3>2. \A k \in Nat : \A c :
            Shows(clipExtents(ins, end), k, c) <=> k < end /\ Shows(ins, k, c)
      BY <1>2, <1>8, Cut, Zenon
    <3> QED BY <3>1, <3>2, Zenon
  <2>2. CASE ~(end >= Len(w))
    <3>1. ASSUME NEW k \in Nat, NEW c, Shows(ins, k, c) PROVE k < Len(v)
      <4>1. CASE Covers(e, k)
        BY <4>1, <2>2, <1>2, <1>3, <1>4, <1>7 DEF Covers
      <4>2. CASE ~Covers(e, k)
        <5>1. k < Len(w)
          BY <3>1, <4>2, <1>3, <1>8, Zenon
        <5> QED BY <5>1, <2>2, <1>7, Zenon
      <4> QED BY <4>1, <4>2
    <3> QED BY <3>1, <2>2, Zenon
  <2> QED BY <2>1, <2>2
<1> HIDE DEF r
<1>11. ASSUME NEW i \in 1 .. Len(v)
       PROVE  Holds(r, below, i - 1, v[i])
  <2> DEFINE k == i - 1
  <2>0. Len(v) \in Nat
    BY <1>6
  <2>1. k \in Nat /\ k < Len(v)
    BY <2>0
  <2>2. Covers(e, k) <=> off <= k /\ k < end
    BY <1>4, Zenon DEF Covers
  <2>3. CASE Covers(e, k)
    <3>1. v[i] = BlobByte(b, k - off)
      BY <2>2, <2>3, <1>6, Zenon
    <3>2. ByteAt(e, k) = BlobByte(b, k - off)
      <4>1. 0 + (k - off) = k - off
        BY <2>1
      <4> QED BY <4>1, <1>4, Zenon DEF ByteAt
    <3> HIDE DEF k
    <3>3. \A c : Shows(r, k, c) <=> c = v[i]
      BY <2>1, <2>3, <3>1, <3>2, <1>8, <1>10, Zenon
    <3>4. Holds(r, below, k, v[i])
      BY <2>1, <3>3, HoldsThe, Zenon
    <3> QED BY <3>4, Zenon DEF k
  <2>4. CASE ~Covers(e, k) /\ i <= Len(w)
    <3>1. v[i] = w[i]
      BY <2>2, <2>4, <1>6, Zenon
    <3>2. i \in 1 .. Len(w)
      BY <2>4, <1>3
    <3>3. Holds(exts, below, k, v[i])
      BY <3>1, <3>2, <1>3, Zenon
    <3> HIDE DEF k
    <3>4. \A c : Shows(r, k, c) <=> Shows(exts, k, c)
      BY <2>1, <2>4, <1>8, <1>10, Zenon
    <3>5. Holds(r, below, k, v[i])
      BY <2>1, <3>3, <3>4, HoldsStill, Zenon
    <3> QED BY <3>5, Zenon DEF k
  <2>5. CASE ~Covers(e, k) /\ ~(i <= Len(w))
    <3>1. v[i] = Zero
      BY <2>2, <2>5, <1>6, Zenon
    <3>2. ~(k < Len(w))
      BY <2>1, <2>5, <1>3
    <3> HIDE DEF k
    <3>3. \A c : ~Shows(r, k, c)
      BY <2>1, <2>5, <3>2, <1>3, <1>8, <1>10, Zenon
    <3>4. Holds(r, below, k, v[i])
      BY <2>1, <3>1, <3>3, HoldsShown, Zenon
    <3> QED BY <3>4, Zenon DEF k
  <2> QED BY <2>3, <2>4, <2>5
<1>12. Right(r, below, v)
  BY <1>6, <1>9, <1>10, <1>11, ShownRight, Zenon
<1> QED BY <1>7, <1>12, Zenon DEF Written, r, ins, e, end, v

\* A truncation that cuts the list does, too.
LEMMA TruncatedRight ==
  ASSUME NEW exts, NEW below, NEW w, Right(exts, below, w), NEW n \in Nat
  PROVE  /\ Right(clipExtents(exts, n), below, RefTruncate(w, n))
         /\ Len(RefTruncate(w, n)) = n
<1> DEFINE r == clipExtents(exts, n)
           v == RefTruncate(w, n)
<1>1. /\ Tidy(exts) /\ w \in Seq(Byte) /\ Len(w) \in Nat
      /\ \A k \in Nat : \A c : Shows(exts, k, c) => k < Len(w)
      /\ \A i \in 1 .. Len(w) : Holds(exts, below, i - 1, w[i])
  BY RightShown, Zenon
<1>2. /\ v \in Seq(Byte) /\ Len(v) = n
      /\ \A i \in 1 .. n : v[i] = IF i <= Len(w) THEN w[i] ELSE Zero
  BY <1>1, TruncatedBytes, Zenon
<1>3. Tidy(r) /\ \A k \in Nat : \A c : Shows(r, k, c) <=> k < n /\ Shows(exts, k, c)
  BY <1>1, Cut, Zenon
<1> HIDE DEF r, v
<1>4. ASSUME NEW i \in 1 .. n
      PROVE  Holds(r, below, i - 1, v[i])
  <2> DEFINE k == i - 1
  <2>1. k \in Nat /\ k < n
    OBVIOUS
  <2>2. CASE i <= Len(w)
    <3>1. i \in 1 .. Len(w)
      BY <2>2, <1>1
    <3>2. Holds(exts, below, k, v[i])
      BY <2>2, <3>1, <1>1, <1>2, Zenon
    <3> HIDE DEF k
    <3>3. \A c : Shows(r, k, c) <=> Shows(exts, k, c)
      BY <2>1, <1>3, Zenon
    <3>4. Holds(r, below, k, v[i])
      BY <2>1, <3>2, <3>3, HoldsStill, Zenon
    <3> QED BY <3>4, Zenon DEF k
  <2>3. CASE ~(i <= Len(w))
    <3>1. v[i] = Zero
      BY <2>3, <1>2, Zenon
    <3>2. ~(k < Len(w))
      BY <2>1, <2>3, <1>1
    <3> HIDE DEF k
    <3>3. \A c : ~Shows(r, k, c)
      BY <2>1, <3>2, <1>1, <1>3, Zenon
    <3>4. Holds(r, below, k, v[i])
      BY <2>1, <3>1, <3>3, HoldsShown, Zenon
    <3> QED BY <3>4, Zenon DEF k
  <2> QED BY <2>2, <2>3
<1>5. Right(r, below, v)
  BY <1>2, <1>3, <1>4, ShownRight, Zenon
<1> QED BY <1>2, <1>5, Zenon DEF r, v
-----------------------------------------------------------------------------
(* What a read returns *)

\* The greatest member of a set that has one.
LEMMA GreatestIs ==
  ASSUME NEW S \in SUBSET Int, NEW n \in S, \A m \in S : m <= n
  PROVE  Greatest(S) = n
<1>1. \E g \in S : \A m \in S : m <= g
  BY Zenon
<1>2. Greatest(S) \in S /\ \A m \in S : m <= Greatest(S)
  BY <1>1, Zenon DEF Greatest
<1>3. n <= Greatest(S) /\ Greatest(S) <= n
  BY <1>2, Zenon
<1>4. n \in Int /\ Greatest(S) \in Int
  BY <1>2, Zenon
<1> HIDE DEF Greatest
<1> QED BY <1>3, <1>4

\* The state that FileInv describes.
LEMMA FileInvParts ==
  ASSUME FileInv
  PROVE  /\ node.size \in Nat \cup {-1} /\ node.fall \in BOOLEAN
         /\ Right(node.extents, LowerShows, want) /\ Tidy(node.extents)
         /\ want \in Seq(Byte) /\ Len(want) \in Nat
         /\ DOMAIN want = 1 .. Len(want)
         /\ LowerSize \in Nat /\ MaxSize \in Nat
         /\ Len(want) = IF node.size = -1 THEN LowerSize ELSE node.size
         /\ node.size = -1 => LowerShows
<1>1. node \in [size: Nat \cup {-1}, extents: Seq(Extent), fall: BOOLEAN]
  BY Zenon DEF FileInv
<1>2. node.size \in Nat \cup {-1} /\ node.fall \in BOOLEAN
  BY <1>1
<1>3. Right(node.extents, LowerShows, want)
  BY Zenon DEF FileInv
<1>4. Tidy(node.extents) /\ want \in Seq(Byte) /\ Len(want) \in Nat
  BY <1>3, RightShown, Zenon
<1>5. DOMAIN want = 1 .. Len(want)
  BY <1>4
<1>6. LowerSize \in Nat /\ MaxSize \in Nat
  BY FileAssumption
<1> QED BY <1>2, <1>3, <1>4, <1>5, <1>6, Zenon DEF FileInv

\* The size that is read is the length of the content.
LEMMA SizeIs ==
  ASSUME FileInv
  PROVE  FileSize = Len(want)
<1>1. /\ node.size \in Nat \cup {-1} /\ Len(want) \in Nat
      /\ Tidy(node.extents) /\ LowerSize \in Nat
      /\ Right(node.extents, LowerShows, want)
      /\ Len(want) = IF node.size = -1 THEN LowerSize ELSE node.size
      /\ node.size = -1 => LowerShows
  BY FileInvParts, Zenon
<1>2. CASE node.size >= 0
  <2>1. node.size # -1
    BY <1>1, <1>2
  <2> QED BY <1>1, <1>2, <2>1, Zenon DEF FileSize
<1>3. CASE ~(node.size >= 0)
  <2>1. node.size = -1
    BY <1>1, <1>3
  <2> DEFINE Ends == {End(node.extents[i]) : i \in DOMAIN node.extents}
             T == Ends \cup {IF LowerShows THEN LowerSize ELSE 0}
  <2>2. (IF LowerShows THEN LowerSize ELSE 0) = LowerSize
    BY <1>1, <2>1, Zenon
  <2>3. Len(want) = LowerSize
    BY <1>1, <2>1, Zenon
  <2>4. \A i \in DOMAIN node.extents :
          End(node.extents[i]) \in Nat /\ End(node.extents[i]) <= LowerSize
    <3>1. TAKE i \in DOMAIN node.extents
    <3>2. End(node.extents[i]) <= LowerSize
      BY <1>1, <2>3, Zenon DEF Right
    <3>3. End(node.extents[i]) \in Nat
      BY <1>1, TidyParts, SoundFields, Zenon
    <3> QED BY <3>2, <3>3
  <2>5. \A m \in Ends : m \in Nat /\ m <= LowerSize
    BY <2>4, Zenon
  <2> HIDE DEF Ends
  <2>6. LowerSize \in T /\ \A m \in T : m <= LowerSize
    <3>1. LowerSize <= LowerSize
      BY <1>1
    <3> QED BY <3>1, <2>2, <2>5, Zenon
  <2>7. T \in SUBSET Int
    BY <1>1, <2>2, <2>5
  <2> HIDE DEF T
  <2>8. Greatest(T) = LowerSize
    BY <2>6, <2>7, GreatestIs, Zenon
  <2>9. FileSize = Greatest(T)
    BY <1>3, Zenon DEF FileSize, T, Ends
  <2> QED BY <2>3, <2>8, <2>9, Zenon
<1> QED BY <1>2, <1>3

\* The bytes a read returns: those of the extents and, where there is none,
\* those of the lower file that shows, or zeros.
LEMMA ReadAt ==
  ASSUME Tidy(node.extents), NEW off \in Nat, NEW n, readWindow(off, n) \in Nat
  PROVE  LET r == overlayRead(off, n) IN
         /\ r = [i \in 1 .. readWindow(off, n) |-> r[i]]
         /\ \A i \in 1 .. readWindow(off, n) :
              /\ \A c : Shows(node.extents, off + i - 1, c) => r[i] = c
              /\ (\A c : ~Shows(node.extents, off + i - 1, c)) =>
                   r[i] = IF LowerShows /\ off + i - 1 < LowerSize
                          THEN LowerByte(off + i - 1) ELSE Zero
<1> DEFINE exts == node.extents
           win == readWindow(off, n)
           Below(k) == IF LowerShows /\ k < LowerSize THEN LowerByte(k) ELSE Zero
           data == [i \in 1 .. win |-> Below(off + i - 1)]
           seen == {j \in DOMAIN exts : \A i \in 1 .. j : exts[i].off < off + Len(data)}
           Over(k) == {j \in seen : Covers(exts[j], k)}
           Out(i) == IF Over(off + i - 1) = {} THEN data[i]
                     ELSE ByteAt(exts[Greatest(Over(off + i - 1))], off + i - 1)
           r == overlayRead(off, n)
<1>1. r = [i \in DOMAIN data |-> Out(i)]
  BY Zenon DEF overlayRead, mergeExtents
<1>2. DOMAIN data = 1 .. win /\ \A i \in 1 .. win : data[i] = Below(off + i - 1)
  BY Zenon
<1>3. Len(data) = win
  <2> HIDE DEF Below
  <2>1. data \in Seq({Below(off + i - 1) : i \in 1 .. win})
    OBVIOUS
  <2> QED BY <2>1
<1>4. /\ exts \in Seq(Extent) /\ DOMAIN exts = 1 .. Len(exts) /\ Len(exts) \in Nat
      /\ \A i \in DOMAIN exts : Sound(exts[i])
      /\ \A i, j \in DOMAIN exts : i # j => Apart(exts[i], exts[j])
      /\ \A i, j \in DOMAIN exts : i < j => exts[i].off < exts[j].off
  BY TidyParts, Zenon
<1>5. \A i \in DOMAIN exts : /\ exts[i].off \in Nat /\ End(exts[i]) \in Nat
                             /\ exts[i].off < End(exts[i])
  <2>1. TAKE i \in DOMAIN exts
  <2>2. /\ exts[i].off \in Nat /\ End(exts[i]) \in Nat /\ exts[i].len \in Nat
        /\ exts[i].len > 0 /\ End(exts[i]) = exts[i].off + exts[i].len
    BY <1>4, SoundFields, Zenon
  <2> QED BY <2>2
<1> HIDE DEF data
<1>6. ASSUME NEW i \in 1 .. win, NEW j \in DOMAIN exts, Covers(exts[j], off + i - 1)
      PROVE  Over(off + i - 1) = {j}
  <2> DEFINE k == off + i - 1
  <2>1. k \in Nat /\ k < off + win
    OBVIOUS
  <2> HIDE DEF k
  <2>2. exts[j].off <= k /\ k < End(exts[j])
    BY <1>6, Zenon DEF Covers, k
  <2>3. \A h \in 1 .. j : h \in DOMAIN exts /\ exts[h].off < off + Len(data)
    <3>1. TAKE h \in 1 .. j
    <3>2. h \in DOMAIN exts /\ (h = j \/ h < j)
      BY <1>4
    <3>3. exts[h].off = exts[j].off \/ exts[h].off < exts[j].off
      BY <3>2, <1>4, Zenon
    <3>4. exts[h].off \in Nat /\ exts[j].off \in Nat
      BY <3>2, <1>5, Zenon
    <3> HIDE DEF exts
    <3>5. exts[h].off < off + win
      BY <3>3, <3>4, <2>1, <2>2
    <3> QED BY <3>2, <3>5, <1>3, Zenon
  <2>4. j \in seen
    BY <2>3, Zenon
  <2>5. \A h \in DOMAIN exts : Covers(exts[h], k) => h = j
    <3> SUFFICES ASSUME NEW h \in DOMAIN exts, Covers(exts[h], k), h # j
                 PROVE  FALSE
      BY Zenon
    <3>1. exts[h].off <= k /\ k < End(exts[h])
      BY Zenon DEF Covers
    <3>2. End(exts[h]) <= exts[j].off \/ End(exts[j]) <= exts[h].off
      BY <1>4, Zenon DEF Apart
    <3>3. /\ exts[h].off \in Nat /\ exts[j].off \in Nat
          /\ End(exts[h]) \in Nat /\ End(exts[j]) \in Nat
      BY <1>5, Zenon
    <3> HIDE DEF exts
    <3> QED BY <2>1, <2>2, <3>1, <3>2, <3>3
  <2> QED BY <1>6, <2>4, <2>5, Zenon DEF k
<1>7. ASSUME NEW i \in 1 .. win, NEW c, Shows(exts, off + i - 1, c)
      PROVE  Out(i) = c
  <2>1. PICK j \in DOMAIN exts : Covers(exts[j], off + i - 1) /\ c = ByteAt(exts[j], off + i - 1)
    BY <1>7, Zenon DEF Shows
  <2>2. Over(off + i - 1) = {j}
    BY <1>6, <2>1, Zenon
  <2>3. j \in Int /\ j <= j
    BY <1>4
  <2>4. Greatest({j}) = j
    BY <2>3, GreatestIs, Zenon
  <2> HIDE DEF Over
  <2> QED BY <2>1, <2>2, <2>4, Zenon
<1>8. ASSUME NEW i \in 1 .. win, \A c : ~Shows(exts, off + i - 1, c)
      PROVE  Out(i) = Below(off + i - 1)
  <2>1. Over(off + i - 1) = {}
    BY <1>8, Zenon DEF Shows
  <2> HIDE DEF Over
  <2> QED BY <2>1, <1>2, Zenon
<1> HIDE DEF Out
<1>9. r = [i \in 1 .. win |-> Out(i)]
  BY <1>1, <1>2, Zenon
<1> HIDE DEF r, win
<1>10. r = [i \in 1 .. win |-> r[i]] /\ \A i \in 1 .. win : r[i] = Out(i)
  BY <1>9, Zenon
<1>11. \A i \in 1 .. win :
         /\ \A c : Shows(exts, off + i - 1, c) => r[i] = c
         /\ (\A c : ~Shows(exts, off + i - 1, c)) => r[i] = Below(off + i - 1)
  BY <1>7, <1>8, <1>10, Zenon
<1> QED BY <1>10, <1>11, Zenon DEF r, win

\* How much a read returns.
LEMMA WindowIs ==
  ASSUME FileInv, NEW off \in Nat, NEW n \in Nat
  PROVE  /\ readWindow(off, n) \in Nat
         /\ 1 .. readWindow(off, n) = {k \in 1 .. n : off + k <= Len(want)}
<1>1. FileSize = Len(want) /\ Len(want) \in Nat
  BY SizeIs, FileInvParts, Zenon
<1> DEFINE size == Len(want)
<1>2. readWindow(off, n) = IF off >= size THEN 0
                           ELSE (IF off + n > size THEN size ELSE off + n) - off
  BY <1>1, Zenon DEF readWindow
<1> HIDE DEF size
<1>3. size \in Nat
  BY <1>1 DEF size
<1>4. /\ readWindow(off, n) \in Nat
      /\ 1 .. readWindow(off, n) = {k \in 1 .. n : off + k <= size}
  BY <1>2, <1>3
<1> QED BY <1>4, Zenon DEF size
-----------------------------------------------------------------------------
(* What the invariant says of the file *)

LEMMA InvTidy ==
  ASSUME FileInv
  PROVE  ExtentsTidy
<1> DEFINE exts == node.extents
<1>1. /\ Tidy(exts) /\ Right(exts, LowerShows, want) /\ FileSize = Len(want)
  BY FileInvParts, SizeIs, Zenon
<1>2. DOMAIN exts = 1 .. Len(exts) /\ Len(exts) \in Nat
  BY <1>1, TidyParts, Zenon
<1>3. ASSUME NEW i \in DOMAIN exts
      PROVE  /\ exts[i].len > 0 /\ exts[i].boff + exts[i].len <= exts[i].blob.len
             /\ End(exts[i]) <= FileSize
             /\ i < Len(exts) => /\ End(exts[i]) <= exts[i + 1].off
                                 /\ ~adjacent(exts[i], exts[i + 1])
  <2>1. exts[i].len > 0 /\ exts[i].boff + exts[i].len <= exts[i].blob.len
    BY <1>1, Zenon DEF Tidy
  <2>2. End(exts[i]) <= FileSize
    BY <1>1, Zenon DEF Right
  <2>3. i < Len(exts) => i + 1 \in DOMAIN exts /\ i < i + 1
    BY <1>2
  <2> QED BY <2>1, <2>2, <2>3, <1>1, Zenon DEF Tidy
<1> QED BY <1>3, Zenon DEF ExtentsTidy

LEMMA LowerNat == LowerSize \in Nat
  BY FileAssumption

\* The handles in use that are current are overlayHandles, the others
\* lowerHandles.
LEMMA ReadOf ==
  ASSUME HandleInv, NEW f \in InUse
  PROVE  /\ f \in Current =>
              \A off, n : Read(f, off, n) = overlayRead(off, n)
         /\ f \notin Current => \A off, n : Read(f, off, n) = lowerRead(off, n)
  BY Zenon DEF HandleInv, InUse, Current, Read

LEMMA InvBorn ==
  ASSUME FileInv, HandleInv
  PROVE  BornExact
<1>a. \A f \in Current : \A off, n : Read(f, off, n) = overlayRead(off, n)
  <2>1. \A f \in Current : f \in InUse
    BY Zenon DEF Current
  <2> QED BY <2>1, ReadOf, Zenon
<1>b. SUFFICES ASSUME ~LowerShows PROVE ReadsExact
  BY Zenon DEF BornExact
<1> DEFINE Ordinary(off, n) ==
             [i \in {k \in 1 .. n : off + k <= Len(want)} |-> want[off + i]]
<1>0. SUFFICES ASSUME NEW off \in 0 .. MaxSize, NEW n \in 1 .. MaxSize
               PROVE  overlayRead(off, n) = Ordinary(off, n)
  <2>1. SUFFICES \A f \in Current, off \in 0 .. MaxSize, n \in 1 .. MaxSize :
                   Read(f, off, n) = Ordinary(off, n)
    BY <2>1, Zenon DEF ReadsExact
  <2> HIDE DEF Ordinary
  <2> QED BY <1>a, Zenon
<1> DEFINE r == overlayRead(off, n)
           win == readWindow(off, n)
           exts == node.extents
<1>1. Tidy(exts) /\ Right(exts, LowerShows, want) /\ Len(want) \in Nat
  BY FileInvParts, Zenon
<1>2. off \in Nat /\ n \in Nat
  BY FileInvParts
<1>3. win \in Nat /\ 1 .. win = {k \in 1 .. n : off + k <= Len(want)}
  BY <1>2, WindowIs, Zenon
<1>4. /\ r = [i \in 1 .. win |-> r[i]]
      /\ \A i \in 1 .. win :
           /\ \A c : Shows(exts, off + i - 1, c) => r[i] = c
           /\ (\A c : ~Shows(exts, off + i - 1, c)) => r[i] = Zero
  <2>1. /\ r = [i \in 1 .. win |-> r[i]]
        /\ \A i \in 1 .. win :
             /\ \A c : Shows(exts, off + i - 1, c) => r[i] = c
             /\ (\A c : ~Shows(exts, off + i - 1, c)) =>
                  r[i] = IF LowerShows /\ off + i - 1 < LowerSize
                         THEN LowerByte(off + i - 1) ELSE Zero
    BY <1>1, <1>2, <1>3, ReadAt, Zenon
  <2> HIDE DEF r, win
  <2> QED BY <1>b, <2>1, Zenon
<1> HIDE DEF r, win
<1>5. ASSUME NEW i \in 1 .. win
      PROVE  r[i] = want[off + i]
  <2> DEFINE k == off + i - 1
  <2>1. i \in {h \in 1 .. n : off + h <= Len(want)}
    BY <1>3, Zenon
  <2>2. off + i \in 1 .. Len(want) /\ k \in Nat /\ (off + i) - 1 = k
    BY <2>1, <1>1, <1>2
  <2>3. Holds(exts, LowerShows, k, want[off + i])
    <3>1. \A h \in 1 .. Len(want) : Holds(exts, LowerShows, h - 1, want[h])
      BY <1>1, RightShown, Zenon
    <3>2. Holds(exts, LowerShows, (off + i) - 1, want[off + i])
      BY <2>2, <3>1, Zenon
    <3> QED BY <2>2, <3>2, Zenon
  <2> HIDE DEF k
  <2>4. /\ \A c : Shows(exts, k, c) => want[off + i] = c
        /\ (\E c : Shows(exts, k, c)) \/ want[off + i] = Zero
    <3> DEFINE w == want[off + i]
    <3>1. k \in Nat /\ Holds(exts, LowerShows, k, w)
      BY <2>2, <2>3, Zenon
    <3> HIDE DEF w, exts
    <3>2. /\ \A c : Shows(exts, k, c) => w = c
          /\ \/ \E c : Shows(exts, k, c)
             \/ w = Zero
             \/ LowerShows /\ k < LowerSize /\ w = LowerByte(k)
      BY <3>1, HoldsShown, Zenon
    <3> QED BY <1>b, <3>2, Zenon DEF w
  <2>5. /\ \A c : Shows(exts, k, c) => r[i] = c
        /\ (\A c : ~Shows(exts, k, c)) => r[i] = Zero
    BY <1>4, Zenon DEF k
  <2> QED BY <2>4, <2>5, Zenon
<1>6. r = [i \in 1 .. win |-> want[off + i]]
  BY <1>4, <1>5, Zenon
<1> QED BY <1>3, <1>6, Zenon DEF r

LEMMA InvKept ==
  ASSUME FileInv, HandleInv
  PROVE  WritesKept
<1> DEFINE exts == node.extents
<1>1. /\ Tidy(exts) /\ Right(exts, LowerShows, want) /\ Len(want) \in Nat
      /\ DOMAIN want = 1 .. Len(want) /\ FileSize = Len(want)
  BY FileInvParts, SizeIs, Zenon
<1>2. ASSUME NEW i \in DOMAIN want, want[i] # Zero
      PROVE  overlayRead(i - 1, 1) = <<want[i]>>
  <2> DEFINE off == i - 1
             r == overlayRead(off, 1)
             win == readWindow(off, 1)
  <2>1. off \in Nat /\ off + 1 <= Len(want) /\ off + 1 - 1 = off
    BY <1>1
  <2>2. Holds(exts, LowerShows, off, want[i])
    BY <1>1, RightShown, Zenon
  <2> HIDE DEF off
  <2>3. win \in Nat /\ 1 .. win = {k \in 1 .. 1 : off + k <= Len(want)}
    BY Zenon, <2>1, WindowIs
  <2>4. 1 .. win = {1}
    <3> HIDE DEF win
    <3> QED BY <2>1, <2>3
  <2>5. /\ r = [h \in 1 .. win |-> r[h]]
        /\ \A h \in 1 .. win :
             /\ \A c : Shows(exts, off + h - 1, c) => r[h] = c
             /\ (\A c : ~Shows(exts, off + h - 1, c)) =>
                  r[h] = IF LowerShows /\ off + h - 1 < LowerSize
                         THEN LowerByte(off + h - 1) ELSE Zero
    BY <1>1, <2>1, <2>3, ReadAt, Zenon
  <2> HIDE DEF r, win
  <2>6. /\ \A c : Shows(exts, off, c) => r[1] = c
        /\ (\A c : ~Shows(exts, off, c)) =>
             r[1] = IF LowerShows /\ off < LowerSize THEN LowerByte(off) ELSE Zero
    <3>1. 1 \in 1 .. win
      BY <2>4, Zenon
    <3> QED BY <2>1, <2>5, <3>1, Zenon
  <2>7. /\ \A c : Shows(exts, off, c) => want[i] = c
        /\ \/ \E c : Shows(exts, off, c)
           \/ want[i] = Zero
           \/ LowerShows /\ off < LowerSize /\ want[i] = LowerByte(off)
    <3> DEFINE w == want[i]
    <3>1. Holds(exts, LowerShows, off, w)
      BY <2>2, Zenon
    <3> HIDE DEF w, exts
    <3>2. /\ \A c : Shows(exts, off, c) => w = c
          /\ \/ \E c : Shows(exts, off, c)
             \/ w = Zero
             \/ LowerShows /\ off < LowerSize /\ w = LowerByte(off)
      BY <2>1, <3>1, HoldsShown, Zenon
    <3> QED BY <3>2, Zenon DEF w
  <2>8. r[1] = want[i]
    BY <1>2, <2>6, <2>7, Zenon
  <2>9. r = [h \in {1} |-> want[i]]
    BY <2>4, <2>5, <2>8, Zenon
  <2>10. r = <<want[i]>>
    BY <2>9
  <2> QED BY <2>10, Zenon DEF r, off
<1>3. ASSUME NEW i \in DOMAIN LowerFile
      PROVE  lowerRead(i - 1, 1) = <<LowerFile[i]>>
  <2>1. i \in 1 .. LowerSize /\ LowerSize \in Nat
    <3>1. DOMAIN LowerFile = 1 .. LowerSize
      BY Zenon DEF LowerFile
    <3> QED BY <3>1, LowerNat, Zenon
  <2>2. {k \in 1 .. 1 : (i - 1) + k <= LowerSize} = {1} /\ (i - 1) + 1 - 1 = i - 1
    BY <2>1
  <2>3. lowerRead(i - 1, 1) = [k \in {1} |-> LowerByte((i - 1) + k - 1)]
    BY <2>2, Zenon DEF lowerRead
  <2>4. LowerFile[i] = LowerByte(i - 1)
    BY <2>1, Zenon DEF LowerFile
  <2>5. lowerRead(i - 1, 1) = [k \in {1} |-> LowerFile[i]]
    BY <2>2, <2>3, <2>4, Zenon
  <2> QED BY <2>5
<1>4. ASSUME NEW f \in InUse
      PROVE  ReadsBack(f, IF f \in Current THEN want ELSE LowerFile)
  <2>1. CASE f \in Current
    BY <1>2, <2>1, ReadOf, Zenon DEF ReadsBack
  <2>2. CASE f \notin Current
    BY <1>3, <2>2, ReadOf, Zenon DEF ReadsBack
  <2> QED BY <2>1, <2>2
<1> QED BY <1>1, <1>4, Zenon DEF WritesKept
-----------------------------------------------------------------------------
(* The invariant is inductive *)

\* What a write starts from: the node's size and extents, and a lower file
\* that shows if it did.
LEMMA StartsFrom ==
  ASSUME FileInv
  PROVE  /\ Node0 = [size |-> node.size, extents |-> node.extents, fall |-> Node0.fall]
         /\ Node0.size = node.size /\ Node0.extents = node.extents
         /\ Node0.fall \in BOOLEAN /\ (Node0.fall <=> LowerShows)
         /\ Right(node.extents, Node0.fall, want)
<1> SUFFICES /\ Node0 = [size |-> node.size, extents |-> node.extents,
                         fall |-> Node0.fall]
             /\ Node0.fall \in BOOLEAN /\ (Node0.fall <=> LowerShows)
  <2>1. Right(node.extents, LowerShows, want)
    BY Zenon DEF FileInv
  <2>2. (Node0.fall <=> LowerShows) => Right(node.extents, Node0.fall, want)
    BY <2>1, Zenon DEF Right, Holds
  <2> QED BY <2>2
<1>1. node \in [size: Nat \cup {-1}, extents: Seq(Extent), fall: BOOLEAN]
  BY Zenon DEF FileInv
<1>2. CASE node = NoNode
  BY Zenon, <1>2 DEF Node0, NoNode, LowerShows
<1>3. CASE node # NoNode
  <2>1. Node0 = node
    BY <1>3, Zenon DEF Node0
  <2>2. LowerShows <=> node.fall
    BY <1>3, Zenon DEF LowerShows
  <2>3. /\ node = [size |-> node.size, extents |-> node.extents, fall |-> node.fall]
        /\ node.fall \in BOOLEAN
    BY <1>1
  <2> QED BY <2>1, <2>2, <2>3, Zenon
<1> QED BY <1>2, <1>3

\* A node that shows the lower file as before, or has a size, and is a file of
\* the content wanted, keeps the invariant.
LEMMA NodeRight ==
  ASSUME NEW size \in Nat \cup {-1}, NEW exts, NEW fall \in BOOLEAN,
         Right(exts, fall, want'), size = -1 => fall,
         Len(want') = IF size = -1 THEN LowerSize ELSE size,
         node' = [size |-> size, extents |-> exts, fall |-> fall]
  PROVE  FileInv'
<1>1. node'.size = size /\ node'.extents = exts /\ node'.fall = fall
  BY Zenon
<1>2. exts \in Seq(Extent)
  BY Zenon DEF Right, Tidy
<1>3. node' \in [size: Nat \cup {-1}, extents: Seq(Extent), fall: BOOLEAN]
  BY <1>2, Zenon
<1>4. node' = NoNode => fall
  BY <1>1, Zenon DEF NoNode
<1>5. LowerShows' <=> fall
  BY <1>1, <1>4, Zenon DEF LowerShows
<1>6. Right(exts, LowerShows', want')
  BY <1>5, Zenon DEF Right, Holds
<1> QED BY <1>1, <1>3, <1>5, <1>6, Zenon DEF FileInv

LEMMA WriteStep ==
  ASSUME FileInv, NEW f \in Fds, NEW off \in 0 .. MaxSize - 1, NEW b \in Blob,
         Write(f, off, b)
  PROVE  FileInv'
<1> DEFINE end == off + b.len
           ins == insertExtent(node.extents, Whole(off, b))
           r == Written(node.extents, off, b, Len(want))
           fall == Node0.fall
           size == IF end >= Len(want) THEN end ELSE node.size
<1>1. /\ node.size \in Nat \cup {-1} /\ Len(want) \in Nat
      /\ FileSize = Len(want)
      /\ Len(want) = IF node.size = -1 THEN LowerSize ELSE node.size
      /\ node.size = -1 => LowerShows
  BY FileInvParts, SizeIs, Zenon
<1>2. off \in Nat /\ b.len \in Nat /\ end \in Nat
  <2>1. b.len \in 1 .. MaxWrite /\ MaxWrite \in Nat /\ MaxSize \in Nat
    BY FileAssumption DEF Blob
  <2> QED BY <2>1
<1>3. /\ Node0 = [size |-> node.size, extents |-> node.extents, fall |-> fall]
      /\ fall \in BOOLEAN /\ (fall <=> LowerShows)
  BY StartsFrom, Zenon
<1>4. /\ Node0.size = node.size /\ Node0.extents = node.extents
      /\ Right(node.extents, fall, want)
  BY StartsFrom, Zenon
<1> HIDE DEF fall
<1>5. /\ Right(r, fall, RefWrite(want, off, b))
      /\ Len(RefWrite(want, off, b)) = IF end >= Len(want) THEN end ELSE Len(want)
  <2> DEFINE x == node.extents
  <2>1. off \in Nat /\ Right(x, fall, want)
    BY <1>2, <1>4, Zenon
  <2> HIDE DEF x
  <2>2. /\ Right(Written(x, off, b, Len(want)), fall, RefWrite(want, off, b))
        /\ Len(RefWrite(want, off, b)) =
             IF off + b.len >= Len(want) THEN off + b.len ELSE Len(want)
    BY <2>1, WrittenRight, Zenon
  <2> QED BY <2>2, Zenon DEF x
<1>6. want' = RefWrite(want, off, b)
  BY Zenon DEF Write
<1>7. node' = IF end >= Len(want)
              THEN [Node0 EXCEPT !.size = end, !.extents = clipExtents(ins, end)]
              ELSE [Node0 EXCEPT !.extents = ins,
                      !.size = IF ~fall /\ @ < end THEN end ELSE @]
  BY <1>1, <1>4, Zenon DEF Write, fall
<1> HIDE DEF ins, end, r
<1>8. node' = [size |-> size, extents |-> r, fall |-> fall]
  <2>1. CASE end >= Len(want)
    <3>1. r = clipExtents(ins, end)
      BY <2>1, Zenon DEF r, Written, ins, end
    <3> QED BY Zenon, <2>1, <3>1, <1>3, <1>7
  <2>2. CASE ~(end >= Len(want))
    <3>1. ~(~fall /\ node.size < end)
      BY <2>2, <1>1, <1>2, <1>3
    <3>2. node' = [Node0 EXCEPT !.extents = ins, !.size = node.size]
      <4>1. node' = [Node0 EXCEPT !.extents = ins,
                       !.size = IF ~fall /\ @ < end THEN end ELSE @]
        BY <2>2, <1>7, Zenon
      <4> QED BY Zenon, <3>1, <4>1, <1>3
    <3>3. r = ins
      BY <2>2, Zenon DEF r, Written, ins, end
    <3> QED BY Zenon, <2>2, <3>2, <3>3, <1>3
  <2> QED BY <2>1, <2>2
<1>9. size \in Nat \cup {-1}
  BY <1>1, <1>2
<1>10. size = -1 => fall
  BY <1>1, <1>2, <1>3
<1>11. Len(RefWrite(want, off, b)) = IF size = -1 THEN LowerSize ELSE size
  <2> DEFINE l == Len(RefWrite(want, off, b))
  <2>1. l = IF end >= Len(want) THEN end ELSE Len(want)
    BY <1>5, Zenon
  <2> HIDE DEF l
  <2>2. l = IF size = -1 THEN LowerSize ELSE size
    BY <2>1, <1>1, <1>2
  <2> QED BY <2>2, Zenon DEF l
<1> HIDE DEF size
<1> QED BY <1>3, <1>5, <1>6, <1>8, <1>9, <1>10, <1>11, NodeRight, Zenon

LEMMA TruncateStep ==
  ASSUME FileInv, NEW n \in 0 .. MaxSize, Truncate(n)
  PROVE  FileInv'
<1> DEFINE r == clipExtents(node.extents, n)
           fall == Node0.fall
<1>1. node \in [size: Nat \cup {-1}, extents: Seq(Extent), fall: BOOLEAN]
  BY Zenon DEF FileInv
<1>2. n \in Nat /\ n \in Nat \cup {-1} /\ n # -1
  BY FileAssumption
<1>3. fall \in BOOLEAN /\ Right(node.extents, fall, want)
  BY StartsFrom, Zenon
<1>4. /\ Right(r, fall, RefTruncate(want, n))
      /\ Len(RefTruncate(want, n)) = n
  <2> DEFINE x == node.extents
  <2>1. Right(x, fall, want)
    BY <1>3, Zenon
  <2> HIDE DEF x, fall
  <2>2. /\ Right(clipExtents(x, n), fall, RefTruncate(want, n))
        /\ Len(RefTruncate(want, n)) = n
    BY <1>2, <2>1, TruncatedRight, Zenon
  <2> QED BY <2>2, Zenon DEF x
<1>5. want' = RefTruncate(want, n)
  BY Zenon DEF Truncate
<1>6. node' = [size |-> n, extents |-> r, fall |-> fall]
  <2>1. CASE node = NoNode
    <3>1. node.extents = <<>> /\ fall = TRUE
      BY <2>1 DEF NoNode, Node0
    <3>2. r = <<>>
      <4>1. /\ node.extents \in Seq(Extent) /\ Len(node.extents) = 0
            /\ 0 \in 0 .. Len(node.extents)
            /\ \A j \in 1 .. Len(node.extents) :
                 node.extents[j].off < n <=> j <= 0
        BY <3>1
      <4>2. r = [j \in 1 .. 0 |-> Clipped(node.extents[j], n)]
        BY <4>1, <1>2, ClippedPrefix, Zenon
      <4> HIDE DEF r
      <4> QED BY <4>2
    <3>3. node' = [size |-> n, extents |-> <<>>, fall |-> TRUE]
      BY <2>1, Zenon DEF Truncate
    <3> QED BY <3>1, <3>2, <3>3, Zenon
  <2>2. CASE node # NoNode
    <3>1. fall = node.fall
      BY <2>2, Zenon DEF Node0
    <3>2. node' = [node EXCEPT !.size = n, !.extents = r]
      BY <2>2, Zenon DEF Truncate
    <3> HIDE DEF r, fall
    <3> QED BY Zenon, <3>1, <3>2, <1>1
  <2> QED BY <2>1, <2>2
<1> HIDE DEF r, fall
<1> QED BY <1>2, <1>3, <1>4, <1>5, <1>6, NodeRight, Zenon

\* A file without extents that is all lower bytes, or empty.
LEMMA InitRight ==
  ASSUME Init
  PROVE  FileInv
<1> DEFINE lower == [i \in 1 .. LowerSize |-> LowerByte(i - 1)]
<1>0. LowerSize \in Nat
  BY FileAssumption
<1>1. Tidy(<<>>) /\ <<>> \in Seq(Extent) /\ DOMAIN <<>> = {}
  <2>1. <<>> \in Seq(Extent) /\ DOMAIN <<>> = {}
    OBVIOUS
  <2> QED BY <2>1, Zenon DEF Tidy
<1>2. CASE node = NoNode /\ want = lower
  <2>1. /\ node.size = -1 /\ node.extents = <<>> /\ node.fall = FALSE
        /\ node \in [size: Nat \cup {-1}, extents: Seq(Extent), fall: BOOLEAN]
    BY <1>1, <1>2 DEF NoNode
  <2>2. LowerShows
    BY <1>2, Zenon DEF LowerShows
  <2>3. \A i \in 1 .. LowerSize : i - 1 \in 0 .. LowerSize - 1 /\ i - 1 < LowerSize
    BY <1>0
  <2>4. \A i \in 1 .. LowerSize : LowerByte(i - 1) \in Byte
    <3> HIDE DEF lower
    <3> QED BY <2>3 DEF Byte
  <2>5. lower \in Seq(Byte) /\ Len(lower) = LowerSize /\ DOMAIN lower = 1 .. LowerSize
    <3>1. \A i \in 1 .. LowerSize : lower[i] \in Byte
      BY <2>4, Zenon
    <3>2. lower = [i \in 1 .. LowerSize |-> lower[i]]
      BY Zenon
    <3> HIDE DEF lower
    <3> QED BY <1>0, <3>1, <3>2
  <2>6. \A i \in 1 .. LowerSize : Holds(<<>>, LowerShows, i - 1, lower[i])
    BY <1>1, <2>2, <2>3, Zenon DEF Holds
  <2> HIDE DEF lower
  <2>7. Right(node.extents, LowerShows, want)
    BY <1>1, <1>2, <2>1, <2>5, <2>6, Zenon DEF Right
  <2> QED BY <1>2, <2>1, <2>2, <2>5, <2>7, Zenon DEF FileInv
<1>3. CASE node = [size |-> 0, extents |-> <<>>, fall |-> FALSE] /\ want = <<>>
  <2>1. /\ node.size = 0 /\ node.extents = <<>> /\ node.fall = FALSE /\ 0 # -1
        /\ node \in [size: Nat \cup {-1}, extents: Seq(Extent), fall: BOOLEAN]
    BY <1>1, <1>3
  <2>2. want \in Seq(Byte) /\ Len(want) = 0 /\ DOMAIN want = {}
    BY <1>3
  <2>3. Right(node.extents, LowerShows, want)
    BY <1>1, <2>1, <2>2, Zenon DEF Right
  <2> QED BY <2>1, <2>2, <2>3, Zenon DEF FileInv
<1> QED BY <1>2, <1>3, Zenon DEF Init, LowerFile

\* An open tells early handles from the others as lowerNode.Open does.
LEMMA HandleStep ==
  ASSUME HandleInv, NEW f \in Fds, NEW h \in Handle, h.kind = "lower" <=> h.early,
         handle' = [handle EXCEPT ![f] = h]
  PROVE  HandleInv'
<1>1. handle' \in [Fds -> Handle]
  BY Zenon DEF HandleInv
<1>2. \A g \in Fds : handle'[g] = IF g = f THEN h ELSE handle[g]
  BY Zenon DEF HandleInv
<1> QED BY <1>1, <1>2, Zenon DEF HandleInv

\* A handle is a lowerHandle exactly when it was opened read-only before the
\* first write or truncation (lowerNode.Open, Release).
THEOREM HandlesHeld == Spec => []HandleInv
<1>0. Closed \in Handle /\ ~(Closed.kind = "lower") /\ Closed.early = FALSE
  BY DEF Closed, Handle
<1>1. Init => HandleInv
  <2>1. SUFFICES ASSUME handle = [f \in Fds |-> Closed]
                 PROVE  HandleInv
    BY Zenon DEF Init
  <2> QED BY <1>0, <2>1, Zenon DEF HandleInv
<1>2. ASSUME HandleInv, [Next]_vars
      PROVE  HandleInv'
  <2>1. CASE handle' = handle
    BY <1>2, <2>1, Zenon DEF HandleInv
  <2>2. ASSUME NEW f \in Fds, NEW write \in BOOLEAN, Open(f, write)
        PROVE  HandleInv'
    <3> DEFINE h == [kind |-> IF write \/ node # NoNode THEN "overlay" ELSE "lower",
                     write |-> write, early |-> ~write /\ node = NoNode]
    <3>1. (node = NoNode) \in BOOLEAN
      OBVIOUS
    <3>2. h \in Handle /\ (h.kind = "lower" <=> h.early)
      <4>1. CASE write \/ node # NoNode
        BY <4>1, Zenon DEF Handle
      <4>2. CASE ~(write \/ node # NoNode)
        BY <4>2, Zenon DEF Handle
      <4> QED BY <4>1, <4>2, Zenon
    <3>3. handle' = [handle EXCEPT ![f] = h]
      BY <2>2, Zenon DEF Open
    <3> HIDE DEF h
    <3> QED BY <1>2, <3>2, <3>3, HandleStep, Zenon
  <2>3. ASSUME NEW f \in Fds, Release(f)
        PROVE  HandleInv'
    BY <1>0, <1>2, <2>3, HandleStep, Zenon DEF Release
  <2> QED BY <1>2, <2>1, <2>2, <2>3, Zenon DEF Next, Write, Truncate, vars
<1> QED BY <1>1, <1>2, PTL DEF Spec

\* For every lower file, write and truncation: the extents are a file of the
\* content an ordinary file would have, except that a lower byte may show where
\* that content has a zero (Write, Setattr of the size, Apply).
THEOREM FileHeld == Spec => []FileInv
<1>1. ASSUME FileInv, [Next]_vars
      PROVE  FileInv'
  <2>1. CASE \E f \in Fds, off \in 0 .. MaxSize - 1, b \in Blob : Write(f, off, b)
    BY <2>1, <1>1, WriteStep, Zenon
  <2>2. CASE \E n \in 0 .. MaxSize : Truncate(n)
    BY <2>2, <1>1, TruncateStep, Zenon
  <2>3. CASE UNCHANGED <<node, want>>
    BY <2>3, <1>1, Zenon DEF FileInv, LowerShows
  <2> QED BY <2>1, <2>2, <2>3, <1>1, Zenon DEF Next, Open, Release, vars
<1> QED BY <1>1, InitRight, PTL DEF Spec

\* However a file is written and truncated, its extent list stays sorted, apart,
\* merged, inside the file and inside its blobs (insertExtent, clipExtents).
THEOREM ExtentsStayTidy == Spec => []ExtentsTidy
BY FileHeld, InvTidy, PTL

\* Every read of a file that shows nothing of the lower tree returns the bytes
\* an ordinary file would hold (Open, Write, Setattr of the size, Read).
THEOREM BornFilesExact == Spec => []BornExact
BY FileHeld, HandlesHeld, InvBorn, PTL

\* The size is the ordinary file's.  A handle opened for writing, or after the
\* first write or truncation, reads back every byte that was written, or is the
\* lower file's own, and was neither cut off nor overwritten; any other handle
\* reads the lower file as it was (lowerNode.Open, both Reads).
THEOREM WritesStay == Spec => []WritesKept
BY FileHeld, HandlesHeld, InvKept, PTL
=============================================================================
