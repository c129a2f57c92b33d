--------------------------- MODULE OverlayProofs ---------------------------
(***************************************************************************)
(* What module Overlay checks of the merged view, proved for every set of  *)
(* mounts, every set of names and every depth: the types always hold; on   *)
(* the mounts Agreeing describes the mount shows exactly the tree that an  *)
(* ordinary file system would; on those Straight describes readdir agrees  *)
(* with lookup.                                                            *)
(*                                                                         *)
(* The argument: a handler's step concerns one path (OnlyAt), or it is a   *)
(* rename over an empty lower tree, which moves the nodes as it moves the  *)
(* tree.  In both cases OverlayInv is kept.                                *)
(***************************************************************************)
EXTENDS Overlay, SequenceTheorems, TLAPS

(* Paths *)

\* A path is a sequence of names, neither empty nor too long.
LEMMA PathSeq ==
  \A p : p \in Paths <=> p \in Seq(Names) /\ p # NoPath /\ Len(p) <= MaxDepth
<1>1. ASSUME NEW p \in Paths
      PROVE  p \in Seq(Names) /\ p # NoPath /\ Len(p) <= MaxDepth
  <2>1. PICK n \in 1 .. MaxDepth : p \in [1 .. n -> Names]
    BY DEF Paths
  <2>2. p \in Seq(Names) /\ Len(p) = n
    BY <2>1, DepthAssumption
  <2> QED BY <2>1, <2>2, DepthAssumption DEF NoPath
<1>2. ASSUME NEW p \in Seq(Names), p # NoPath, Len(p) <= MaxDepth
      PROVE  p \in Paths
  <2>1. p \in [1 .. Len(p) -> Names] /\ Len(p) \in Nat
    BY LenProperties
  <2>2. Len(p) # 0
    BY <1>2, EmptySeq DEF NoPath
  <2>3. Len(p) \in 1 .. MaxDepth
    BY <1>2, <2>1, <2>2, DepthAssumption
  <2> QED BY <2>1, <2>3 DEF Paths
<1> QED BY <1>1, <1>2, Zenon

\* A path is at or under one that it begins with.
LEMMA PrefixAt ==
  ASSUME NEW p \in Seq(Names), NEW d \in Seq(Names)
  PROVE  AtOrUnder(p, d) <=>
           Len(d) <= Len(p) /\ \A i \in 1 .. Len(d) : p[i] = d[i]
<1>1. SubSeq(d, 1, Len(d)) = d
  BY SubSeqFull
<1>2. ASSUME Len(d) <= Len(p)
      PROVE  SubSeq(p, 1, Len(d)) = d <=> \A i \in 1 .. Len(d) : p[i] = d[i]
  <2>1. /\ SubSeq(p, 1, Len(d)) \in Seq(Names)
        /\ Len(SubSeq(p, 1, Len(d))) = Len(d)
        /\ \A i \in 1 .. Len(d) : SubSeq(p, 1, Len(d))[i] = p[i]
    BY <1>2
  <2> QED BY <2>1, SeqEqual
<1> QED BY <1>1, <1>2 DEF AtOrUnder

\* Being under is what it should be.
LEMMA UnderAt ==
  ASSUME NEW p \in Seq(Names), NEW d \in Seq(Names)
  PROVE  /\ AtOrUnder(p, p)
         /\ AtOrUnder(p, d) => p = d \/ Under(p, d)
         /\ Under(p, d) <=> AtOrUnder(p, d) /\ Len(d) < Len(p)
<1>1. AtOrUnder(p, d) /\ Len(p) = Len(d) => p = d
  BY PrefixAt, SeqEqual
<1>2. Under(p, d) <=> AtOrUnder(p, d) /\ d # p
  BY Zenon DEF Under
<1>3. Len(p) \in Nat /\ Len(d) \in Nat
  BY LenProperties
<1>4. AtOrUnder(p, p)
  BY <1>3, PrefixAt
<1>5. AtOrUnder(p, d) => Len(d) <= Len(p)
  BY PrefixAt
<1> QED BY <1>1, <1>2, <1>3, <1>4, <1>5

\* What is under a path under d is under d.
LEMMA UnderTransitive ==
  ASSUME NEW p \in Seq(Names), NEW q \in Seq(Names), NEW d \in Seq(Names),
         AtOrUnder(p, q), AtOrUnder(q, d)
  PROVE  AtOrUnder(p, d)
  BY PrefixAt, LenProperties

\* The first n names of a path.
LEMMA Above ==
  ASSUME NEW p \in Paths, NEW n \in 1 .. Len(p)
  PROVE  /\ SubSeq(p, 1, n) \in Paths /\ Len(SubSeq(p, 1, n)) = n
         /\ AtOrUnder(p, SubSeq(p, 1, n))
         /\ \A i \in 1 .. n : SubSeq(p, 1, n)[i] = p[i]
<1>1. p \in Seq(Names) /\ Len(p) \in Nat /\ Len(p) <= MaxDepth
  BY PathSeq, LenProperties
<1> DEFINE c == SubSeq(p, 1, n)
<1>2. c \in Seq(Names) /\ Len(c) = n /\ \A i \in 1 .. n : c[i] = p[i]
  BY <1>1
<1> HIDE DEF c
<1>3. c \in Paths
  BY <1>1, <1>2, PathSeq, EmptySeq, DepthAssumption DEF NoPath
<1>4. AtOrUnder(p, c)
  BY <1>1, <1>2, PrefixAt
<1> QED BY <1>2, <1>3, <1>4 DEF c

\* What is above a path is its parent, or above that.
LEMMA AboveParent ==
  ASSUME NEW p \in Paths, NEW q \in Paths, Under(p, q)
  PROVE  /\ Parent(p) \in Paths
         /\ q = Parent(p) \/ Under(Parent(p), q)
<1>1. /\ p \in Seq(Names) /\ Len(p) \in Nat
      /\ q \in Seq(Names) /\ Len(q) \in Nat \ {0}
  BY PathSeq, LenProperties, EmptySeq DEF NoPath
<1>2. AtOrUnder(p, q) /\ Len(q) < Len(p)
  BY <1>1, UnderAt
<1>3. Len(p) - 1 \in 1 .. Len(p)
  BY <1>1, <1>2
<1> DEFINE d == SubSeq(p, 1, Len(p) - 1)
<1>4. /\ d \in Paths /\ Len(d) = Len(p) - 1
      /\ \A i \in 1 .. Len(p) - 1 : d[i] = p[i]
  BY <1>3, Above
<1> HIDE DEF d
<1>5. d \in Seq(Names)
  BY <1>4, PathSeq
<1>6. AtOrUnder(d, q)
  <2>1. \A i \in 1 .. Len(q) : p[i] = q[i]
    BY <1>1, <1>2, PrefixAt, Zenon
  <2>2. Len(q) <= Len(d) /\ \A i \in 1 .. Len(q) : i \in 1 .. Len(p) - 1
    BY <1>1, <1>2, <1>4
  <2>3. \A i \in 1 .. Len(q) : d[i] = q[i]
    BY <1>4, <2>1, <2>2, Zenon
  <2> QED BY <1>1, <1>5, <2>2, <2>3, PrefixAt, Zenon
<1>7. Parent(p) = d
  BY Zenon DEF Parent, d
<1> QED BY <1>1, <1>4, <1>5, <1>6, <1>7, UnderAt, Zenon

\* The child of d that p, under d, is at or under.
LEMMA ChildAbove ==
  ASSUME NEW p \in Paths, NEW d \in Paths, Under(p, d)
  PROVE  \E c \in Paths : /\ Parent(c) = d /\ AtOrUnder(p, c) /\ AtOrUnder(c, d)
                          /\ Base(c) \in Names /\ c = Append(d, Base(c))
<1>1. /\ p \in Seq(Names) /\ Len(p) \in Nat
      /\ d \in Seq(Names) /\ Len(d) \in Nat
  BY PathSeq, LenProperties
<1>2. AtOrUnder(p, d) /\ Len(d) < Len(p)
  BY <1>1, UnderAt
<1>3. Len(d) + 1 \in 1 .. Len(p)
  BY <1>1, <1>2
<1>4. PICK c \in Paths :
        /\ Len(c) = Len(d) + 1 /\ AtOrUnder(p, c)
        /\ \A i \in 1 .. Len(d) + 1 : c[i] = p[i]
  BY <1>3, Above, Zenon
<1>5. c \in Seq(Names)
  BY PathSeq
<1>6. \A i \in 1 .. Len(d) : c[i] = d[i]
  BY <1>1, <1>2, <1>4, PrefixAt
<1>7. Base(c) \in Names
  BY <1>1, <1>4, <1>5 DEF Base
<1>8. c = Append(d, Base(c))
  BY <1>1, <1>4, <1>5, <1>6, <1>7, AppendProperties, SeqEqual DEF Base
<1>9. Parent(c) = d
  BY <1>1, <1>4, <1>5, <1>6, SeqEqual DEF Parent
<1>10. AtOrUnder(c, d)
  BY SMTT(30), <1>1, <1>4, <1>5, <1>6, PrefixAt
<1> QED BY <1>4, <1>7, <1>8, <1>9, <1>10

\* Two paths that a third is under are one under the other.
LEMMA Comparable ==
  ASSUME NEW p \in Seq(Names), NEW c \in Seq(Names), NEW d \in Seq(Names),
         AtOrUnder(p, c), AtOrUnder(p, d)
  PROVE  AtOrUnder(c, d) \/ Under(d, c)
<1>1. Len(p) \in Nat /\ Len(c) \in Nat /\ Len(d) \in Nat
  BY LenProperties
<1>2. CASE Len(d) <= Len(c)
  BY <1>1, <1>2, PrefixAt
<1>3. CASE Len(c) < Len(d)
  <2>1. AtOrUnder(d, c)
    BY <1>1, <1>3, PrefixAt
  <2> QED BY <1>3, <2>1, UnderAt
<1> QED BY <1>1, <1>2, <1>3

\* toPath moves a path to where it can be moved back from.
LEMMA Rebases ==
  ASSUME NEW p \in Seq(Names), NEW from \in Seq(Names), NEW to \in Seq(Names),
         AtOrUnder(p, from)
  PROVE  /\ Rebase(p, from, to) \in Seq(Names)
         /\ Len(Rebase(p, from, to)) = Len(p) - Len(from) + Len(to)
         /\ AtOrUnder(Rebase(p, from, to), to)
         /\ Rebase(Rebase(p, from, to), to, from) = p
         /\ \A i \in 1 .. Len(p) - Len(from) :
              Rebase(p, from, to)[Len(to) + i] = p[Len(from) + i]
<1> DEFINE a == Len(from)
           b == Len(to)
           n == Len(p)
           r == SubSeq(p, a + 1, n)
           q == to \o r
<1>1. /\ n \in Nat /\ a \in Nat /\ b \in Nat /\ a <= n
      /\ \A i \in 1 .. a : p[i] = from[i]
  BY LenProperties, PrefixAt
<1>2. r \in Seq(Names) /\ Len(r) = n - a /\ \A i \in 1 .. n - a : r[i] = p[a + i]
  <2>1. \A i \in a + 1 .. n : p[i] \in Names
    BY <1>1
  <2> QED BY <1>1, <2>1, SubSeqProperties
<1> HIDE DEF r
<1>3. /\ q \in Seq(Names) /\ Len(q) = n - a + b
      /\ \A i \in 1 .. b : q[i] = to[i]
      /\ \A i \in 1 .. n - a : q[b + i] = r[i]
  <2>1. /\ q \in Seq(Names) /\ Len(q) = b + Len(r)
        /\ \A i \in 1 .. b + Len(r) : q[i] = IF i <= b THEN to[i] ELSE r[i - b]
    BY <1>2, ConcatProperties, Zenon
  <2> HIDE DEF q
  <2>2. ASSUME NEW i \in 1 .. b
        PROVE  q[i] = to[i]
    <3>1. i \in 1 .. b + Len(r) /\ i <= b
      BY <1>1, <1>2
    <3> QED BY <2>1, <3>1, Zenon
  <2>3. ASSUME NEW i \in 1 .. n - a
        PROVE  q[b + i] = r[i]
    <3>1. b + i \in 1 .. b + Len(r) /\ ~(b + i <= b) /\ b + i - b = i
      BY <1>1, <1>2
    <3> DEFINE j == b + i
    <3>2. j \in 1 .. b + Len(r) /\ ~(j <= b) /\ j - b = i
      BY <3>1
    <3> HIDE DEF j
    <3>3. q[j] = r[j - b]
      BY <2>1, <3>2, Zenon
    <3>4. q[j] = r[i]
      BY <3>2, <3>3, Zenon
    <3> QED BY <3>4 DEF j
  <2>4. Len(q) = n - a + b
    BY <1>1, <1>2, <2>1
  <2> QED BY <2>1, <2>2, <2>3, <2>4, Zenon
<1> HIDE DEF q
<1>4. AtOrUnder(q, to)
  BY SMTT(30), <1>1, <1>3, PrefixAt
<1>5. SubSeq(q, b + 1, Len(q)) = r
  <2> DEFINE s == SubSeq(q, b + 1, Len(q))
  <2>1. \A i \in b + 1 .. Len(q) : q[i] \in Names
    BY <1>1, <1>3
  <2>2. s \in Seq(Names) /\ Len(s) = n - a /\ \A i \in 1 .. n - a : s[i] = q[b + i]
    BY <1>1, <1>3, <2>1, SubSeqProperties
  <2> HIDE DEF s
  <2>3. \A i \in 1 .. n - a : s[i] = r[i]
    BY <1>3, <2>2
  <2> QED BY <1>2, <2>2, <2>3, SeqEqual, Zenon DEF s
<1>6. from \o r = p
  <2>1. /\ from \o r \in Seq(Names) /\ Len(from \o r) = n
        /\ \A i \in 1 .. n : (from \o r)[i] = p[i]
    BY <1>1, <1>2
  <2> QED BY <2>1, SeqEqual, Zenon
<1>7. Rebase(p, from, to) = q /\ Rebase(q, to, from) = p
  BY <1>5, <1>6, Zenon DEF Rebase, q, r
<1> QED BY <1>2, <1>3, <1>4, <1>7

\* It keeps what is under what.
LEMMA RebaseUnder ==
  ASSUME NEW p \in Seq(Names), NEW c \in Seq(Names), NEW from \in Seq(Names),
         NEW to \in Seq(Names), AtOrUnder(c, from), Under(p, c)
  PROVE  AtOrUnder(p, from) /\ Under(Rebase(p, from, to), Rebase(c, from, to))
<1> DEFINE P == Rebase(p, from, to)
           C == Rebase(c, from, to)
           a == Len(from)
           b == Len(to)
<1>1. AtOrUnder(p, c) /\ Len(c) < Len(p)
  BY UnderAt
<1>2. AtOrUnder(p, from)
  BY <1>1, UnderTransitive
<1>3. /\ Len(p) \in Nat /\ Len(c) \in Nat /\ a \in Nat /\ b \in Nat
      /\ a <= Len(c) /\ \A i \in 1 .. Len(c) : p[i] = c[i]
  BY <1>1, LenProperties, PrefixAt
<1>4. /\ P \in Seq(Names) /\ Len(P) = Len(p) - a + b /\ AtOrUnder(P, to)
      /\ \A i \in 1 .. Len(p) - a : P[b + i] = p[a + i]
  <2>1. P \in Seq(Names) /\ Len(P) = Len(p) - a + b /\ AtOrUnder(P, to)
    BY <1>2, Rebases
  <2>2. \A i \in 1 .. Len(p) - a : P[b + i] = p[a + i]
    BY <1>2, Rebases
  <2> QED BY <2>1, <2>2, Zenon
<1>5. /\ C \in Seq(Names) /\ Len(C) = Len(c) - a + b /\ AtOrUnder(C, to)
      /\ \A i \in 1 .. Len(c) - a : C[b + i] = c[a + i]
  <2>1. C \in Seq(Names) /\ Len(C) = Len(c) - a + b /\ AtOrUnder(C, to)
    BY Rebases
  <2>2. \A i \in 1 .. Len(c) - a : C[b + i] = c[a + i]
    BY Rebases
  <2> QED BY <2>1, <2>2, Zenon
<1> HIDE DEF P, C
<1>6. ASSUME NEW j \in 1 .. Len(C)
      PROVE  P[j] = C[j]
  <2>1. CASE j <= b
    BY <1>3, <1>4, <1>5, <2>1, PrefixAt
  <2>2. CASE b < j
    <3>1. j - b \in 1 .. Len(c) - a /\ j - b \in 1 .. Len(p) - a
      BY <1>1, <1>3, <1>5, <2>2
    <3>2. C[b + (j - b)] = c[a + (j - b)] /\ P[b + (j - b)] = p[a + (j - b)]
      BY <1>4, <1>5, <3>1, Zenon
    <3>3. b + (j - b) = j /\ a + (j - b) \in 1 .. Len(c)
      BY <1>3, <3>1
    <3> QED BY <1>3, <3>2, <3>3
  <2> QED BY <1>3, <1>5, <2>1, <2>2
<1>7. Len(C) < Len(P) /\ Len(C) <= Len(P)
  BY <1>1, <1>3, <1>4, <1>5
<1>8. AtOrUnder(P, C)
  BY <1>4, <1>5, <1>6, <1>7, PrefixAt, Zenon
<1> QED BY <1>2, <1>4, <1>5, <1>7, <1>8, UnderAt DEF P, C
\* What is not moved too deep is moved to a path.
LEMMA RebasedPath ==
  ASSUME NEW p \in Paths, NEW from \in Paths, NEW to \in Paths,
         AtOrUnder(p, from), Len(p) - Len(from) + Len(to) <= MaxDepth
  PROVE  Rebase(p, from, to) \in Paths
<1>1. p \in Seq(Names) /\ from \in Seq(Names) /\ to \in Seq(Names)
  BY PathSeq, Zenon
<1>2. Len(p) \in Nat /\ Len(from) \in Nat /\ Len(to) \in Nat \ {0}
  BY <1>1, PathSeq, LenProperties, EmptySeq DEF NoPath
<1>3. Len(from) <= Len(p)
  BY <1>1, PrefixAt, Zenon
<1> DEFINE q == Rebase(p, from, to)
<1>4. q \in Seq(Names) /\ Len(q) = Len(p) - Len(from) + Len(to)
  BY <1>1, Rebases
<1> HIDE DEF q
<1>5. Len(q) <= MaxDepth /\ Len(q) # 0
  BY <1>2, <1>3, <1>4
<1>6. q # NoPath
  BY <1>4, <1>5, EmptySeq DEF NoPath
<1> QED BY <1>4, <1>5, <1>6, PathSeq, Zenon DEF q
----------------------------------------------------------------------------
(* What the handlers commit *)

New(kind) == [kind |-> kind, mode |-> "new", lowerRel |-> NoPath]

\* Create, Mkdir and Symlink make a node where nothing is shown.
LEMMA Makes ==
  ASSUME Create \/ Mkdir \/ Symlink
  PROVE  \E p \in mount.named, k \in Kinds :
           /\ InDir(p) /\ ~Present(p) /\ mount' = mount
           /\ upper' = SetNode(upper, p, New(k))
           /\ tree' = Put(tree, p, Made(k))
<1>1. ASSUME NEW op \in {"create", "mkdir", "symlink"}, Commit(Fresh(op))
      PROVE  \E p \in mount.named, k \in Kinds :
               /\ InDir(p) /\ ~Present(p) /\ mount' = mount
               /\ upper' = SetNode(upper, p, New(k))
               /\ tree' = Put(tree, p, Made(k))
  <2>1. PICK p \in mount.named :
          /\ InDir(p) /\ ~Present(p) /\ mount' = mount
          /\ upper' = Apply(upper, [op |-> op, path |-> p])
          /\ tree' = Reference(tree, [op |-> op, path |-> p])
    BY <1>1, Zenon DEF Commit, Fresh
  <2>2. CASE op = "create"
    <3>1. /\ upper' = SetNode(upper, p, New("file"))
          /\ tree' = Put(tree, p, Made("file"))
      BY <2>1, <2>2 DEF Apply, Reference, New
    <3> QED BY <2>1, <3>1, Zenon DEF Kinds
  <2>3. CASE op = "mkdir"
    <3>1. /\ upper' = SetNode(upper, p, New("dir"))
          /\ tree' = Put(tree, p, Made("dir"))
      BY <2>1, <2>3 DEF Apply, Reference, New
    <3> QED BY <2>1, <3>1, Zenon DEF Kinds
  <2>4. CASE op = "symlink"
    <3>1. /\ upper' = SetNode(upper, p, New("symlink"))
          /\ tree' = Put(tree, p, Made("symlink"))
      BY <2>1, <2>4 DEF Apply, Reference, New
    <3> QED BY <2>1, <3>1, Zenon DEF Kinds
  <2> QED BY <2>2, <2>3, <2>4, Zenon
<1> QED BY <1>1, Zenon DEF Create, Mkdir, Symlink

\* The tree after data was written at p.
Owned(p) == [q \in DOMAIN tree |-> [tree[q] EXCEPT !.own = @ \/ q = p]]

\* A write makes the node of a lower file.
LEMMA Writes ==
  ASSUME Write
  PROVE  \E p \in Writable :
           /\ mount' = mount /\ tree' = Owned(p) /\ "write" \in mount.requests
           /\ upper' = IF HasNode(upper, p) THEN upper
                       ELSE absorbOverride(upper, p, [kind |-> "file",
                              mode |-> "lower", lowerRel |-> p])
<1>1. PICK p \in Writable :
        LET e == [op |-> "write", path |-> p, fall |-> ~HasNode(upper, p)]
        IN /\ e.op \in mount.requests /\ mount' = mount
           /\ upper' = Apply(upper, e) /\ tree' = Reference(tree, e)
  BY Zenon DEF Write, Commit, WriteEvents
<1> DEFINE e == [op |-> "write", path |-> p, fall |-> ~HasNode(upper, p)]
<1>2. Apply(upper, e) = applyWrite(upper, e)
  BY DEF Apply
<1>3. Reference(tree, e) = Owned(p)
  BY Zenon DEF Reference, Owned
<1>4. applyWrite(upper, e) =
        IF HasNode(upper, p) THEN upper
        ELSE absorbOverride(upper, p, [kind |-> "file", mode |-> "lower",
                                       lowerRel |-> p])
  BY Zenon DEF applyWrite
<1> QED BY <1>1, <1>2, <1>3, <1>4

\* So does a truncation.
LEMMA Truncates ==
  ASSUME Truncate
  PROVE  \E p \in Writable :
           /\ mount' = mount /\ tree' = Owned(p) /\ "truncate" \in mount.requests
           /\ upper' = IF HasNode(upper, p) THEN upper
                       ELSE absorbOverride(upper, p, [kind |-> "file",
                              mode |-> "0644", lowerRel |-> p])
<1>1. PICK p \in Writable :
        LET e == [op |-> "truncate", path |-> p]
        IN /\ e.op \in mount.requests /\ mount' = mount
           /\ upper' = Apply(upper, e) /\ tree' = Reference(tree, e)
  BY Zenon DEF Truncate, Commit, TruncateEvents
<1> DEFINE e == [op |-> "truncate", path |-> p]
<1>2. Apply(upper, e) = applyTruncate(upper, e)
  BY DEF Apply
<1>3. Reference(tree, e) = Owned(p)
  BY DEF Reference, Owned
<1> QED BY <1>1, <1>2, <1>3 DEF applyTruncate

\* Chmod marks the node of a path, or its lower twin.
LEMMA Chmods ==
  ASSUME Chmod
  PROVE  \E p \in Paths :
           /\ Reached(p) /\ mount' = mount
           /\ tree' = [q \in DOMAIN tree |-> [tree[q] EXCEPT !.mode =
                         IF q = p THEN "set" ELSE @]]
           /\ upper' = IF HasNode(upper, p)
                       THEN [upper EXCEPT !.nodes[p].mode = "set"]
                       ELSE [upper EXCEPT !.overrides = @ \cup {p}]
<1>1. PICK p \in Paths :
        LET e == [op |-> "chmod", path |-> p]
        IN /\ Reached(p) /\ mount' = mount
           /\ upper' = Apply(upper, e) /\ tree' = Reference(tree, e)
  BY Zenon DEF Chmod, Commit, ChmodEvents
<1> DEFINE e == [op |-> "chmod", path |-> p]
<1>2. Apply(upper, e) = applyChmod(upper, e)
  BY DEF Apply
<1>3. Reference(tree, e) = [q \in DOMAIN tree |-> [tree[q] EXCEPT !.mode =
                              IF q = p THEN "set" ELSE @]]
  BY DEF Reference
<1> QED BY <1>1, <1>2, <1>3, Zenon DEF applyChmod

\* Unlink and Rmdir drop the node of a path, or whiteout it.
LEMMA Removes ==
  ASSUME Unlink \/ Rmdir
  PROVE  \E p \in Paths :
           /\ Reached(p) /\ mount' = mount
           /\ \/ KindOf(p) # "dir" /\ "unlink" \in mount.requests
              \/ KindOf(p) = "dir" /\ mergedEmpty(p)
           /\ tree' = Drop(tree, p)
           /\ upper' = IF HasNode(upper, p)
                       THEN [upper EXCEPT !.nodes = Drop(@, p)]
                       ELSE [upper EXCEPT !.whiteouts = @ \cup {p}]
<1>1. ASSUME NEW op \in {"unlink", "rmdir"}, NEW p \in Paths
      PROVE  LET e == [op |-> op, path |-> p] IN
             /\ Reference(tree, e) = Drop(tree, p)
             /\ Apply(upper, e) = IF HasNode(upper, p)
                                  THEN [upper EXCEPT !.nodes = Drop(@, p)]
                                  ELSE [upper EXCEPT !.whiteouts = @ \cup {p}]
  BY <1>1 DEF Apply, Reference, applyRemove
<1>2. CASE Unlink
  <2>1. PICK p \in Paths :
          LET e == [op |-> "unlink", path |-> p]
          IN /\ Reached(p) /\ KindOf(p) # "dir" /\ e.op \in mount.requests
             /\ mount' = mount
             /\ upper' = Apply(upper, e) /\ tree' = Reference(tree, e)
    BY <1>2, Zenon DEF Unlink, Commit, UnlinkEvents
  <2> QED BY <1>1, <2>1
<1>3. CASE Rmdir
  <2>1. PICK p \in Paths :
          LET e == [op |-> "rmdir", path |-> p]
          IN /\ Reached(p) /\ KindOf(p) = "dir" /\ mergedEmpty(p)
             /\ mount' = mount
             /\ upper' = Apply(upper, e) /\ tree' = Reference(tree, e)
    BY <1>3, Zenon DEF Rmdir, Commit, RmdirEvents, IsDir
  <2> QED BY <1>1, <2>1
<1> QED BY <1>2, <1>3, Zenon

\* applyRename, given whether from is backed by the lower tree.
Moved(u, from, to, backed) ==
  applyRename(u, [op |-> "rename", path |-> from, to |-> to,
                  fromLower |-> backed])

\* Rename moves an entry to a place it may replace.
LEMMA Renames ==
  ASSUME Rename
  PROVE  \E from \in Paths, to \in mount.named :
           /\ Reached(from) /\ InDir(to) /\ Replaces(from, to)
           /\ Fits(from, to) /\ (from = to \/ ~Under(to, from))
           /\ mount' = mount /\ "rename" \in mount.requests
           /\ upper' = Moved(upper, from, to, HasLower(from))
           /\ tree' = RefRename(tree, from, to)
<1>1. PICK pair \in Paths \X mount.named :
        LET e == [op |-> "rename", path |-> pair[1], to |-> pair[2],
                  fromLower |-> HasLower(pair[1])]
        IN /\ Reached(pair[1]) /\ InDir(pair[2]) /\ Replaces(pair[1], pair[2])
           /\ Fits(pair[1], pair[2])
           /\ e.op \in mount.requests /\ mount' = mount /\ Check(upper, e)
           /\ upper' = Apply(upper, e) /\ tree' = Reference(tree, e)
  BY Zenon DEF Rename, Commit, RenameEvents
<1> DEFINE from == pair[1]
           to == pair[2]
           backed == HasLower(from)
           e == [op |-> "rename", path |-> from, to |-> to, fromLower |-> backed]
<1>2. from \in Paths /\ to \in mount.named
  OBVIOUS
<1> HIDE DEF from, to, backed
<1>3. e.op = "rename" /\ e.path = from /\ e.to = to
  OBVIOUS
<1>4. /\ Check(upper, e) = checkRename(upper, e)
      /\ Apply(upper, e) = applyRename(upper, e)
      /\ Reference(tree, e) = RefRename(tree, from, to)
  BY DEF Check, Apply, Reference
<1>5. Check(upper, e) => from = to \/ ~Under(to, from)
  BY <1>3, <1>4, Zenon DEF checkRename
<1>6. Apply(upper, e) = Moved(upper, from, to, backed)
  BY <1>4, Zenon DEF Moved
<1>7. /\ Reached(from) /\ InDir(to) /\ Replaces(from, to) /\ Fits(from, to)
      /\ e.op \in mount.requests /\ mount' = mount /\ Check(upper, e)
      /\ upper' = Apply(upper, e) /\ tree' = Reference(tree, e)
  BY <1>1, Zenon DEF from, to, backed
<1> HIDE DEF e
<1>8. /\ "rename" \in mount.requests
      /\ upper' = Moved(upper, from, to, backed)
      /\ tree' = RefRename(tree, from, to)
  BY <1>3, <1>4, <1>6, <1>7, Zenon
<1>9. upper' = Moved(upper, from, to, HasLower(from))
  BY <1>8, Zenon DEF backed
<1> QED BY <1>2, <1>5, <1>7, <1>8, <1>9, Zenon
----------------------------------------------------------------------------
(* A step that concerns one path *)

\* From u to v nothing changes but the node, override and whiteout of p.
OnlyAt(u, v, p) ==
  /\ v.redirects = u.redirects
  /\ v.whiteouts \in {u.whiteouts, u.whiteouts \cup {p}}
  /\ \A q \in Paths \ {p} :
       /\ q \in DOMAIN v.nodes <=> q \in DOMAIN u.nodes
       /\ q \in DOMAIN u.nodes => v.nodes[q] = u.nodes[q]
       /\ q \in v.overrides <=> q \in u.overrides

\* SetNode
LEMMA SetsNode ==
  ASSUME NEW u, UpperType(u), NEW p \in Paths, NEW n \in Node
  PROVE  LET v == SetNode(u, p, n) IN
         /\ UpperType(v) /\ OnlyAt(u, v, p)
         /\ v.whiteouts = u.whiteouts /\ v.overrides = u.overrides
         /\ HasNode(v, p) /\ v.nodes[p] = n
<1> DEFINE v == SetNode(u, p, n)
<1>1. /\ DOMAIN v = DOMAIN u
      /\ v.redirects = u.redirects /\ v.whiteouts = u.whiteouts
      /\ v.overrides = u.overrides
      /\ v.nodes = [q \in DOMAIN u.nodes \cup {p} |->
                      IF q = p THEN n ELSE u.nodes[q]]
  BY DEF SetNode, UpperType
<1>2. /\ DOMAIN v.nodes = DOMAIN u.nodes \cup {p} /\ v.nodes[p] = n
      /\ \A q \in DOMAIN u.nodes \ {p} : v.nodes[q] = u.nodes[q]
  BY <1>1
<1> HIDE DEF v
<1>3. UpperType(v)
  BY <1>1, <1>2 DEF UpperType
<1>4. OnlyAt(u, v, p)
  BY <1>1, <1>2 DEF OnlyAt, UpperType
<1> QED BY <1>1, <1>2, <1>3, <1>4 DEF v, HasNode

\* absorbOverride
LEMMA Absorbs ==
  ASSUME NEW u, UpperType(u), NEW p \in Paths, NEW n \in Node
  PROVE  LET v == absorbOverride(u, p, n) IN
         /\ UpperType(v) /\ OnlyAt(u, v, p)
         /\ v.whiteouts = u.whiteouts /\ HasNode(v, p)
         /\ v.overrides = u.overrides \ {p}
         /\ v.nodes[p].kind = n.kind /\ v.nodes[p].lowerRel = n.lowerRel
         /\ p \in u.overrides => v.nodes[p].mode = "set"
         /\ p \notin u.overrides => v.nodes[p].mode = n.mode
<1> DEFINE w == [u EXCEPT !.overrides = @ \ {p}]
           m == IF p \in u.overrides THEN [n EXCEPT !.mode = "set"] ELSE n
<1>1. /\ w.nodes = u.nodes /\ w.redirects = u.redirects
      /\ w.whiteouts = u.whiteouts /\ w.overrides = u.overrides \ {p}
      /\ DOMAIN w = DOMAIN u
  BY DEF UpperType
<1>2. /\ m \in Node /\ m.kind = n.kind /\ m.lowerRel = n.lowerRel
      /\ p \in u.overrides => m.mode = "set"
      /\ p \notin u.overrides => m.mode = n.mode
  BY DEF Node, Modes
<1>3. absorbOverride(u, p, n) = SetNode(w, p, m)
  BY DEF absorbOverride
<1> HIDE DEF w, m
<1>4. UpperType(w)
  BY <1>1 DEF UpperType
<1> DEFINE v == SetNode(w, p, m)
<1>5. /\ UpperType(v) /\ OnlyAt(w, v, p)
      /\ v.whiteouts = w.whiteouts /\ v.overrides = w.overrides
      /\ HasNode(v, p) /\ v.nodes[p] = m
  BY <1>2, <1>4, SetsNode, Zenon
<1> HIDE DEF v
<1>6. OnlyAt(u, v, p)
  BY <1>1, <1>5 DEF OnlyAt
<1> QED BY <1>1, <1>2, <1>3, <1>5, <1>6, Zenon DEF v

\* applyChmod
LEMMA Marks ==
  ASSUME NEW u, UpperType(u), NEW p \in Paths
  PROVE  LET v == IF HasNode(u, p) THEN [u EXCEPT !.nodes[p].mode = "set"]
                  ELSE [u EXCEPT !.overrides = @ \cup {p}]
         IN /\ UpperType(v) /\ OnlyAt(u, v, p)
            /\ v.whiteouts = u.whiteouts
            /\ HasNode(v, p) <=> HasNode(u, p)
            /\ IF HasNode(u, p)
               THEN /\ v.nodes[p] = [u.nodes[p] EXCEPT !.mode = "set"]
                    /\ v.overrides = u.overrides
               ELSE v.overrides = u.overrides \cup {p}
<1>1. CASE HasNode(u, p)
  <2> DEFINE v == [u EXCEPT !.nodes[p].mode = "set"]
  <2>1. /\ DOMAIN v = DOMAIN u
        /\ v.redirects = u.redirects /\ v.whiteouts = u.whiteouts
        /\ v.overrides = u.overrides
        /\ v.nodes = [u.nodes EXCEPT ![p].mode = "set"]
    BY DEF UpperType
  <2>2. /\ DOMAIN v.nodes = DOMAIN u.nodes
        /\ v.nodes[p] = [u.nodes[p] EXCEPT !.mode = "set"]
        /\ \A q \in DOMAIN u.nodes \ {p} : v.nodes[q] = u.nodes[q]
    BY <1>1, <2>1 DEF HasNode
  <2>3. [u.nodes[p] EXCEPT !.mode = "set"] \in Node
    <3>1. u.nodes[p] \in Node
      BY <1>1, Zenon DEF UpperType, HasNode
    <3> QED BY <3>1 DEF Node, Modes
  <2> HIDE DEF v
  <2>4. UpperType(v)
    BY <2>1, <2>2, <2>3 DEF UpperType
  <2>5. OnlyAt(u, v, p)
    BY <2>1, <2>2, Zenon DEF OnlyAt, UpperType
  <2> QED BY <1>1, <2>1, <2>2, <2>4, <2>5 DEF v, HasNode
<1>2. CASE ~HasNode(u, p)
  <2> DEFINE v == [u EXCEPT !.overrides = @ \cup {p}]
  <2>1. /\ DOMAIN v = DOMAIN u
        /\ v.redirects = u.redirects /\ v.whiteouts = u.whiteouts
        /\ v.overrides = u.overrides \cup {p}
        /\ v.nodes = u.nodes
    BY DEF UpperType
  <2> HIDE DEF v
  <2>2. UpperType(v)
    BY <2>1 DEF UpperType
  <2>3. OnlyAt(u, v, p)
    BY <2>1 DEF OnlyAt, UpperType
  <2> QED BY <1>2, <2>1, <2>2, <2>3 DEF v, HasNode
<1> QED BY <1>1, <1>2, Zenon

\* applyRemove
LEMMA Drops ==
  ASSUME NEW u, UpperType(u), NEW p \in Paths
  PROVE  LET v == IF HasNode(u, p) THEN [u EXCEPT !.nodes = Drop(@, p)]
                  ELSE [u EXCEPT !.whiteouts = @ \cup {p}]
         IN /\ UpperType(v) /\ OnlyAt(u, v, p)
            /\ ~HasNode(v, p) /\ v.overrides = u.overrides
            /\ v.whiteouts = IF HasNode(u, p) THEN u.whiteouts
                             ELSE u.whiteouts \cup {p}
<1>1. CASE HasNode(u, p)
  <2> DEFINE v == [u EXCEPT !.nodes = Drop(@, p)]
  <2>1. /\ DOMAIN v = DOMAIN u
        /\ v.redirects = u.redirects /\ v.whiteouts = u.whiteouts
        /\ v.overrides = u.overrides
        /\ v.nodes = Drop(u.nodes, p)
    BY DEF UpperType
  <2>2. /\ DOMAIN v.nodes = DOMAIN u.nodes \ {p}
        /\ \A q \in DOMAIN u.nodes \ {p} : v.nodes[q] = u.nodes[q]
    BY <2>1 DEF Drop
  <2> HIDE DEF v
  <2>3. UpperType(v)
    BY <2>1, <2>2 DEF UpperType
  <2>4. OnlyAt(u, v, p)
    BY <2>1, <2>2, Zenon DEF OnlyAt, UpperType
  <2> QED BY <1>1, <2>1, <2>2, <2>3, <2>4 DEF v, HasNode
<1>2. CASE ~HasNode(u, p)
  <2> DEFINE v == [u EXCEPT !.whiteouts = @ \cup {p}]
  <2>1. /\ DOMAIN v = DOMAIN u
        /\ v.redirects = u.redirects /\ v.whiteouts = u.whiteouts \cup {p}
        /\ v.overrides = u.overrides
        /\ v.nodes = u.nodes
    BY DEF UpperType
  <2> HIDE DEF v
  <2>2. UpperType(v)
    BY <2>1 DEF UpperType
  <2>3. OnlyAt(u, v, p)
    BY <2>1 DEF OnlyAt, UpperType
  <2> QED BY <1>2, <2>1, <2>2, <2>3 DEF v, HasNode
<1> QED BY <1>1, <1>2, Zenon
----------------------------------------------------------------------------
(* A rename *)

\* Every key at or under from can be moved to under to.
Movable(S, from, to) ==
  \A p \in S : AtOrUnder(p, from) => Len(p) - Len(from) + Len(to) <= MaxDepth

\* MoveMap: each key of the result is a key that was not moved, or the new
\* name of one that was.
LEMMA MovesMap ==
  ASSUME NEW f, NEW from \in Paths, NEW to \in Paths,
         DOMAIN f \subseteq Paths, Movable(DOMAIN f, from, to)
  PROVE  LET g == MoveMap(f, from, to) IN
         /\ DOMAIN g \subseteq Paths
         /\ \A p \in DOMAIN f :
              IF AtOrUnder(p, from) THEN Rebase(p, from, to) \in DOMAIN g
              ELSE p \in DOMAIN g /\ g[p] = f[p]
         /\ \A q \in DOMAIN g :
              \/ q \in DOMAIN f /\ ~AtOrUnder(q, from) /\ g[q] = f[q]
              \/ /\ AtOrUnder(q, to) /\ Rebase(q, to, from) \in DOMAIN f
                 /\ AtOrUnder(Rebase(q, to, from), from)
                 /\ g[q] = f[Rebase(q, to, from)]
<1> DEFINE moved == {p \in DOMAIN f : AtOrUnder(p, from)}
           new == {Rebase(p, from, to) : p \in moved}
           g == MoveMap(f, from, to)
<1>1. /\ DOMAIN g = (DOMAIN f \ moved) \cup new
      /\ \A q \in DOMAIN g :
           g[q] = IF q \in DOMAIN f \ moved THEN f[q] ELSE f[Rebase(q, to, from)]
  BY DEF MoveMap
<1>2. ASSUME NEW q \in new
      PROVE  /\ q \in Paths /\ AtOrUnder(q, to)
             /\ Rebase(q, to, from) \in DOMAIN f
             /\ AtOrUnder(Rebase(q, to, from), from)
  <2>1. PICK p \in DOMAIN f : AtOrUnder(p, from) /\ q = Rebase(p, from, to)
    BY Zenon
  <2>2. p \in Paths /\ p \in Seq(Names) /\ from \in Seq(Names) /\ to \in Seq(Names)
    BY PathSeq, Zenon
  <2>3. AtOrUnder(q, to) /\ Rebase(q, to, from) = p
    BY <2>1, <2>2, Rebases, Zenon
  <2>4. q \in Paths
    BY <2>1, <2>2, RebasedPath, Zenon DEF Movable
  <2> QED BY <2>1, <2>3, <2>4, Zenon
<1>3. \A p \in moved : Rebase(p, from, to) \in new
  BY Zenon
<1>4. \A p \in DOMAIN f : AtOrUnder(p, from) <=> p \in moved
  BY Zenon
<1> HIDE DEF g, new, moved
<1>5. DOMAIN g \subseteq Paths
  BY <1>1, <1>2, Zenon
<1>6. \A p \in DOMAIN f :
        IF AtOrUnder(p, from) THEN Rebase(p, from, to) \in DOMAIN g
        ELSE p \in DOMAIN g /\ g[p] = f[p]
  BY <1>1, <1>3, <1>4, Zenon
<1>7. \A q \in DOMAIN g :
        \/ q \in DOMAIN f /\ ~AtOrUnder(q, from) /\ g[q] = f[q]
        \/ /\ AtOrUnder(q, to) /\ Rebase(q, to, from) \in DOMAIN f
           /\ AtOrUnder(Rebase(q, to, from), from)
           /\ g[q] = f[Rebase(q, to, from)]
  BY <1>1, <1>2, <1>4, Zenon
<1> QED BY <1>5, <1>6, <1>7, Zenon DEF g

\* It keeps the values.
LEMMA MovesValues ==
  ASSUME NEW f, NEW from \in Paths, NEW to \in Paths,
         DOMAIN f \subseteq Paths, Movable(DOMAIN f, from, to),
         NEW V, \A p \in DOMAIN f : f[p] \in V
  PROVE  /\ DOMAIN MoveMap(f, from, to) \subseteq Paths
         /\ \A q \in DOMAIN MoveMap(f, from, to) : MoveMap(f, from, to)[q] \in V
<1> DEFINE g == MoveMap(f, from, to)
<1>1. /\ DOMAIN g \subseteq Paths
      /\ \A q \in DOMAIN g :
           \/ q \in DOMAIN f /\ ~AtOrUnder(q, from) /\ g[q] = f[q]
           \/ /\ AtOrUnder(q, to) /\ Rebase(q, to, from) \in DOMAIN f
              /\ AtOrUnder(Rebase(q, to, from), from)
              /\ g[q] = f[Rebase(q, to, from)]
  BY MovesMap
<1> HIDE DEF g
<1>2. \A q \in DOMAIN g : g[q] \in V
  BY <1>1, Zenon
<1> QED BY <1>1, <1>2, Zenon DEF g

\* MoveSet
LEMMA MovesSet ==
  ASSUME NEW S, NEW moved, NEW from \in Paths, NEW to \in Paths,
         S \subseteq Paths, moved \subseteq S,
         \A p \in moved : AtOrUnder(p, from), Movable(S, from, to)
  PROVE  MoveSet(S, moved, from, to) \subseteq Paths
<1>1. ASSUME NEW p \in moved
      PROVE  Rebase(p, from, to) \in Paths
  BY RebasedPath, Zenon DEF Movable
<1> QED BY <1>1, Zenon DEF MoveSet

Redirect(f, from, to) ==
  [q \in DOMAIN f \cup {to} |-> IF q = to THEN from ELSE f[q]]
Below(S, dir) == {p \in S : Under(p, dir)}
AtBelow(S, dir) == {p \in S : AtOrUnder(p, dir)}

\* The parts of the overlay state after a rename.
LEMMA MovedParts ==
  ASSUME NEW u, NEW from, NEW to, NEW backed, from # to
  PROVE  LET v == Moved(u, from, to, backed)
             c == deleteSubtree(u, to)
         IN /\ DOMAIN v = {"nodes", "whiteouts", "overrides", "redirects"}
            /\ v.nodes = MoveMap(c.nodes, from, to)
            /\ v.redirects = IF ~subtreePresent(c, from)
                             THEN Redirect(c.redirects, from, to)
                             ELSE MoveMap(c.redirects, from, to)
            /\ v.whiteouts =
                 MoveSet(c.whiteouts, Below(c.whiteouts, from), from, to)
                 \cup (IF backed THEN {from} ELSE {})
            /\ v.overrides =
                 MoveSet(c.overrides, AtBelow(c.overrides, from), from, to)
            /\ c.nodes = Cleared(u.nodes, to)
            /\ c.redirects = Cleared(u.redirects, to)
            /\ c.whiteouts \subseteq u.whiteouts
            /\ c.overrides \subseteq u.overrides
<1> DEFINE c == deleteSubtree(u, to)
<1>1. /\ c.nodes = Cleared(u.nodes, to) /\ c.redirects = Cleared(u.redirects, to)
      /\ c.whiteouts = {p \in u.whiteouts : ~AtOrUnder(p, to)}
      /\ c.overrides = {p \in u.overrides : ~AtOrUnder(p, to)}
  BY DEF deleteSubtree
<1>2. c.whiteouts \subseteq u.whiteouts /\ c.overrides \subseteq u.overrides
  BY <1>1, Zenon
<1> HIDE DEF c
<1> DEFINE red == IF ~subtreePresent(c, from) THEN Redirect(c.redirects, from, to)
                  ELSE MoveMap(c.redirects, from, to)
           white == MoveSet(c.whiteouts, Below(c.whiteouts, from), from, to)
                      \cup (IF backed THEN {from} ELSE {})
           over == MoveSet(c.overrides, AtBelow(c.overrides, from), from, to)
           v == [nodes |-> MoveMap(c.nodes, from, to), redirects |-> red,
                 whiteouts |-> white, overrides |-> over]
<1>3. Moved(u, from, to, backed) = v
  BY DEF Moved, applyRename, c, Redirect, Below, AtBelow
<1> HIDE DEF red, white, over
<1>4. /\ DOMAIN v = {"nodes", "whiteouts", "overrides", "redirects"}
      /\ v.nodes = MoveMap(c.nodes, from, to) /\ v.redirects = red
      /\ v.whiteouts = white /\ v.overrides = over
  OBVIOUS
<1> HIDE DEF v
<1> QED BY <1>1, <1>2, <1>3, <1>4, Zenon DEF red, white, over, c

\* A rename leaves an overlay state.
LEMMA MovedType ==
  ASSUME NEW u, UpperType(u), NEW from \in Paths, NEW to \in Paths, NEW backed,
         Movable(DOMAIN u.nodes \cup DOMAIN u.redirects
                 \cup u.whiteouts \cup u.overrides, from, to)
  PROVE  UpperType(Moved(u, from, to, backed))
<1>1. CASE from = to
  <2>1. Moved(u, from, to, backed) = u
    BY <1>1 DEF Moved, applyRename
  <2> QED BY <2>1, Zenon
<1>2. CASE from # to
  <2> DEFINE v == Moved(u, from, to, backed)
             c == deleteSubtree(u, to)
             N == c.nodes
             R == c.redirects
             S == Redirect(R, from, to)
             W == Below(c.whiteouts, from)
             O == AtBelow(c.overrides, from)
  <2>1. /\ DOMAIN v = {"nodes", "whiteouts", "overrides", "redirects"}
        /\ v.nodes = MoveMap(N, from, to)
        /\ v.redirects = IF ~subtreePresent(c, from) THEN S
                         ELSE MoveMap(R, from, to)
        /\ v.whiteouts = MoveSet(c.whiteouts, W, from, to)
                           \cup (IF backed THEN {from} ELSE {})
        /\ v.overrides = MoveSet(c.overrides, O, from, to)
        /\ N = Cleared(u.nodes, to) /\ R = Cleared(u.redirects, to)
        /\ c.whiteouts \subseteq u.whiteouts
        /\ c.overrides \subseteq u.overrides
    BY <1>2, MovedParts
  <2> HIDE DEF v, c, N, R
  <2>2. /\ DOMAIN N \subseteq DOMAIN u.nodes /\ \A p \in DOMAIN N : N[p] = u.nodes[p]
        /\ DOMAIN R \subseteq DOMAIN u.redirects
        /\ \A p \in DOMAIN R : R[p] = u.redirects[p]
    BY <2>1, Zenon DEF Cleared
  <2>3. /\ DOMAIN S = DOMAIN R \cup {to}
        /\ \A q \in DOMAIN S : S[q] = from \/ (q \in DOMAIN R /\ S[q] = R[q])
    BY Zenon DEF Redirect
  <2>4. /\ W \subseteq c.whiteouts /\ \A p \in W : AtOrUnder(p, from)
        /\ O \subseteq c.overrides /\ \A p \in O : AtOrUnder(p, from)
    BY Zenon DEF Under, Below, AtBelow
  <2> HIDE DEF S, W, O
  <2>5. /\ DOMAIN u.nodes \subseteq Paths /\ u.whiteouts \subseteq Paths
        /\ u.overrides \subseteq Paths /\ DOMAIN u.redirects \subseteq Paths
        /\ \A p \in DOMAIN u.nodes : u.nodes[p] \in Node
        /\ \A p \in DOMAIN u.redirects : u.redirects[p] \in Paths
    BY Zenon DEF UpperType
  <2>6. /\ Movable(DOMAIN N, from, to) /\ Movable(DOMAIN R, from, to)
        /\ Movable(c.whiteouts, from, to) /\ Movable(c.overrides, from, to)
    BY <2>1, <2>2, Zenon DEF Movable
  <2>7. /\ DOMAIN v.nodes \subseteq Paths
        /\ \A q \in DOMAIN v.nodes : v.nodes[q] \in Node
    <3>1. DOMAIN N \subseteq Paths
      BY <2>2, <2>5, Zenon
    <3>2. \A p \in DOMAIN N : N[p] \in Node
      BY <2>2, <2>5, Zenon
    <3> QED BY <2>1, <2>6, <3>1, <3>2, MovesValues, Zenon
  <2>8. /\ DOMAIN v.redirects \subseteq Paths
        /\ \A q \in DOMAIN v.redirects : v.redirects[q] \in Paths
    <3>1. DOMAIN R \subseteq Paths
      BY <2>2, <2>5, Zenon
    <3>2. \A p \in DOMAIN R : R[p] \in Paths
      BY <2>2, <2>5, Zenon
    <3>3. CASE v.redirects = S
      BY <2>3, <3>1, <3>2, <3>3, Zenon
    <3>4. CASE v.redirects = MoveMap(R, from, to)
      BY <2>6, <3>1, <3>2, <3>4, MovesValues, Zenon
    <3> QED BY <2>1, <3>3, <3>4, Zenon
  <2>9. v.whiteouts \subseteq Paths
    <3>1. c.whiteouts \subseteq Paths
      BY <2>1, <2>5, Zenon
    <3>2. MoveSet(c.whiteouts, W, from, to) \subseteq Paths
      BY <2>4, <2>6, <3>1, MovesSet, Zenon
    <3> QED BY <2>1, <3>2, Zenon
  <2>10. v.overrides \subseteq Paths
    <3>1. c.overrides \subseteq Paths
      BY <2>1, <2>5, Zenon
    <3>2. MoveSet(c.overrides, O, from, to) \subseteq Paths
      BY <2>4, <2>6, <3>1, MovesSet, Zenon
    <3> QED BY <2>1, <3>2, Zenon
  <2> QED BY <2>1, <2>7, <2>8, <2>9, <2>10, Zenon DEF UpperType, v
<1> QED BY <1>1, <1>2, Zenon

\* RefRename: each entry of the result is where it was, or moved with from.
LEMMA TreeMoved ==
  ASSUME NEW t, NEW from, NEW to, from # to
  PROVE  LET r == RefRename(t, from, to) IN
         /\ DOMAIN r \subseteq Paths
         /\ \A q \in Paths :
              q \in DOMAIN r <=>
                /\ ~AtOrUnder(q, from)
                /\ IF AtOrUnder(q, to) THEN Rebase(q, to, from) \in DOMAIN t
                   ELSE q \in DOMAIN t
         /\ \A q \in DOMAIN r :
              r[q] = IF AtOrUnder(q, to) THEN t[Rebase(q, to, from)] ELSE t[q]
<1> DEFINE Was(p) == IF AtOrUnder(p, to) THEN Rebase(p, to, from) ELSE p
           r == RefRename(t, from, to)
<1>1. r = [p \in {q \in Paths : Was(q) \in DOMAIN t /\ ~AtOrUnder(q, from)} |->
             t[Was(p)]]
  BY Zenon DEF RefRename
<1>2. /\ \A q \in Paths : q \in DOMAIN r <=> Was(q) \in DOMAIN t /\ ~AtOrUnder(q, from)
      /\ DOMAIN r \subseteq Paths
      /\ \A q \in DOMAIN r : r[q] = t[Was(q)]
  BY <1>1, Zenon
<1> HIDE DEF r
<1> QED BY <1>2, Zenon DEF r
----------------------------------------------------------------------------
(* The merged view when nothing was renamed *)

\* Without redirects a path is its own lower path.
LEMMA OwnLowerPath ==
  ASSUME NEW u, DOMAIN u.redirects = {}, NEW p
  PROVE  LowerPath(u, p) = p
  BY Zenon DEF LowerPath

\* A step that concerns another path leaves the view at q alone.
LEMMA Untouched ==
  ASSUME DOMAIN upper.redirects = {}, mount' = mount,
         NEW p \in Paths, OnlyAt(upper, upper', p),
         NEW q \in Paths, q # p,
         upper'.whiteouts = upper.whiteouts \/ ~AtOrUnder(q, p)
  PROVE  /\ HasNode(upper, q)' <=> HasNode(upper, q)
         /\ HasNode(upper, q) => upper'.nodes[q] = upper.nodes[q]
         /\ Hidden(upper, q)' <=> Hidden(upper, q)
         /\ Present(q)' <=> Present(q)
         /\ KindOf(q)' = KindOf(q) /\ ReadsFrom(q)' = ReadsFrom(q)
         /\ ModeOf(q)' = ModeOf(q)
<1>1. /\ HasNode(upper, q)' <=> HasNode(upper, q)
      /\ HasNode(upper, q) => upper'.nodes[q] = upper.nodes[q]
      /\ q \in upper'.overrides <=> q \in upper.overrides
  BY Zenon DEF OnlyAt, HasNode
<1>2. Hidden(upper, q)' <=> Hidden(upper, q)
  BY Zenon DEF OnlyAt, Hidden
<1>3. /\ \A x : LowerPath(upper, x) = x /\ LowerPath(upper, x)' = x
      /\ Lower' = Lower
  <2>1. upper'.redirects = upper.redirects
    BY Zenon DEF OnlyAt
  <2>2. \A x : LowerPath(upper', x) = x
    BY <2>1, OwnLowerPath, Zenon
  <2> QED BY <2>2, OwnLowerPath, Zenon DEF Lower
<1>4. Present(q)' <=> Present(q)
  BY <1>1, <1>2, <1>3, Zenon DEF Present, HasLower
<1>5. KindOf(q)' = KindOf(q)
  BY <1>1, <1>3, Zenon DEF KindOf
<1>6. ModeOf(q)' = ModeOf(q)
  BY <1>1, Zenon DEF ModeOf
<1>7. ReadsFrom(q)' = ReadsFrom(q)
  BY <1>1, <1>3, Zenon DEF ReadsFrom
<1> QED BY <1>1, <1>2, <1>4, <1>5, <1>6, <1>7, Zenon

\* Every path that is shown can be reached, and the directories above it are
\* shown as such.
LEMMA ReachedTree ==
  ASSUME Agree, NEW p \in Paths
  PROVE  /\ p \in DOMAIN tree <=> Present(p)
         /\ Reached(p) <=> Present(p)
         /\ p \in DOMAIN tree => tree[p].kind = KindOf(p)
         /\ InDir(p) => Parent(p) = NoPath \/ (/\ Parent(p) \in DOMAIN tree
                                               /\ tree[Parent(p)].kind = "dir")
<1>1. \A q \in Paths : q \in DOMAIN tree <=> Present(q)
  BY Zenon DEF Agree
<1>2. \A q \in DOMAIN tree : tree[q].kind = KindOf(q)
  BY Zenon DEF Agree, SameAt
<1>3. ASSUME NEW q \in Paths, Present(q)
      PROVE  Reached(q)
  <2> SUFFICES ASSUME NEW n \in 1 .. Len(q) - 1
               PROVE  IsDir(SubSeq(q, 1, n))
    BY <1>3, Zenon DEF Reached
  <2>1. q \in Seq(Names) /\ Len(q) \in Nat
    BY PathSeq, LenProperties
  <2>2. n \in 1 .. Len(q) /\ n < Len(q)
    BY <2>1
  <2> DEFINE d == SubSeq(q, 1, n)
  <2>3. d \in Paths /\ Len(d) = n /\ AtOrUnder(q, d)
    BY <2>2, Above, Zenon
  <2> HIDE DEF d
  <2>4. Under(q, d)
    BY SMTT(30), <2>1, <2>2, <2>3, UnderAt, PathSeq
  <2>5. d \in DOMAIN tree /\ tree[d].kind = "dir"
    BY <1>1, <1>3, <2>3, <2>4, Zenon DEF Agree, Ordinary
  <2> QED BY <1>1, <1>2, <2>3, <2>5, Zenon DEF d, IsDir
<1>4. ASSUME InDir(p), Parent(p) # NoPath
      PROVE  Parent(p) \in DOMAIN tree /\ tree[Parent(p)].kind = "dir"
  <2>1. Present(Parent(p)) /\ KindOf(Parent(p)) = "dir"
    BY <1>4, Zenon DEF InDir, IsDir
  <2>2. Parent(p) \in Paths
    <3>1. /\ p \in Seq(Names) /\ Len(p) \in Nat \ {0} /\ Len(p) <= MaxDepth
      BY PathSeq, LenProperties, EmptySeq DEF NoPath
    <3>2. Len(p) - 1 # 0
      <4>1. SubSeq(p, 1, 0) = << >>
        BY SubSeqEmpty
      <4> QED BY <1>4, <4>1, Zenon DEF Parent, NoPath
    <3>3. Len(p) - 1 \in 1 .. Len(p)
      BY ONLY SMTT(30), <3>1, <3>2
    <3> QED BY <3>3, Above, Zenon DEF Parent
  <2> QED BY <1>1, <1>2, <2>1, <2>2, Zenon
<1> QED BY <1>1, <1>2, <1>3, <1>4, Zenon DEF Reached

\* Nothing is shown under an entry that is no directory, or an empty one.
LEMMA NothingUnder ==
  ASSUME TypeOK, Agree, NEW p \in DOMAIN tree,
         KindOf(p) # "dir" \/ mergedEmpty(p), NEW q \in Paths, Under(q, p)
  PROVE  ~Present(q)
<1> SUFFICES ASSUME Present(q)
             PROVE  FALSE
  BY Zenon
<1>1. p \in Paths /\ q \in DOMAIN tree
  BY Zenon DEF Agree
<1>2. CASE KindOf(p) # "dir"
  BY <1>1, <1>2, Zenon DEF Agree, Ordinary, SameAt
<1>3. CASE mergedEmpty(p)
  <2>1. PICK c \in Paths : /\ Parent(c) = p /\ AtOrUnder(q, c) /\ AtOrUnder(c, p)
                           /\ Base(c) \in Names /\ c = Append(p, Base(c))
    BY <1>1, ChildAbove, Zenon
  <2>2. q = c \/ Under(q, c)
    BY <2>1, UnderAt, PathSeq, Zenon
  <2>3. Present(c)
    BY <1>1, <2>2, Zenon DEF Agree, Ordinary
  <2>4. c # NoPath
    BY PathSeq, Zenon
  <2>5. ~HasNode(upper, c)
    BY <1>3, <2>1, <2>4, Zenon DEF mergedEmpty, ChildrenIn, HasNode
  <2>6. c \in DOMAIN Lower /\ ~Hidden(upper, c)
    BY <2>3, <2>5, OwnLowerPath, Zenon DEF Present, HasLower, Agree
  <2>7. ~Hidden(upper, p)
    <3>1. ASSUME NEW w \in upper.whiteouts, AtOrUnder(p, w)
          PROVE  AtOrUnder(c, w)
      <4>1. w \in Seq(Names) /\ c \in Seq(Names) /\ p \in Seq(Names)
        BY <1>1, PathSeq, Zenon DEF TypeOK, UpperType
      <4> QED BY <2>1, <3>1, <4>1, UnderTransitive, Zenon
    <3> QED BY <2>6, <3>1, Zenon DEF Hidden
  <2>8. c \in LowerNames(p)
    <3>1. LowerPath(upper, p) = p
      BY OwnLowerPath, Zenon DEF Agree
    <3> QED BY <2>1, <2>6, <3>1, Zenon DEF LowerNames
  <2>9. c \in upper.whiteouts
    BY <1>3, <2>7, <2>8, Zenon DEF mergedEmpty, White, ChildrenIn
  <2>10. AtOrUnder(c, c)
    BY UnderAt, PathSeq, Zenon
  <2> QED BY <2>6, <2>9, <2>10, Zenon DEF Hidden
<1> QED BY <1>2, <1>3, Zenon
----------------------------------------------------------------------------
(* Agree is inductive: requests other than rename *)

\* What is left to show of a step that concerns path p.
LEMMA AgreeAt ==
  ASSUME TypeOK, Agree, UpperType(upper'), mount' = mount,
         NEW p \in Paths, OnlyAt(upper, upper', p),
         upper'.whiteouts = upper.whiteouts
           \/ \A q \in Paths : Under(q, p) => ~Present(q),
         \A q \in Paths \ {p} : /\ q \in DOMAIN tree' <=> q \in DOMAIN tree
                                /\ q \in DOMAIN tree => tree'[q] = tree[q],
         DOMAIN tree' \subseteq Paths, Ordinary(tree'),
         p \in DOMAIN tree' <=> Present(p)',
         p \in DOMAIN tree' => SameAt(p)',
         HasNode(upper, p)' => NodeSound(p)',
         Bare(mount) => upper'.whiteouts = {} /\ upper'.overrides = {}
  PROVE  Agree'
<1>1. DOMAIN upper'.redirects = {}
  BY Zenon DEF Agree, OnlyAt
<1>2. \A q \in Paths : q \in DOMAIN tree <=> Present(q)
  BY Zenon DEF Agree
<1>3. ASSUME NEW q \in Paths \ {p},
             upper'.whiteouts = upper.whiteouts \/ ~AtOrUnder(q, p)
      PROVE  /\ Present(q)' <=> q \in DOMAIN tree'
             /\ q \in DOMAIN tree' => SameAt(q)'
             /\ HasNode(upper, q)' => NodeSound(q)'
  <2>1. /\ HasNode(upper, q)' <=> HasNode(upper, q)
        /\ HasNode(upper, q) => upper'.nodes[q] = upper.nodes[q]
        /\ Hidden(upper, q)' <=> Hidden(upper, q)
        /\ Present(q)' <=> Present(q)
        /\ KindOf(q)' = KindOf(q) /\ ReadsFrom(q)' = ReadsFrom(q)
        /\ ModeOf(q)' = ModeOf(q)
    BY <1>3, Untouched, Zenon DEF Agree
  <2>2. q \in DOMAIN tree' => SameAt(q)'
    <3>1. q \in DOMAIN tree' => SameAt(q) /\ tree'[q] = tree[q]
      BY Zenon DEF Agree
    <3>2. HasNode(upper, q)' = HasNode(upper, q)
      BY <2>1 DEF HasNode
    <3>3. KeepsModes(mount)' = KeepsModes(mount)
      BY Zenon
    <3> QED BY <2>1, <3>1, <3>2, <3>3, Zenon DEF SameAt
  <2>3. HasNode(upper, q)' => NodeSound(q)'
    <3>1. HasNode(upper, q) => NodeSound(q)
      BY Zenon DEF Agree, HasNode
    <3> QED BY <2>1, <3>1, Zenon DEF NodeSound, Lower
  <2> QED BY <1>2, <2>1, <2>2, <2>3, Zenon
<1>4. ASSUME NEW q \in Paths \ {p}, upper'.whiteouts # upper.whiteouts,
             AtOrUnder(q, p)
      PROVE  ~Present(q)' /\ q \notin DOMAIN tree' /\ ~HasNode(upper, q)'
  <2>1. Under(q, p)
    BY <1>4, UnderAt, PathSeq, Zenon
  <2>2. ~Present(q)
    BY <1>4, <2>1, Zenon
  <2>3. ~HasNode(upper, q)'
    BY <2>2, Zenon DEF Present, OnlyAt, HasNode
  <2>4. p \in upper'.whiteouts
    BY <1>4, Zenon DEF OnlyAt
  <2>5. Hidden(upper, q)'
    BY <1>4, <2>4, Zenon DEF Hidden
  <2> QED BY <1>2, <2>2, <2>3, <2>5, Zenon DEF Present
<1>5. \A q \in Paths : /\ Present(q)' <=> q \in DOMAIN tree'
                       /\ q \in DOMAIN tree' => SameAt(q)'
                       /\ HasNode(upper, q)' => NodeSound(q)'
  BY <1>3, <1>4, Zenon
<1>6. DOMAIN upper'.nodes \subseteq Paths
  BY Zenon DEF UpperType
<1>7. /\ DOMAIN tree' = {q \in Paths : Present(q)}'
      /\ \A q \in DOMAIN tree' : SameAt(q)'
      /\ \A q \in DOMAIN upper'.nodes : NodeSound(q)'
  BY <1>5, <1>6, Zenon DEF HasNode
<1> QED BY <1>1, <1>7, Zenon DEF Agree

\* Create, Mkdir and Symlink.
LEMMA AgreeMakes ==
  ASSUME TypeOK, Agree, Create \/ Mkdir \/ Symlink
  PROVE  Agree'
<1>1. PICK p \in mount.named, k \in Kinds :
           /\ InDir(p) /\ ~Present(p) /\ mount' = mount
           /\ upper' = SetNode(upper, p, New(k))
           /\ tree' = Put(tree, p, Made(k))
  BY Makes, Zenon
<1>2. p \in Paths
  BY MountAssumption, Zenon DEF TypeOK
<1>3. New(k) \in Node
  BY DEF New, Node, Modes
<1>4. /\ UpperType(upper') /\ OnlyAt(upper, upper', p)
      /\ upper'.whiteouts = upper.whiteouts /\ upper'.overrides = upper.overrides
      /\ HasNode(upper', p) /\ upper'.nodes[p] = New(k)
  <2>1. UpperType(upper)
    BY Zenon DEF TypeOK
  <2> QED BY <1>1, <1>2, <1>3, <2>1, SetsNode
<1>0. /\ New(k).kind = k /\ New(k).mode = "new" /\ New(k).lowerRel = NoPath
      /\ Made(k).kind = k /\ Made(k).mode = "new" /\ Made(k).base = NoPath
      /\ Made(k).own = TRUE
  BY DEF New, Made
<1>5. /\ DOMAIN tree' = DOMAIN tree \cup {p} /\ tree'[p] = Made(k)
      /\ \A q \in DOMAIN tree \ {p} : tree'[q] = tree[q]
  BY <1>1, Zenon DEF Put
<1>6. Ordinary(tree')
  <2> SUFFICES ASSUME NEW x \in DOMAIN tree', NEW q \in Paths, Under(x, q)
               PROVE  q \in DOMAIN tree' /\ tree'[q].kind = "dir"
    BY Zenon DEF Ordinary
  <2>1. p \notin DOMAIN tree
    BY <1>1, <1>2, ReachedTree, Zenon
  <2>2. q \in DOMAIN tree /\ tree[q].kind = "dir"
    <3>1. CASE x = p
      <4>1. Parent(p) \in Paths /\ (q = Parent(p) \/ Under(Parent(p), q))
        BY <1>2, <3>1, AboveParent, Zenon
      <4>2. Parent(p) # NoPath
        BY <4>1, PathSeq, Zenon
      <4>3. Parent(p) \in DOMAIN tree /\ tree[Parent(p)].kind = "dir"
        BY <1>1, <1>2, <4>2, ReachedTree, Zenon
      <4> QED BY <4>1, <4>3, Zenon DEF Agree, Ordinary
    <3>2. CASE x # p
      BY <1>5, <3>2, Zenon DEF Agree, Ordinary
    <3> QED BY <3>1, <3>2, Zenon
  <2> QED BY <1>5, <2>1, <2>2, Zenon
<1>7. DOMAIN upper.redirects = {} /\ DOMAIN upper'.redirects = {}
  BY <1>4, Zenon DEF Agree, OnlyAt
<1>8. NodeSound(p)'
  <2>1. Hidden(upper, p) \/ p \notin DOMAIN Lower
    BY <1>1, <1>7, OwnLowerPath, Zenon DEF Present, HasLower
  <2>2. Hidden(upper, p)' <=> Hidden(upper, p)
    BY <1>4, Zenon DEF Hidden
  <2>3. Lower' = Lower /\ upper'.nodes[p].lowerRel = NoPath
    BY <1>0, <1>1, <1>4, Zenon DEF Lower
  <2> QED BY <2>1, <2>2, <2>3, Zenon DEF NodeSound
<1>9. SameAt(p)'
  <2>1. NoPath \notin DOMAIN Lower'
    BY <1>1, PathSeq, MountAssumption, Zenon DEF TypeOK, Lower
  <2>2. LowerPath(upper', NoPath) = NoPath
    BY <1>7, OwnLowerPath, Zenon
  <2>3. ReadsFrom(p)' = NoPath
    BY <1>0, <1>4, <2>1, <2>2, Zenon DEF ReadsFrom
  <2>4. KindOf(p)' = k /\ ModeOf(p)' = "new"
    BY <1>0, <1>4, Zenon DEF KindOf, ModeOf
  <2>5. HasNode(upper, p)' = TRUE
    BY <1>4, Zenon DEF HasNode
  <2> QED BY <1>0, <1>5, <2>3, <2>4, <2>5, Zenon DEF SameAt
<1>10. Present(p)'
  BY <1>4, Zenon DEF Present
<1>11. DOMAIN tree \subseteq Paths
  BY Zenon DEF TypeOK
<1>12. Bare(mount) => upper'.whiteouts = {} /\ upper'.overrides = {}
  BY <1>4, Zenon DEF Agree
<1> QED BY <1>1, <1>2, <1>4, <1>5, <1>6, <1>8, <1>9, <1>10, <1>11, <1>12,
           AgreeAt, Zenon

\* absorbOverride makes the node of lower file p.
Sparse(p, mode) ==
  /\ UpperType(upper') /\ OnlyAt(upper, upper', p)
  /\ upper'.whiteouts = upper.whiteouts /\ HasNode(upper', p)
  /\ upper'.overrides = upper.overrides \ {p}
  /\ upper'.nodes[p].kind = "file" /\ upper'.nodes[p].lowerRel = p
  /\ p \in upper.overrides => upper'.nodes[p].mode = "set"
  /\ p \notin upper.overrides => upper'.nodes[p].mode = mode

\* What absorbOverride does with the node of a first write.
LEMMA SparseNode ==
  ASSUME UpperType(upper), NEW p \in Paths, NEW mode \in Modes,
         upper' = absorbOverride(upper, p, [kind |-> "file", mode |-> mode,
                                            lowerRel |-> p])
  PROVE  Sparse(p, mode)
<1> DEFINE n == [kind |-> "file", mode |-> mode, lowerRel |-> p]
<1>1. n \in Node /\ n.kind = "file" /\ n.lowerRel = p /\ n.mode = mode
  BY DEF Node, Kinds
<1>2. upper' = absorbOverride(upper, p, n)
  BY Zenon
<1> HIDE DEF n
<1> DEFINE v == absorbOverride(upper, p, n)
<1>3. /\ UpperType(v) /\ OnlyAt(upper, v, p)
      /\ v.whiteouts = upper.whiteouts /\ HasNode(v, p)
      /\ v.overrides = upper.overrides \ {p}
      /\ v.nodes[p].kind = n.kind /\ v.nodes[p].lowerRel = n.lowerRel
      /\ p \in upper.overrides => v.nodes[p].mode = "set"
      /\ p \notin upper.overrides => v.nodes[p].mode = n.mode
  BY <1>1, Absorbs
<1> HIDE DEF v
<1>4. upper' = v
  BY <1>2, Zenon DEF v
<1> QED BY <1>1, <1>3, <1>4, Zenon DEF Sparse

\* A write or truncation of p, which has no node yet.
LEMMA AgreeSparse ==
  ASSUME TypeOK, Agree, mount' = mount, NEW p \in Writable, NEW mode,
         ~HasNode(upper, p), tree' = Owned(p), Sparse(p, mode), Alters(mount),
         mode = "lower" \/ "truncate" \in mount.requests
  PROVE  Agree'
<1>1. p \in Paths /\ Present(p) /\ KindOf(p) = "file"
  BY Zenon DEF Writable, Reached
<1>2. p \in upper.overrides => upper'.nodes[p].mode = "set"
  BY Zenon DEF Sparse
<1>3. p \notin upper.overrides => upper'.nodes[p].mode = mode
  BY Zenon DEF Sparse
<1>4. /\ UpperType(upper') /\ OnlyAt(upper, upper', p)
      /\ upper'.whiteouts = upper.whiteouts /\ HasNode(upper', p)
      /\ upper'.nodes[p].kind = "file" /\ upper'.nodes[p].lowerRel = p
  BY Zenon DEF Sparse
<1>5. DOMAIN upper.redirects = {} /\ DOMAIN upper'.redirects = {}
  BY <1>4, Zenon DEF Agree, OnlyAt
<1>6. LowerPath(upper, p) = p /\ LowerPath(upper', p) = p /\ Lower' = Lower
  BY <1>5, OwnLowerPath, Zenon DEF Lower
<1>7. p \in DOMAIN Lower /\ Lower[p] = "file"
  BY <1>1, <1>6, Zenon DEF Present, HasLower, KindOf
<1>8. p \in DOMAIN tree /\ SameAt(p)
  BY <1>1, Zenon DEF Agree
<1>9. /\ DOMAIN tree' = DOMAIN tree
      /\ \A q \in DOMAIN tree : tree'[q] = [tree[q] EXCEPT !.own = @ \/ q = p]
  BY Zenon DEF Owned
<1>10. ASSUME NEW q \in DOMAIN tree
       PROVE  /\ tree'[q].kind = tree[q].kind /\ tree'[q].base = tree[q].base
              /\ tree'[q].mode = tree[q].mode
              /\ q = p => tree'[q].own = TRUE
              /\ q # p => tree'[q] = tree[q]
  <2>1. tree[q] \in Entry
    BY Zenon DEF TypeOK
  <2>2. tree'[q] = [tree[q] EXCEPT !.own = tree[q].own \/ q = p]
    BY <1>9, Zenon
  <2>3. CASE q = p
    <3>1. tree'[q] = [tree[q] EXCEPT !.own = TRUE]
      BY <2>2, <2>3, Zenon
    <3> QED BY <2>1, <2>3, <3>1 DEF Entry
  <2>4. CASE q # p
    <3>1. (tree[q].own \/ q = p) = tree[q].own
      BY <2>1, <2>4 DEF Entry
    <3>2. tree'[q] = [tree[q] EXCEPT !.own = tree[q].own]
      BY <2>2, <3>1, Zenon
    <3> QED BY SMTT(30), <2>1, <2>4, <3>2 DEF Entry
  <2> QED BY <2>3, <2>4, Zenon
<1>11. Ordinary(tree')
  <2>1. \A q \in DOMAIN tree : tree'[q].kind = tree[q].kind
    BY <1>10, Zenon
  <2> QED BY <1>9, <2>1, Zenon DEF Agree, Ordinary
<1>12. NodeSound(p)'
  BY <1>4, <1>6, <1>7, Zenon DEF NodeSound
<1>13. SameAt(p)'
  <2>1. KindOf(p)' = "file" /\ KindOf(p) = "file"
    BY <1>1, <1>4, Zenon DEF KindOf
  <2>2. ReadsFrom(p)' = p
    <3>1. Lower[p] # "dir"
      BY <1>7
    <3> QED BY <1>4, <1>6, <1>7, <3>1, Zenon DEF ReadsFrom
  <2>3. ReadsFrom(p) = p
    <3>1. Lower[p] # "dir"
      BY <1>7
    <3> QED BY <1>6, <1>7, <3>1, Zenon DEF ReadsFrom
  <2>4. KeepsModes(mount) => ModeOf(p)' = ModeOf(p)
    <3>1. ASSUME KeepsModes(mount)
          PROVE  mode = "lower"
      BY <1>7, <3>1, Zenon DEF KeepsModes, Bare, Lower
    <3> QED BY <1>2, <1>3, <1>4, <3>1, Zenon DEF ModeOf
  <2>5. HasNode(upper, p)' = TRUE
    BY <1>4, Zenon DEF HasNode
  <2>6. KeepsModes(mount)' = KeepsModes(mount)
    BY Zenon
  <2>7. /\ tree[p].kind = KindOf(p) /\ tree[p].base = ReadsFrom(p)
        /\ KeepsModes(mount) => tree[p].mode = ModeOf(p)
    BY <1>8, Zenon DEF SameAt
  <2> QED BY <1>8, <1>10, <2>1, <2>2, <2>3, <2>4, <2>5, <2>6, <2>7, Zenon
             DEF SameAt
<1>14. Present(p)'
  BY <1>4, Zenon DEF Present
<1>15. DOMAIN tree \subseteq Paths
  BY Zenon DEF TypeOK
<1>16. Bare(mount) => upper'.whiteouts = {} /\ upper'.overrides = {}
  BY <1>7, Zenon DEF Bare, Lower
<1>17. DOMAIN tree' \subseteq Paths
  BY <1>9, <1>15, Zenon
<1>18. \A q \in Paths \ {p} :
         /\ q \in DOMAIN tree' <=> q \in DOMAIN tree
         /\ q \in DOMAIN tree => tree'[q] = tree[q]
  BY <1>9, <1>10, Zenon
<1> QED BY <1>1, <1>4, <1>8, <1>9, <1>11, <1>12, <1>13, <1>14, <1>16, <1>17,
           <1>18, AgreeAt, Zenon

\* A write or truncation of p, which has its node.
LEMMA AgreeOwned ==
  ASSUME TypeOK, Agree, mount' = mount, NEW p \in Writable,
         HasNode(upper, p), tree' = Owned(p), upper' = upper
  PROVE  Agree'
<1>1. p \in DOMAIN tree /\ SameAt(p)
  BY Zenon DEF Writable, Reached, Agree
<1>2. ASSUME NEW q \in DOMAIN tree
      PROVE  tree'[q] = tree[q]
  <2>1. tree[q] \in Entry
    BY Zenon DEF TypeOK
  <2>2. q = p => tree[q].own = TRUE
    BY <1>1, Zenon DEF SameAt
  <2>3. tree'[q] = [tree[q] EXCEPT !.own = @ \/ q = p]
    BY Zenon DEF Owned
  <2> QED BY <2>1, <2>2, <2>3 DEF Entry
<1>3. DOMAIN tree' = DOMAIN tree
  BY Zenon DEF Owned
<1>4. /\ \A q \in DOMAIN tree : SameAt(q)'
      /\ Ordinary(tree')
      /\ DOMAIN tree' = {q \in Paths : Present(q)}'
      /\ \A q \in DOMAIN upper.nodes : NodeSound(q)'
  <2>1. \A q \in DOMAIN tree : SameAt(q)'
    <3>1. \A q \in DOMAIN tree :
            /\ SameAt(q) /\ KindOf(q)' = KindOf(q) /\ ReadsFrom(q)' = ReadsFrom(q)
            /\ HasNode(upper, q)' = HasNode(upper, q) /\ ModeOf(q)' = ModeOf(q)
      BY Zenon DEF Agree, KindOf, ReadsFrom, HasNode, ModeOf, Lower
    <3>2. KeepsModes(mount)' = KeepsModes(mount)
      BY Zenon
    <3> QED BY <1>2, <3>1, <3>2, Zenon DEF SameAt
  <2>2. Ordinary(tree')
    BY <1>2, <1>3, Zenon DEF Agree, Ordinary
  <2>3. \A q \in Paths : Present(q)' = Present(q)
    BY Zenon DEF Present, HasLower, Lower
  <2>4. \A q \in DOMAIN upper.nodes : NodeSound(q)'
    BY Zenon DEF Agree, NodeSound, Lower
  <2> QED BY <1>3, <2>1, <2>2, <2>3, <2>4, Zenon DEF Agree
<1> QED BY <1>3, <1>4, Zenon DEF Agree

\* Write and Truncate.
LEMMA AgreeWrites ==
  ASSUME TypeOK, Agree, Write \/ Truncate
  PROVE  Agree'
<1>1. CASE Write
  <2>1. PICK p \in Writable :
          /\ mount' = mount /\ tree' = Owned(p) /\ "write" \in mount.requests
          /\ upper' = IF HasNode(upper, p) THEN upper
                      ELSE absorbOverride(upper, p, [kind |-> "file",
                             mode |-> "lower", lowerRel |-> p])
    BY <1>1, Writes, Zenon
  <2>2. CASE HasNode(upper, p)
    BY <2>1, <2>2, AgreeOwned, Zenon
  <2>3. CASE ~HasNode(upper, p)
    <3>1. UpperType(upper) /\ p \in Paths /\ "lower" \in Modes
      BY Zenon DEF TypeOK, Writable, Modes
    <3>2. Sparse(p, "lower")
      BY <2>1, <2>3, <3>1, SparseNode, Zenon
    <3>3. Alters(mount)
      BY <2>1, Zenon DEF Alters
    <3> QED BY <2>1, <2>3, <3>2, <3>3, AgreeSparse, Zenon
  <2> QED BY <2>2, <2>3, Zenon
<1>2. CASE Truncate
  <2>1. PICK p \in Writable :
          /\ mount' = mount /\ tree' = Owned(p) /\ "truncate" \in mount.requests
          /\ upper' = IF HasNode(upper, p) THEN upper
                      ELSE absorbOverride(upper, p, [kind |-> "file",
                             mode |-> "0644", lowerRel |-> p])
    BY <1>2, Truncates, Zenon
  <2>2. CASE HasNode(upper, p)
    BY <2>1, <2>2, AgreeOwned, Zenon
  <2>3. CASE ~HasNode(upper, p)
    <3>1. UpperType(upper) /\ p \in Paths /\ "0644" \in Modes
      BY Zenon DEF TypeOK, Writable, Modes
    <3>2. Sparse(p, "0644")
      BY <2>1, <2>3, <3>1, SparseNode, Zenon
    <3>3. Alters(mount)
      BY <2>1, Zenon DEF Alters
    <3> QED BY <2>1, <2>3, <3>2, <3>3, AgreeSparse, Zenon
  <2> QED BY <2>2, <2>3, Zenon
<1> QED BY <1>1, <1>2, Zenon

\* Chmod.
LEMMA AgreeChmods ==
  ASSUME TypeOK, Agree, Chmod
  PROVE  Agree'
<1>1. PICK p \in Paths :
        /\ Reached(p) /\ mount' = mount
        /\ tree' = [q \in DOMAIN tree |-> [tree[q] EXCEPT !.mode =
                      IF q = p THEN "set" ELSE @]]
        /\ upper' = IF HasNode(upper, p)
                    THEN [upper EXCEPT !.nodes[p].mode = "set"]
                    ELSE [upper EXCEPT !.overrides = @ \cup {p}]
  BY Chmods, Zenon
<1>2. UpperType(upper) /\ Present(p)
  BY <1>1, Zenon DEF TypeOK, Reached
<1>3. /\ UpperType(upper') /\ OnlyAt(upper, upper', p)
      /\ upper'.whiteouts = upper.whiteouts
      /\ HasNode(upper', p) <=> HasNode(upper, p)
      /\ IF HasNode(upper, p)
         THEN /\ upper'.nodes[p] = [upper.nodes[p] EXCEPT !.mode = "set"]
              /\ upper'.overrides = upper.overrides
         ELSE upper'.overrides = upper.overrides \cup {p}
  BY <1>1, <1>2, Marks, Zenon
<1>4. HasNode(upper, p) => /\ upper'.nodes[p].kind = upper.nodes[p].kind
                           /\ upper'.nodes[p].lowerRel = upper.nodes[p].lowerRel
                           /\ upper'.nodes[p].mode = "set"
  <2>1. HasNode(upper, p) => upper.nodes[p] \in Node
    BY <1>2, Zenon DEF UpperType, HasNode
  <2> QED BY <1>3, <2>1 DEF Node
<1>5. /\ DOMAIN tree' = DOMAIN tree
      /\ \A q \in DOMAIN tree :
           /\ tree'[q].kind = tree[q].kind /\ tree'[q].base = tree[q].base
           /\ tree'[q].own = tree[q].own
           /\ q = p => tree'[q].mode = "set"
           /\ q # p => tree'[q] = tree[q]
  <2>1. DOMAIN tree' = DOMAIN tree
    BY <1>1, Zenon
  <2>2. ASSUME NEW q \in DOMAIN tree
        PROVE  /\ tree'[q].kind = tree[q].kind /\ tree'[q].base = tree[q].base
               /\ tree'[q].own = tree[q].own
               /\ q = p => tree'[q].mode = "set"
               /\ q # p => tree'[q] = tree[q]
    <3>1. tree[q] \in Entry
      BY Zenon DEF TypeOK
    <3>2. tree'[q] = [tree[q] EXCEPT !.mode = IF q = p THEN "set" ELSE @]
      BY <1>1, Zenon
    <3> QED BY <3>1, <3>2 DEF Entry
  <2> QED BY <2>1, <2>2, Zenon
<1>6. Ordinary(tree')
  <2>1. \A q \in DOMAIN tree : tree'[q].kind = tree[q].kind
    BY <1>5, Zenon
  <2> QED BY <1>5, <2>1, Zenon DEF Agree, Ordinary
<1>7. /\ \A x : LowerPath(upper, x) = x /\ LowerPath(upper, x)' = x
      /\ Lower' = Lower
  <2>1. DOMAIN upper.redirects = {} /\ DOMAIN upper'.redirects = {}
    BY <1>3, Zenon DEF Agree, OnlyAt
  <2>2. \A x : LowerPath(upper', x) = x
    BY <2>1, OwnLowerPath, Zenon
  <2> QED BY <1>1, <2>1, <2>2, OwnLowerPath, Zenon DEF Lower
<1>8. Hidden(upper, p)' <=> Hidden(upper, p)
  BY <1>3, Zenon DEF Hidden
<1>9. Present(p)'
  BY <1>2, <1>3, <1>7, <1>8, Zenon DEF Present, HasLower
<1>10. p \in DOMAIN tree /\ SameAt(p)
  BY <1>2, Zenon DEF Agree
<1>11. SameAt(p)'
  <2>1. HasNode(upper, p)' = HasNode(upper, p)
    BY <1>3 DEF HasNode
  <2>2. KindOf(p)' = KindOf(p) /\ ReadsFrom(p)' = ReadsFrom(p)
    <3>1. KindOf(p)' = KindOf(p)
      BY <1>4, <1>7, <2>1, Zenon DEF KindOf
    <3>2. ReadsFrom(p)' = ReadsFrom(p)
      <4>1. (IF HasNode(upper, p) THEN upper.nodes[p].lowerRel ELSE p)'
              = IF HasNode(upper, p) THEN upper.nodes[p].lowerRel ELSE p
        BY <1>4, <2>1, Zenon
      <4> QED BY <1>7, <4>1 DEF ReadsFrom
    <3> QED BY <3>1, <3>2, Zenon
  <2>3. ModeOf(p)' = "set"
    <3>1. ~HasNode(upper, p) => p \in upper'.overrides
      BY <1>3
    <3> QED BY <1>4, <2>1, <3>1, Zenon DEF ModeOf
  <2> QED BY <1>5, <1>10, <2>1, <2>2, <2>3, Zenon DEF SameAt
<1>12. HasNode(upper, p)' => NodeSound(p)'
  <2>1. HasNode(upper, p) => NodeSound(p)
    BY Zenon DEF Agree, HasNode
  <2>2. Alters(mount)' = Alters(mount)
    BY <1>1, Zenon
  <2> QED BY <1>3, <1>4, <1>7, <1>8, <2>1, <2>2, Zenon DEF NodeSound
<1>13. DOMAIN tree \subseteq Paths
  BY Zenon DEF TypeOK
<1>14. Bare(mount) => upper'.whiteouts = {} /\ upper'.overrides = {}
  <2>1. ASSUME Bare(mount)
        PROVE  HasNode(upper, p)
    BY <1>2, <1>7, <2>1, Zenon DEF Present, HasLower, Bare, Lower
  <2> QED BY <1>3, <2>1, Zenon DEF Agree
<1> QED BY <1>1, <1>3, <1>5, <1>6, <1>9, <1>10, <1>11, <1>12, <1>13, <1>14,
           AgreeAt, Zenon

\* Unlink and Rmdir.
LEMMA AgreeRemoves ==
  ASSUME TypeOK, Agree, Agreeing(mount), Unlink \/ Rmdir
  PROVE  Agree'
<1>1. PICK p \in Paths :
        /\ Reached(p) /\ mount' = mount
        /\ \/ KindOf(p) # "dir" /\ "unlink" \in mount.requests
           \/ KindOf(p) = "dir" /\ mergedEmpty(p)
        /\ tree' = Drop(tree, p)
        /\ upper' = IF HasNode(upper, p)
                    THEN [upper EXCEPT !.nodes = Drop(@, p)]
                    ELSE [upper EXCEPT !.whiteouts = @ \cup {p}]
  BY Removes, Zenon
<1>2. UpperType(upper) /\ Present(p) /\ p \in DOMAIN tree
  BY <1>1, Zenon DEF TypeOK, Reached, Agree
<1>3. /\ UpperType(upper') /\ OnlyAt(upper, upper', p)
      /\ ~HasNode(upper', p) /\ upper'.overrides = upper.overrides
      /\ upper'.whiteouts = IF HasNode(upper, p) THEN upper.whiteouts
                            ELSE upper.whiteouts \cup {p}
  BY <1>1, <1>2, Drops
<1>4. /\ DOMAIN tree' = DOMAIN tree \ {p}
      /\ \A q \in DOMAIN tree \ {p} : tree'[q] = tree[q]
  BY <1>1, Zenon DEF Drop
<1>5. \A q \in Paths : Under(q, p) => ~Present(q)
  BY <1>1, <1>2, NothingUnder, Zenon
<1>6. Ordinary(tree')
  <2> SUFFICES ASSUME NEW x \in DOMAIN tree', NEW q \in Paths, Under(x, q)
               PROVE  q \in DOMAIN tree' /\ tree'[q].kind = "dir"
    BY Zenon DEF Ordinary
  <2>1. x \in DOMAIN tree /\ x \in Paths /\ Present(x)
    BY <1>4, Zenon DEF Agree
  <2>2. q # p
    BY <1>5, <2>1, Zenon
  <2>3. q \in DOMAIN tree /\ tree[q].kind = "dir"
    BY <2>1, Zenon DEF Agree, Ordinary
  <2> QED BY <1>4, <2>2, <2>3, Zenon
<1>7. /\ \A x : LowerPath(upper, x) = x /\ LowerPath(upper, x)' = x
      /\ Lower' = Lower
  <2>1. DOMAIN upper.redirects = {} /\ DOMAIN upper'.redirects = {}
    BY <1>3, Zenon DEF Agree, OnlyAt
  <2>2. \A x : LowerPath(upper', x) = x
    BY <2>1, OwnLowerPath, Zenon
  <2> QED BY <1>1, <2>1, <2>2, OwnLowerPath, Zenon DEF Lower
<1>8. ~Present(p)'
  <2>1. CASE HasNode(upper, p)
    <3>1. Hidden(upper, p)' <=> Hidden(upper, p)
      BY <1>3, <2>1, Zenon DEF Hidden
    <3>2. NodeSound(p)
      BY <2>1, Zenon DEF Agree, HasNode
    <3>3. Hidden(upper, p) \/ p \notin DOMAIN Lower
      <4> SUFFICES ASSUME p \in DOMAIN Lower, upper.nodes[p].kind = "file",
                          Alters(mount)
                   PROVE  FALSE
        BY <3>2, Zenon DEF NodeSound
      <4>1. ~Bare(mount)
        BY Zenon DEF Bare, Lower
      <4>2. "unlink" \notin mount.requests
        BY <4>1, Zenon DEF Agreeing, Steady
      <4>3. KindOf(p) = "file"
        BY <2>1, Zenon DEF KindOf
      <4> QED BY <1>1, <4>2, <4>3
    <3> QED BY <1>3, <1>7, <3>1, <3>3, Zenon DEF Present, HasLower
  <2>2. CASE ~HasNode(upper, p)
    <3>1. p \in upper'.whiteouts
      BY <1>3, <2>2, Zenon
    <3>2. AtOrUnder(p, p)
      BY UnderAt, PathSeq, Zenon
    <3>3. Hidden(upper, p)'
      BY <3>1, <3>2, Zenon DEF Hidden
    <3> QED BY <1>3, <3>3, Zenon DEF Present
  <2> QED BY <2>1, <2>2, Zenon
<1>9. p \notin DOMAIN tree'
  BY <1>4, Zenon
<1>10. DOMAIN tree \subseteq Paths
  BY Zenon DEF TypeOK
<1>11. Bare(mount) => upper'.whiteouts = {} /\ upper'.overrides = {}
  <2>1. ASSUME Bare(mount)
        PROVE  HasNode(upper, p)
    BY <1>2, <1>7, <2>1, Zenon DEF Present, HasLower, Bare, Lower
  <2> QED BY <1>3, <2>1, Zenon DEF Agree
<1> QED BY <1>1, <1>3, <1>4, <1>5, <1>6, <1>8, <1>9, <1>10, <1>11, AgreeAt, Zenon
----------------------------------------------------------------------------
(* Types *)

\* Types hold at first.
LEMMA TypesInit == Init => TypeOK
<1> SUFFICES ASSUME Init
             PROVE  TypeOK
  BY Zenon
<1>1. mount \in Mounts /\ upper = NewUpper
  BY Zenon DEF Init
<1>2. UpperType(NewUpper)
  BY DEF NewUpper, UpperType, EmptyMap
<1>3. /\ DOMAIN Lower \subseteq Paths
      /\ \A p \in DOMAIN Lower : Lower[p] \in Kinds
  BY <1>1, MountAssumption, Zenon DEF Lower
<1>4. DOMAIN tree = DOMAIN Lower
  BY Zenon DEF Init
<1>5. ASSUME NEW p \in DOMAIN Lower
      PROVE  tree[p] \in Entry
  <2>1. tree[p] = [kind |-> Lower[p],
                   base |-> IF Lower[p] = "dir" THEN NoPath ELSE p,
                   mode |-> "lower", own |-> FALSE]
    BY Zenon DEF Init
  <2>2. Lower[p] \in Kinds /\ p \in Paths
    BY <1>3, Zenon
  <2> QED BY <2>1, <2>2 DEF Entry, Modes
<1> QED BY <1>1, <1>2, <1>3, <1>4, <1>5, Zenon DEF TypeOK

\* Every handler keeps them.
LEMMA TypesStep == TypeOK /\ [Next]_vars => TypeOK'
<1> SUFFICES ASSUME TypeOK, [Next]_vars
             PROVE  TypeOK'
  BY Zenon
<1>1. /\ mount \in Mounts /\ UpperType(upper) /\ DOMAIN tree \subseteq Paths
      /\ \A p \in DOMAIN tree : tree[p] \in Entry
  BY Zenon DEF TypeOK
<1>2. mount.named \subseteq Paths
  BY <1>1, MountAssumption, Zenon
<1>3. CASE Create \/ Mkdir \/ Symlink
  <2>1. PICK p \in mount.named, k \in Kinds :
          /\ mount' = mount /\ upper' = SetNode(upper, p, New(k))
          /\ tree' = Put(tree, p, Made(k))
    BY <1>3, Makes, Zenon
  <2>2. New(k) \in Node /\ Made(k) \in Entry
    BY DEF New, Node, Modes, Made, Entry
  <2>3. UpperType(upper')
    <3>1. p \in Paths
      BY <1>2, Zenon
    <3> QED BY <1>1, <2>1, <2>2, <3>1, SetsNode
  <2>4. DOMAIN tree' \subseteq Paths /\ \A q \in DOMAIN tree' : tree'[q] \in Entry
    BY <1>1, <1>2, <2>1, <2>2, Zenon DEF Put
  <2> QED BY <1>1, <2>1, <2>3, <2>4, Zenon DEF TypeOK
<1>4. CASE Write \/ Truncate
  <2>1. PICK p \in Writable, m \in Modes :
          /\ mount' = mount /\ tree' = Owned(p)
          /\ upper' = IF HasNode(upper, p) THEN upper
                      ELSE absorbOverride(upper, p, [kind |-> "file",
                             mode |-> m, lowerRel |-> p])
    <3>1. "lower" \in Modes /\ "0644" \in Modes
      BY Zenon DEF Modes
    <3> QED BY <1>4, <3>1, Writes, Truncates, Zenon
  <2>2. p \in Paths
    BY Zenon DEF Writable
  <2>3. UpperType(upper')
    <3>1. CASE HasNode(upper, p)
      BY <1>1, <2>1, <3>1, Zenon
    <3>2. CASE ~HasNode(upper, p)
      <4>1. Sparse(p, m)
        BY <1>1, <2>1, <2>2, <3>2, SparseNode, Zenon
      <4> QED BY <4>1, Zenon DEF Sparse
    <3> QED BY <3>1, <3>2, Zenon
  <2>4. DOMAIN tree' = DOMAIN tree
    BY <2>1, Zenon DEF Owned
  <2>5. ASSUME NEW q \in DOMAIN tree
        PROVE  tree'[q] \in Entry
    <3>1. tree'[q] = [tree[q] EXCEPT !.own = @ \/ q = p] /\ tree[q] \in Entry
      BY <1>1, <2>1, Zenon DEF Owned
    <3> QED BY <3>1, Zenon DEF Entry
  <2> QED BY <1>1, <2>1, <2>3, <2>4, <2>5, Zenon DEF TypeOK
<1>5. CASE Chmod
  <2>1. PICK p \in Paths :
          /\ mount' = mount
          /\ tree' = [q \in DOMAIN tree |-> [tree[q] EXCEPT !.mode =
                        IF q = p THEN "set" ELSE @]]
          /\ upper' = IF HasNode(upper, p)
                      THEN [upper EXCEPT !.nodes[p].mode = "set"]
                      ELSE [upper EXCEPT !.overrides = @ \cup {p}]
    BY <1>5, Chmods, Zenon
  <2>2. UpperType(upper')
    BY <1>1, <2>1, Marks, Zenon
  <2>3. DOMAIN tree' = DOMAIN tree
    BY <2>1, Zenon
  <2>4. ASSUME NEW q \in DOMAIN tree
        PROVE  tree'[q] \in Entry
    <3>1. /\ tree'[q] = [tree[q] EXCEPT !.mode = IF q = p THEN "set" ELSE @]
          /\ tree[q] \in Entry
      BY <1>1, <2>1, Zenon
    <3> QED BY <3>1 DEF Entry, Modes
  <2> QED BY <1>1, <2>1, <2>2, <2>3, <2>4, Zenon DEF TypeOK
<1>6. CASE Unlink \/ Rmdir
  <2>1. PICK p \in Paths :
          /\ mount' = mount /\ tree' = Drop(tree, p)
          /\ upper' = IF HasNode(upper, p)
                      THEN [upper EXCEPT !.nodes = Drop(@, p)]
                      ELSE [upper EXCEPT !.whiteouts = @ \cup {p}]
    BY <1>6, Removes, Zenon
  <2>2. UpperType(upper')
    BY <1>1, <2>1, Drops
  <2>3. DOMAIN tree' \subseteq Paths /\ \A q \in DOMAIN tree' : tree'[q] \in Entry
    BY <1>1, <2>1, Zenon DEF Drop
  <2> QED BY <1>1, <2>1, <2>2, <2>3, Zenon DEF TypeOK
<1>7. CASE Rename
  <2>1. PICK from \in Paths, to \in mount.named :
          /\ Fits(from, to) /\ mount' = mount
          /\ upper' = Moved(upper, from, to, HasLower(from))
          /\ tree' = RefRename(tree, from, to)
    BY <1>7, Renames, Zenon
  <2>2. to \in Paths
    BY <1>2, Zenon
  <2>3. UpperType(upper')
    <3>1. Movable(DOMAIN upper.nodes \cup DOMAIN upper.redirects
                  \cup upper.whiteouts \cup upper.overrides, from, to)
      BY <2>1, Zenon DEF Fits, Movable
    <3> QED BY <1>1, <2>1, <2>2, <3>1, MovedType, Zenon
  <2>4. DOMAIN tree' \subseteq Paths /\ \A q \in DOMAIN tree' : tree'[q] \in Entry
    <3>1. CASE from = to
      <4>1. tree' = tree
        BY <2>1, <3>1, Zenon DEF RefRename
      <4> QED BY <1>1, <4>1, Zenon
    <3>2. CASE from # to
      <4>1. /\ DOMAIN tree' \subseteq Paths
            /\ \A q \in Paths :
                 q \in DOMAIN tree' <=>
                   /\ ~AtOrUnder(q, from)
                   /\ IF AtOrUnder(q, to) THEN Rebase(q, to, from) \in DOMAIN tree
                      ELSE q \in DOMAIN tree
            /\ \A q \in DOMAIN tree' :
                 tree'[q] = IF AtOrUnder(q, to) THEN tree[Rebase(q, to, from)]
                            ELSE tree[q]
        BY <2>1, <3>2, TreeMoved
      <4> QED BY <1>1, <4>1, Zenon
    <3> QED BY <3>1, <3>2, Zenon
  <2> QED BY <1>1, <2>1, <2>3, <2>4, Zenon DEF TypeOK
<1>8. CASE UNCHANGED vars
  BY <1>1, <1>8, Zenon DEF vars, TypeOK
<1> QED BY <1>3, <1>4, <1>5, <1>6, <1>7, <1>8, Zenon DEF Next

\* Whatever is mounted and however it is used, the overlay state stays well
\* formed: applyRename and the other Apply cases leave only keys that are
\* paths, and redirects and fallthroughs that name paths.
THEOREM OverlayTypes == Spec => []TypeOK
  BY TypesInit, TypesStep, PTL DEF Spec
----------------------------------------------------------------------------
(* Agree is inductive: renames over an empty lower tree *)

\* What Agree comes to there: an entry of the tree for every node.
PlainAt(entry, node) ==
  /\ entry.kind = node.kind /\ entry.mode = node.mode
  /\ entry.base = NoPath /\ entry.own = TRUE /\ node.lowerRel = NoPath

Plain ==
  /\ DOMAIN upper.redirects = {} /\ upper.whiteouts = {} /\ upper.overrides = {}
  /\ DOMAIN tree = DOMAIN upper.nodes /\ Ordinary(tree)
  /\ \A p \in DOMAIN tree : PlainAt(tree[p], upper.nodes[p])

\* Over an empty lower tree Agree is Plain.
LEMMA BareAgree == TypeOK /\ Bare(mount) => (Agree <=> Plain)
<1> SUFFICES ASSUME TypeOK, Bare(mount)
             PROVE  Agree <=> Plain
  BY Zenon
<1>1. \A p : p \notin DOMAIN Lower
  BY Zenon DEF Bare, Lower
<1>2. \A p : Present(p) <=> HasNode(upper, p)
  BY <1>1, Zenon DEF Present, HasLower
<1>3. \A p : ReadsFrom(p) = NoPath
  BY <1>1, Zenon DEF ReadsFrom
<1>4. DOMAIN upper.nodes \subseteq Paths
  BY Zenon DEF TypeOK, UpperType
<1>5. DOMAIN tree = {p \in Paths : Present(p)} <=> DOMAIN tree = DOMAIN upper.nodes
  <2>1. {p \in Paths : Present(p)} = DOMAIN upper.nodes
    BY <1>2, <1>4, Zenon DEF HasNode
  <2> QED BY <2>1, Zenon
<1>6. \A p \in DOMAIN upper.nodes : NodeSound(p) <=> upper.nodes[p].lowerRel = NoPath
  <2> TAKE p \in DOMAIN upper.nodes
  <2>1. p # NoPath
    BY <1>4, PathSeq, Zenon
  <2> QED BY <1>1, <2>1, Zenon DEF NodeSound
<1>7. ASSUME NEW p \in DOMAIN upper.nodes
      PROVE  SameAt(p) <=> /\ tree[p].kind = upper.nodes[p].kind
                           /\ tree[p].mode = upper.nodes[p].mode
                           /\ tree[p].base = NoPath /\ tree[p].own = TRUE
  <2>1. HasNode(upper, p) = TRUE
    BY Zenon DEF HasNode
  <2>2. KindOf(p) = upper.nodes[p].kind /\ ModeOf(p) = upper.nodes[p].mode
    BY <2>1, Zenon DEF KindOf, ModeOf
  <2>3. KeepsModes(mount)
    BY Zenon DEF KeepsModes
  <2> QED BY <1>3, <2>1, <2>2, <2>3, Zenon DEF SameAt
<1>8. ASSUME Agree
      PROVE  Plain
  <2>1. DOMAIN tree = DOMAIN upper.nodes
    BY <1>5, <1>8, Zenon DEF Agree
  <2>2. \A p \in DOMAIN tree : PlainAt(tree[p], upper.nodes[p])
    BY <1>6, <1>7, <1>8, <2>1, Zenon DEF Agree, PlainAt
  <2> QED BY <1>8, <2>1, <2>2, Zenon DEF Agree, Plain
<1>9. ASSUME Plain
      PROVE  Agree
  <2>1. DOMAIN tree = {p \in Paths : Present(p)} /\ DOMAIN tree = DOMAIN upper.nodes
    BY <1>5, <1>9, Zenon DEF Plain
  <2>2. \A p \in DOMAIN tree : NodeSound(p) /\ SameAt(p)
    BY <1>6, <1>7, <1>9, <2>1, Zenon DEF Plain, PlainAt
  <2> QED BY <1>9, <2>1, <2>2, Zenon DEF Agree, Plain
<1> QED BY <1>8, <1>9, Zenon

\* Nothing is both in from and in to.
LEMMA Apart ==
  ASSUME TypeOK, Agree, NEW from \in Paths, NEW to \in Paths, from # to,
         Reached(from), Replaces(from, to), ~Under(to, from)
  PROVE  /\ from \in DOMAIN tree
         /\ \A q \in Paths : ~(AtOrUnder(q, from) /\ AtOrUnder(q, to))
<1>1. from \in DOMAIN tree
  BY Zenon DEF Reached, Agree
<1>2. ASSUME NEW q \in DOMAIN tree, Under(q, to)
      PROVE  FALSE
  <2>1. q \in Paths /\ Present(q)
    BY Zenon DEF Agree
  <2>2. to \in DOMAIN tree /\ tree[to].kind = "dir"
    BY <1>2, Zenon DEF Agree, Ordinary
  <2>3. Present(to) /\ KindOf(to) = "dir"
    BY <2>2, Zenon DEF Agree, SameAt
  <2>4. mergedEmpty(to)
    BY <2>3, Zenon DEF Replaces, IsDir
  <2> QED BY <1>2, <2>1, <2>2, <2>4, NothingUnder, Zenon
<1>3. from \in Seq(Names) /\ to \in Seq(Names)
  BY PathSeq, Zenon
<1>4. ~AtOrUnder(from, to)
  BY <1>1, <1>2, Zenon DEF Under
<1>5. ASSUME NEW q \in Paths, AtOrUnder(q, from), AtOrUnder(q, to)
      PROVE  FALSE
  <2>1. q \in Seq(Names)
    BY PathSeq, Zenon
  <2> QED BY <1>3, <1>4, <1>5, <2>1, Comparable, Zenon
<1> QED BY <1>1, <1>2, <1>5, Zenon
\* The nodes move as the tree does.
LEMMA NodesMoved ==
  ASSUME NEW f, DOMAIN f \subseteq Paths, NEW from \in Paths, NEW to \in Paths,
         Movable(DOMAIN f, from, to),
         \A q \in Paths : ~(AtOrUnder(q, from) /\ AtOrUnder(q, to))
  PROVE  LET g == MoveMap(Cleared(f, to), from, to) IN
         /\ DOMAIN g \subseteq Paths
         /\ \A q \in Paths :
              q \in DOMAIN g <=>
                /\ ~AtOrUnder(q, from)
                /\ IF AtOrUnder(q, to) THEN Rebase(q, to, from) \in DOMAIN f
                   ELSE q \in DOMAIN f
         /\ \A q \in DOMAIN g :
              g[q] = IF AtOrUnder(q, to) THEN f[Rebase(q, to, from)] ELSE f[q]
<1> DEFINE c == Cleared(f, to)
           g == MoveMap(c, from, to)
<1>1. /\ \A p : p \in DOMAIN c <=> p \in DOMAIN f /\ ~AtOrUnder(p, to)
      /\ \A p \in DOMAIN c : c[p] = f[p]
  BY Zenon DEF Cleared
<1> HIDE DEF c
<1>2. DOMAIN c \subseteq Paths /\ Movable(DOMAIN c, from, to)
  BY <1>1, Zenon DEF Movable
<1>3. /\ DOMAIN g \subseteq Paths
      /\ \A p \in DOMAIN c :
           IF AtOrUnder(p, from) THEN Rebase(p, from, to) \in DOMAIN g
           ELSE p \in DOMAIN g /\ g[p] = c[p]
      /\ \A q \in DOMAIN g :
           \/ q \in DOMAIN c /\ ~AtOrUnder(q, from) /\ g[q] = c[q]
           \/ /\ AtOrUnder(q, to) /\ Rebase(q, to, from) \in DOMAIN c
              /\ AtOrUnder(Rebase(q, to, from), from)
              /\ g[q] = c[Rebase(q, to, from)]
  BY <1>2, MovesMap
<1> HIDE DEF g
<1>4. ASSUME NEW q \in DOMAIN g
      PROVE  /\ ~AtOrUnder(q, from)
             /\ IF AtOrUnder(q, to) THEN Rebase(q, to, from) \in DOMAIN f
                ELSE q \in DOMAIN f
             /\ g[q] = IF AtOrUnder(q, to) THEN f[Rebase(q, to, from)] ELSE f[q]
  <2>1. q \in Paths
    BY <1>3, Zenon
  <2>2. CASE q \in DOMAIN c /\ ~AtOrUnder(q, from) /\ g[q] = c[q]
    BY <1>1, <2>2, Zenon
  <2>3. CASE /\ AtOrUnder(q, to) /\ Rebase(q, to, from) \in DOMAIN c
             /\ AtOrUnder(Rebase(q, to, from), from)
             /\ g[q] = c[Rebase(q, to, from)]
    BY <1>1, <2>1, <2>3, Zenon
  <2> QED BY <1>3, <2>2, <2>3, Zenon
<1>5. ASSUME NEW q \in Paths, ~AtOrUnder(q, from),
             IF AtOrUnder(q, to) THEN Rebase(q, to, from) \in DOMAIN f
             ELSE q \in DOMAIN f
      PROVE  q \in DOMAIN g
  <2>1. CASE AtOrUnder(q, to)
    <3> DEFINE p == Rebase(q, to, from)
    <3>1. p \in DOMAIN f
      BY <1>5, <2>1, Zenon
    <3>2. q \in Seq(Names) /\ from \in Seq(Names) /\ to \in Seq(Names)
      BY PathSeq, Zenon
    <3>3. AtOrUnder(p, from) /\ Rebase(p, from, to) = q
      BY <2>1, <3>2, Rebases, Zenon
    <3> HIDE DEF p
    <3>4. p \in DOMAIN c
      BY <1>1, <3>1, <3>3, Zenon
    <3> QED BY <1>3, <3>3, <3>4, Zenon
  <2>2. CASE ~AtOrUnder(q, to)
    BY <1>1, <1>3, <1>5, <2>2, Zenon
  <2> QED BY <2>1, <2>2, Zenon
<1>6. \A q \in Paths :
        q \in DOMAIN g <=>
          /\ ~AtOrUnder(q, from)
          /\ IF AtOrUnder(q, to) THEN Rebase(q, to, from) \in DOMAIN f
             ELSE q \in DOMAIN f
  BY <1>4, <1>5, Zenon
<1> QED BY <1>3, <1>4, <1>6, Zenon DEF g, c

\* What is in a tree stays in directories of the tree.
LEMMA TreeOrdinary ==
  ASSUME NEW t, DOMAIN t \subseteq Paths, Ordinary(t),
         NEW from \in Paths, NEW to \in Paths, from # to, ~Under(to, from),
         \A q \in Paths : ~(AtOrUnder(q, from) /\ AtOrUnder(q, to)),
         \A y \in Paths : Under(to, y) => y \in DOMAIN t /\ t[y].kind = "dir"
  PROVE  Ordinary(RefRename(t, from, to))
<1> DEFINE r == RefRename(t, from, to)
<1>1. /\ DOMAIN r \subseteq Paths
      /\ \A q \in Paths :
           q \in DOMAIN r <=>
             /\ ~AtOrUnder(q, from)
             /\ IF AtOrUnder(q, to) THEN Rebase(q, to, from) \in DOMAIN t
                ELSE q \in DOMAIN t
      /\ \A q \in DOMAIN r :
           r[q] = IF AtOrUnder(q, to) THEN t[Rebase(q, to, from)] ELSE t[q]
  BY TreeMoved
<1> HIDE DEF r
<1> SUFFICES ASSUME NEW x \in DOMAIN r, NEW y \in Paths, Under(x, y)
             PROVE  y \in DOMAIN r /\ r[y].kind = "dir"
  BY Zenon DEF Ordinary, r
<1>2. /\ x \in Paths /\ x \in Seq(Names) /\ y \in Seq(Names)
      /\ from \in Seq(Names) /\ to \in Seq(Names) /\ AtOrUnder(x, y)
  BY <1>1, PathSeq, Zenon DEF Under
<1>3. CASE ~AtOrUnder(x, to)
  <2>1. x \in DOMAIN t /\ ~AtOrUnder(x, from)
    BY <1>1, <1>2, <1>3, Zenon
  <2>2. y \in DOMAIN t /\ t[y].kind = "dir"
    BY <2>1, Zenon DEF Ordinary
  <2>3. ~AtOrUnder(y, from)
    BY <1>2, <2>1, UnderTransitive, Zenon
  <2>4. ~AtOrUnder(y, to)
    BY <1>2, <1>3, UnderTransitive, Zenon
  <2> QED BY <1>1, <2>2, <2>3, <2>4, Zenon
<1>4. CASE AtOrUnder(x, to) /\ AtOrUnder(y, to)
  <2> DEFINE X == Rebase(x, to, from)
             Y == Rebase(y, to, from)
  <2>1. X \in DOMAIN t /\ X \in Paths
    BY <1>1, <1>2, <1>4, Zenon
  <2>2. Under(X, Y)
    BY <1>2, <1>4, RebaseUnder, Zenon
  <2>3. Y \in Paths
    <3>1. Len(Y) = Len(y) - Len(to) + Len(from) /\ Y \in Seq(Names)
      BY <1>2, <1>4, Rebases
    <3>2. X \in Seq(Names) /\ Len(X) <= MaxDepth
      BY <2>1, PathSeq, Zenon
    <3>3. Len(Y) < Len(X)
      BY <2>2, <3>1, <3>2, UnderAt, Zenon
    <3>4. Len(X) \in Nat /\ Len(Y) \in Nat
      BY <3>1, <3>2, LenProperties
    <3> HIDE DEF X, Y
    <3>5. Len(Y) <= MaxDepth
      BY SMTT(30), <3>2, <3>3, <3>4, DepthAssumption
    <3>6. Len(y) - Len(to) + Len(from) <= MaxDepth
      BY <3>1, <3>5
    <3> QED BY <1>4, <3>6, RebasedPath, Zenon DEF Y
  <2> HIDE DEF X, Y
  <2>4. Y \in DOMAIN t /\ t[Y].kind = "dir"
    BY <2>1, <2>2, <2>3, Zenon DEF Ordinary
  <2>5. ~AtOrUnder(y, from)
    BY <1>4, Zenon
  <2> QED BY <1>1, <1>4, <2>4, <2>5, Zenon DEF Y
<1>5. CASE AtOrUnder(x, to) /\ ~AtOrUnder(y, to)
  <2>1. Under(to, y)
    BY <1>2, <1>5, Comparable, Zenon
  <2>2. y \in DOMAIN t /\ t[y].kind = "dir"
    BY <2>1, Zenon
  <2>3. ~AtOrUnder(y, from)
    <3>1. AtOrUnder(to, y)
      BY <2>1, Zenon DEF Under
    <3>2. ~AtOrUnder(to, from)
      BY Zenon DEF Under
    <3> QED BY <1>2, <3>1, <3>2, UnderTransitive, Zenon
  <2> QED BY <1>1, <1>5, <2>2, <2>3, Zenon
<1> QED BY <1>3, <1>4, <1>5, Zenon
\* Rename, where the lower tree is empty.
LEMMA AgreeRenames ==
  ASSUME TypeOK, Agree, Bare(mount), Rename, TypeOK'
  PROVE  Agree'
<1>1. PICK from \in Paths, to \in mount.named :
        /\ Reached(from) /\ InDir(to) /\ Replaces(from, to)
        /\ Fits(from, to) /\ (from = to \/ ~Under(to, from))
        /\ mount' = mount
        /\ upper' = Moved(upper, from, to, HasLower(from))
        /\ tree' = RefRename(tree, from, to)
  BY Renames, Zenon
<1>2. to \in Paths
  BY MountAssumption, Zenon DEF TypeOK
<1>3. Plain
  BY BareAgree, Zenon
<1>4. Plain' => Agree'
  <2>1. (TypeOK /\ Bare(mount) => (Agree <=> Plain))'
    BY BareAgree, PTL
  <2>2. Bare(mount)'
    BY <1>1, Zenon
  <2> QED BY <2>1, <2>2, Zenon
<1>5. CASE from = to
  <2>1. upper' = upper /\ tree' = tree
    BY <1>1, <1>5 DEF Moved, applyRename, RefRename
  <2>2. Plain'
    BY <1>3, <2>1, Zenon DEF Plain
  <2> QED BY <1>4, <2>2, Zenon
<1>6. CASE from # to
  <2>1. /\ from \in DOMAIN tree /\ ~Under(to, from)
        /\ \A q \in Paths : ~(AtOrUnder(q, from) /\ AtOrUnder(q, to))
    BY <1>1, <1>2, <1>6, Apart, Zenon
  <2> DEFINE D == DOMAIN tree
             N == upper.nodes
             c == deleteSubtree(upper, to)
  <2>2. /\ D \subseteq Paths /\ DOMAIN N = D /\ Movable(D, from, to)
        /\ DOMAIN upper.redirects = {}
        /\ upper.whiteouts = {} /\ upper.overrides = {}
    <3>1. Movable(DOMAIN tree, from, to)
      BY <1>1, Zenon DEF Fits, Movable
    <3> QED BY <1>3, <3>1, Zenon DEF TypeOK, Plain
  <2>3. /\ upper'.nodes = MoveMap(c.nodes, from, to)
        /\ upper'.redirects = IF ~subtreePresent(c, from)
                              THEN Redirect(c.redirects, from, to)
                              ELSE MoveMap(c.redirects, from, to)
        /\ upper'.whiteouts =
             MoveSet(c.whiteouts, Below(c.whiteouts, from), from, to)
             \cup (IF HasLower(from) THEN {from} ELSE {})
        /\ upper'.overrides =
             MoveSet(c.overrides, AtBelow(c.overrides, from), from, to)
        /\ c.nodes = Cleared(N, to) /\ c.redirects = Cleared(upper.redirects, to)
        /\ c.whiteouts \subseteq upper.whiteouts
        /\ c.overrides \subseteq upper.overrides
    BY <1>1, <1>6, MovedParts
  <2> HIDE DEF c
  <2>4. subtreePresent(c, from)
    <3>1. AtOrUnder(from, from)
      BY PathSeq, UnderAt, Zenon
    <3>2. from \in DOMAIN Cleared(N, to)
      BY <2>1, <2>2, <3>1, Zenon DEF Cleared
    <3> QED BY <2>3, <3>1, <3>2, Zenon DEF subtreePresent
  <2>5. DOMAIN upper'.redirects = {}
    <3>1. DOMAIN c.redirects = {}
      BY <2>2, <2>3, Zenon DEF Cleared
    <3>2. DOMAIN MoveMap(c.redirects, from, to) = {}
      BY <3>1, Zenon DEF MoveMap
    <3> QED BY <2>3, <2>4, <3>2, Zenon
  <2>6. upper'.whiteouts = {} /\ upper'.overrides = {}
    <3>1. c.whiteouts = {} /\ c.overrides = {}
      BY <2>2, <2>3, Zenon
    <3>2. ~HasLower(from)
      BY Zenon DEF HasLower, Lower, Bare
    <3> QED BY <2>3, <3>1, <3>2, Zenon DEF MoveSet, Below, AtBelow
  <2>7. /\ DOMAIN upper'.nodes \subseteq Paths
        /\ \A q \in Paths :
             q \in DOMAIN upper'.nodes <=>
               /\ ~AtOrUnder(q, from)
               /\ IF AtOrUnder(q, to) THEN Rebase(q, to, from) \in D ELSE q \in D
        /\ \A q \in DOMAIN upper'.nodes :
             upper'.nodes[q] = IF AtOrUnder(q, to) THEN N[Rebase(q, to, from)]
                               ELSE N[q]
    <3> HIDE DEF N
    <3>1. upper'.nodes = MoveMap(Cleared(N, to), from, to)
      BY <2>3, Zenon
    <3> DEFINE g == MoveMap(Cleared(N, to), from, to)
    <3>2. DOMAIN N \subseteq Paths /\ Movable(DOMAIN N, from, to)
      BY <2>2, Zenon
    <3>3. /\ DOMAIN g \subseteq Paths
          /\ \A q \in Paths :
               q \in DOMAIN g <=>
                 /\ ~AtOrUnder(q, from)
                 /\ IF AtOrUnder(q, to) THEN Rebase(q, to, from) \in DOMAIN N
                    ELSE q \in DOMAIN N
          /\ \A q \in DOMAIN g :
               g[q] = IF AtOrUnder(q, to) THEN N[Rebase(q, to, from)] ELSE N[q]
      BY <1>2, <2>1, <3>2, NodesMoved
    <3> HIDE DEF g
    <3>4. upper'.nodes = g
      BY <3>1, Zenon DEF g
    <3>5. DOMAIN N = D
      BY <2>2, Zenon
    <3> QED BY <3>3, <3>4, <3>5, Zenon
  <2>8. /\ DOMAIN tree' \subseteq Paths
        /\ \A q \in Paths :
             q \in DOMAIN tree' <=>
               /\ ~AtOrUnder(q, from)
               /\ IF AtOrUnder(q, to) THEN Rebase(q, to, from) \in D ELSE q \in D
        /\ \A q \in DOMAIN tree' :
             tree'[q] = IF AtOrUnder(q, to) THEN tree[Rebase(q, to, from)]
                        ELSE tree[q]
    BY <1>1, <1>6, TreeMoved
  <2>9. DOMAIN tree' = DOMAIN upper'.nodes
    BY <2>7, <2>8, Zenon
  <2>10. ASSUME NEW q \in DOMAIN tree'
         PROVE  PlainAt(tree'[q], upper'.nodes[q])
    <3>1. \A p \in D : PlainAt(tree[p], N[p])
      BY <1>3, Zenon DEF Plain
    <3> HIDE DEF D, N
    <3>2. q \in Paths /\ q \in DOMAIN upper'.nodes
      BY <2>8, <2>9, Zenon
    <3>3. CASE AtOrUnder(q, to)
      <4>1. Rebase(q, to, from) \in D
        BY <2>8, <3>2, <3>3, Zenon
      <4>2. /\ tree'[q] = tree[Rebase(q, to, from)]
            /\ upper'.nodes[q] = N[Rebase(q, to, from)]
        BY <2>7, <2>8, <3>2, <3>3, Zenon
      <4> QED BY <3>1, <4>1, <4>2, Zenon
    <3>4. CASE ~AtOrUnder(q, to)
      <4>1. q \in D
        BY <2>8, <3>2, <3>4, Zenon
      <4>2. tree'[q] = tree[q] /\ upper'.nodes[q] = N[q]
        BY <2>7, <2>8, <3>2, <3>4, Zenon
      <4> QED BY <3>1, <4>1, <4>2, Zenon
    <3> QED BY <3>3, <3>4, Zenon
  <2>11. Ordinary(tree')
    <3>1. ASSUME NEW y \in Paths, Under(to, y)
          PROVE  y \in DOMAIN tree /\ tree[y].kind = "dir"
      <4>1. Parent(to) \in Paths /\ (y = Parent(to) \/ Under(Parent(to), y))
        BY <1>2, <3>1, AboveParent, Zenon
      <4>2. Parent(to) # NoPath
        BY <4>1, PathSeq, Zenon
      <4>3. Parent(to) \in DOMAIN tree /\ tree[Parent(to)].kind = "dir"
        BY <1>1, <1>2, <4>2, ReachedTree, Zenon
      <4> QED BY <4>1, <4>3, Zenon DEF Agree, Ordinary
    <3>2. Ordinary(tree)
      BY Zenon DEF Agree
    <3>3. Ordinary(RefRename(tree, from, to))
      BY <1>2, <1>6, <2>1, <2>2, <3>1, <3>2, TreeOrdinary, Zenon
    <3> QED BY <1>1, <3>3, Zenon
  <2>12. Plain'
    BY <2>5, <2>6, <2>9, <2>10, <2>11, Zenon DEF Plain
  <2> QED BY <1>4, <2>12, Zenon
<1> QED BY <1>5, <1>6, Zenon
----------------------------------------------------------------------------
(* The invariant *)

\* A fresh mount shows its lower tree.
LEMMA InvInit == Init => OverlayInv
<1> SUFFICES ASSUME Init
             PROVE  OverlayInv
  BY Zenon
<1>1. TypeOK
  BY TypesInit, Zenon
<1>2. /\ DOMAIN upper.nodes = {} /\ DOMAIN upper.redirects = {}
      /\ upper.whiteouts = {} /\ upper.overrides = {}
  BY DEF Init, NewUpper, EmptyMap
<1>3. /\ mount \in Mounts /\ DOMAIN tree = DOMAIN Lower
      /\ \A p \in DOMAIN tree :
           tree[p] = [kind |-> Lower[p],
                      base |-> IF Lower[p] = "dir" THEN NoPath ELSE p,
                      mode |-> "lower", own |-> FALSE]
  BY Zenon DEF Init
<1>4. /\ DOMAIN Lower \subseteq Paths
      /\ \A p \in DOMAIN Lower, q \in Paths :
           Under(p, q) => q \in DOMAIN Lower /\ Lower[q] = "dir"
  BY <1>3, MountAssumption, Zenon DEF Lower
<1>5. \A p \in DOMAIN tree : /\ tree[p].kind = Lower[p] /\ tree[p].own = FALSE
                             /\ tree[p].mode = "lower"
                             /\ tree[p].base = IF Lower[p] = "dir" THEN NoPath ELSE p
  <2> SUFFICES ASSUME NEW p \in DOMAIN tree
               PROVE  /\ tree[p].kind = Lower[p] /\ tree[p].own = FALSE
                      /\ tree[p].mode = "lower"
                      /\ tree[p].base = IF Lower[p] = "dir" THEN NoPath ELSE p
    BY Zenon
  <2> DEFINE b == IF Lower[p] = "dir" THEN NoPath ELSE p
  <2>1. tree[p] = [kind |-> Lower[p], base |-> b, mode |-> "lower", own |-> FALSE]
    BY <1>3, Zenon
  <2> HIDE DEF b
  <2>2. /\ tree[p].kind = Lower[p] /\ tree[p].own = FALSE
        /\ tree[p].mode = "lower" /\ tree[p].base = b
    BY <2>1
  <2> QED BY <2>2, Zenon DEF b
<1>6. Ordinary(tree)
  <2>1. \A p \in DOMAIN Lower : p \in DOMAIN tree /\ tree[p].kind = Lower[p]
    BY <1>3, <1>5, Zenon
  <2> QED BY <1>3, <1>4, <2>1, Zenon DEF Ordinary
<1>7. \A p : /\ LowerPath(upper, p) = p /\ HasNode(upper, p) = FALSE
             /\ ~Hidden(upper, p)
  <2>1. \A p : HasNode(upper, p) = FALSE
    BY <1>2 DEF HasNode
  <2> QED BY <1>2, <2>1, OwnLowerPath, Zenon DEF Hidden
<1>8. DOMAIN tree = {p \in Paths : Present(p)}
  BY <1>3, <1>4, <1>7, Zenon DEF Present, HasLower
<1>9. ASSUME NEW p \in DOMAIN tree
      PROVE  SameAt(p)
  <2>1. KindOf(p) = Lower[p] /\ ModeOf(p) = "lower"
    BY <1>2, <1>7, Zenon DEF KindOf, ModeOf
  <2>2. ReadsFrom(p) = IF Lower[p] = "dir" THEN NoPath ELSE p
    <3>1. /\ p \in DOMAIN Lower /\ LowerPath(upper, p) = p
          /\ (IF HasNode(upper, p) THEN upper.nodes[p].lowerRel ELSE p) = p
      BY <1>3, <1>7, Zenon
    <3> QED BY <3>1 DEF ReadsFrom
  <2> QED BY <1>5, <1>7, <2>1, <2>2, Zenon DEF SameAt
<1>10. Agree
  BY <1>2, <1>6, <1>8, <1>9, Zenon DEF Agree
<1> QED BY <1>1, <1>2, <1>10, Zenon DEF OverlayInv

\* Only a rename redirects.
LEMMA StraightStep ==
  ASSUME TypeOK, Next, ~Rename, DOMAIN upper.redirects = {}
  PROVE  DOMAIN upper'.redirects = {}
<1> SUFFICES \E p : OnlyAt(upper, upper', p)
  BY Zenon DEF OnlyAt
<1>1. UpperType(upper) /\ mount.named \subseteq Paths
  BY MountAssumption, Zenon DEF TypeOK
<1>2. ASSUME NEW p
      PROVE  OnlyAt(upper, upper, p)
  BY Zenon DEF OnlyAt
<1>3. CASE Create \/ Mkdir \/ Symlink
  <2>1. PICK p \in mount.named, k \in Kinds : upper' = SetNode(upper, p, New(k))
    BY <1>3, Makes, Zenon
  <2>2. New(k) \in Node /\ p \in Paths
    BY <1>1 DEF New, Node, Modes
  <2>3. OnlyAt(upper, SetNode(upper, p, New(k)), p)
    BY <1>1, <2>2, SetsNode, Zenon
  <2> QED BY <2>1, <2>3, Zenon
<1>4. CASE Write \/ Truncate
  <2>1. PICK p \in Writable, m \in Modes :
          upper' = IF HasNode(upper, p) THEN upper
                   ELSE absorbOverride(upper, p, [kind |-> "file",
                          mode |-> m, lowerRel |-> p])
    <3>1. "lower" \in Modes /\ "0644" \in Modes
      BY Zenon DEF Modes
    <3> QED BY <1>4, <3>1, Writes, Truncates, Zenon
  <2>2. CASE HasNode(upper, p)
    BY <1>2, <2>1, <2>2, Zenon
  <2>3. CASE ~HasNode(upper, p)
    <3>1. p \in Paths
      BY Zenon DEF Writable
    <3>2. Sparse(p, m)
      BY <1>1, <2>1, <2>3, <3>1, SparseNode, Zenon
    <3> QED BY <3>2, Zenon DEF Sparse
  <2> QED BY <2>2, <2>3, Zenon
<1>5. CASE Chmod
  <2>1. PICK p \in Paths :
          upper' = IF HasNode(upper, p)
                   THEN [upper EXCEPT !.nodes[p].mode = "set"]
                   ELSE [upper EXCEPT !.overrides = @ \cup {p}]
    BY <1>5, Chmods, Zenon
  <2>2. OnlyAt(upper, upper', p)
    BY <1>1, <2>1, Marks, Zenon
  <2> QED BY <2>2, Zenon
<1>6. CASE Unlink \/ Rmdir
  <2>1. PICK p \in Paths :
          upper' = IF HasNode(upper, p)
                   THEN [upper EXCEPT !.nodes = Drop(@, p)]
                   ELSE [upper EXCEPT !.whiteouts = @ \cup {p}]
    BY <1>6, Removes, Zenon
  <2>2. OnlyAt(upper, upper', p)
    BY <1>1, <2>1, Drops, Zenon
  <2> QED BY <2>2, Zenon
<1> QED BY <1>3, <1>4, <1>5, <1>6, Zenon DEF Next

\* The mount stays what it is, and serves the requests it serves.
LEMMA MountKept ==
  ASSUME Next
  PROVE  mount' = mount /\ (Rename => "rename" \in mount.requests)
<1>1. mount' = mount
  BY Zenon DEF Next, Create, Mkdir, Symlink, Write, Truncate, Chmod, Unlink, Rmdir,
               Rename, Commit
<1> QED BY <1>1, Renames, Zenon

\* Every handler keeps the invariant.
LEMMA InvStep == OverlayInv /\ [Next]_vars => OverlayInv'
<1> SUFFICES ASSUME OverlayInv, [Next]_vars
             PROVE  OverlayInv'
  BY Zenon
<1>1. TypeOK /\ TypeOK'
  BY TypesStep, Zenon DEF OverlayInv
<1>2. CASE UNCHANGED vars
  <2>1. mount' = mount /\ upper' = upper /\ tree' = tree
    BY <1>2, Zenon DEF vars
  <2>2. \A p : Present(p)' = Present(p)
    BY <2>1, Zenon DEF Present, HasLower, Lower
  <2>3. \A p : NodeSound(p) => NodeSound(p)'
    BY <2>1, Zenon DEF NodeSound, Lower
  <2>4. \A p : SameAt(p) => SameAt(p)'
    <3>1. \A p : /\ KindOf(p)' = KindOf(p) /\ ReadsFrom(p)' = ReadsFrom(p)
                 /\ ModeOf(p)' = ModeOf(p) /\ HasNode(upper, p)' = HasNode(upper, p)
      BY <2>1, Zenon DEF KindOf, ReadsFrom, HasNode, ModeOf, Lower
    <3>2. KeepsModes(mount)' = KeepsModes(mount)
      BY <2>1, Zenon
    <3> QED BY <2>1, <3>1, <3>2, Zenon DEF SameAt
  <2>5. Agree => Agree'
    BY <2>1, <2>2, <2>3, <2>4, Zenon DEF Agree
  <2> QED BY <1>1, <2>1, <2>5, Zenon DEF OverlayInv
<1>3. CASE Next
  <2>1. mount' = mount /\ (Rename => "rename" \in mount.requests)
    BY <1>3, MountKept, Zenon
  <2>2. ASSUME Agreeing(mount)
        PROVE  Agree'
    <3>1. Agree
      BY <2>2, Zenon DEF OverlayInv
    <3>2. Rename => Bare(mount)
      BY <2>1, <2>2, Zenon DEF Agreeing, Steady
    <3> QED BY <1>1, <1>3, <2>2, <3>1, <3>2, AgreeMakes, AgreeWrites, AgreeChmods,
               AgreeRemoves, AgreeRenames, Zenon DEF Next
  <2>3. ASSUME Straight(mount)
        PROVE  DOMAIN upper'.redirects = {}
    <3>1. CASE Bare(mount)
      <4>1. Agree'
        BY <2>2, <3>1, Zenon DEF Agreeing
      <4> QED BY <4>1, Zenon DEF Agree
    <3>2. CASE "rename" \notin mount.requests
      BY <1>1, <1>3, <2>1, <2>3, <3>2, StraightStep, Zenon DEF OverlayInv
    <3> QED BY <2>3, <3>1, <3>2, Zenon DEF Straight
  <2> QED BY <1>1, <2>1, <2>2, <2>3, Zenon DEF OverlayInv
<1> QED BY <1>2, <1>3, Zenon

\* OverlayInv holds in every reachable state.
LEMMA Invariant == Spec => []OverlayInv
  BY InvInit, InvStep, PTL DEF Spec----------------------------------------------------------------------------
(* What the mount shows *)

\* The merged view is the reference tree.
LEMMA ViewAt ==
  ASSUME Agree
  PROVE  /\ DOMAIN View = DOMAIN tree
         /\ \A p \in DOMAIN tree :
              /\ View[p].kind = tree[p].kind /\ View[p].base = tree[p].base
              /\ View[p].own = tree[p].own
              /\ KeepsModes(mount) => View[p].mode = tree[p].mode
<1>1. DOMAIN View = {p \in Paths : Reached(p)} /\ DOMAIN tree \subseteq Paths
  BY Zenon DEF View, Agree
<1>2. DOMAIN View = DOMAIN tree
  BY <1>1, ReachedTree, Zenon
<1>3. ASSUME NEW p \in DOMAIN tree
      PROVE  /\ View[p].kind = KindOf(p) /\ View[p].base = ReadsFrom(p)
             /\ View[p].mode = ModeOf(p) /\ View[p].own = HasNode(upper, p)
  <2>1. View[p] = Resolve(p)
    BY <1>1, <1>2, Zenon DEF View
  <2>2. /\ Resolve(p).kind = KindOf(p) /\ Resolve(p).base = ReadsFrom(p)
        /\ Resolve(p).mode = ModeOf(p) /\ Resolve(p).own = HasNode(upper, p)
    BY DEF Resolve
  <2> QED BY <2>1, <2>2, Zenon
<1>4. \A p \in DOMAIN tree : SameAt(p)
  BY Zenon DEF Agree
<1> QED BY <1>2, <1>3, <1>4, Zenon DEF SameAt

\* On an Agreeing mount nothing that was removed, moved away or replaced is
\* shown again (Unlink, Rmdir, Rename and their whiteouts).
THEOREM NothingComesBack == Spec => [](Agreeing(mount) => NothingReappears)
<1>1. OverlayInv => (Agreeing(mount) => NothingReappears)
  BY ViewAt, Zenon DEF OverlayInv, NothingReappears
<1> QED BY <1>1, Invariant, PTL

\* On an Agreeing mount everything the requests left there is shown (resolve,
\* applyRename).
THEOREM NothingGetsLost == Spec => [](Agreeing(mount) => NothingLost)
<1>1. OverlayInv => (Agreeing(mount) => NothingLost)
  BY ViewAt, Zenon DEF OverlayInv, NothingLost
<1> QED BY <1>1, Invariant, PTL

\* On an Agreeing mount each path shows the object that belongs there, with
\* its own data and the lower bytes under it (applyWrite, fallthroughSrc).
THEOREM ObjectsStay == Spec => [](Agreeing(mount) => ObjectsKept)
<1>1. OverlayInv => (Agreeing(mount) => ObjectsKept)
  BY ViewAt, Zenon DEF OverlayInv, ObjectsKept
<1> QED BY <1>1, Invariant, PTL

\* And its attributes follow it, unless a lower file is truncated
\* (absorbOverride, applyChmod).
THEOREM ModesStay ==
  Spec => [](Agreeing(mount) /\ KeepsModes(mount) => ModesKept)
<1>1. OverlayInv => (Agreeing(mount) /\ KeepsModes(mount) => ModesKept)
  BY ViewAt, Zenon DEF OverlayInv, ModesKept
<1> QED BY <1>1, Invariant, PTL

\* A path is its parent and its base, and only its parent is right above it.
LEMMA ParentBase ==
  ASSUME NEW p \in Paths
  PROVE  /\ Parent(p) \in Seq(Names) /\ Base(p) \in Names
         /\ p = Append(Parent(p), Base(p)) /\ AtOrUnder(p, Parent(p))
         /\ \A w \in Paths : AtOrUnder(p, w) => w = p \/ AtOrUnder(Parent(p), w)
<1>1. p \in Seq(Names) /\ Len(p) \in Nat \ {0}
  BY PathSeq, LenProperties, EmptySeq DEF NoPath
<1> DEFINE d == Parent(p)
           n == Len(p)
<1>2. /\ d \in Seq(Names) /\ Len(d) = n - 1
      /\ \A i \in 1 .. n - 1 : d[i] = p[i]
  <2>1. n - 1 \in Nat /\ n - 1 <= n
    BY <1>1
  <2> DEFINE m == n - 1
             c == SubSeq(p, 1, m)
  <2>2. m \in Nat /\ m <= Len(p)
    BY <2>1
  <2>3. d = c
    BY Zenon DEF Parent
  <2> HIDE DEF m, d, n
  <2>4. c \in Seq(Names) /\ Len(c) = m /\ \A i \in 1 .. m : c[i] = p[i]
    BY <1>1, <2>2, SMTT(30)
  <2> QED BY <2>3, <2>4, Zenon DEF m
<1>3. Base(p) \in Names
  BY <1>1 DEF Base
<1> HIDE DEF d
<1>4. p = Append(d, Base(p))
  BY <1>1, <1>2, <1>3, AppendProperties, SeqEqual DEF Base
<1>5. AtOrUnder(p, d)
  BY <1>1, <1>2, PrefixAt
<1>6. ASSUME NEW w \in Paths, AtOrUnder(p, w), w # p
      PROVE  AtOrUnder(d, w)
  <2>1. Under(p, w)
    BY <1>6, Zenon DEF Under
  <2>2. d \in Paths /\ (w = d \/ Under(d, w))
    BY <2>1, AboveParent, Zenon DEF d
  <2> QED BY <1>2, <2>2, UnderAt, Zenon DEF Under
<1> QED BY <1>2, <1>3, <1>4, <1>5, <1>6, Zenon DEF d

\* The parent and base of a path made of them.
LEMMA AppendParent ==
  ASSUME NEW d \in Seq(Names), NEW n \in Names
  PROVE  Parent(Append(d, n)) = d /\ Base(Append(d, n)) = n
<1> DEFINE p == Append(d, n)
<1>1. /\ p \in Seq(Names) /\ Len(p) = Len(d) + 1 /\ Len(d) \in Nat
      /\ p[Len(d) + 1] = n /\ \A i \in 1 .. Len(d) : p[i] = d[i]
  BY AppendProperties, LenProperties
<1> HIDE DEF p
<1>2. SubSeq(p, 1, Len(d)) = d
  <2>1. AtOrUnder(p, d)
    BY <1>1, PrefixAt
  <2> QED BY <2>1, Zenon DEF AtOrUnder
<1>3. Len(p) - 1 = Len(d)
  BY <1>1
<1> QED BY <1>1, <1>2, <1>3, Zenon DEF Parent, Base, p
\* A path is hidden when it is whiteouted itself, or what it is in is hidden.
LEMMA HiddenIn ==
  ASSUME TypeOK, NEW p \in Paths
  PROVE  Hidden(upper, p) <=> p \in upper.whiteouts \/ Hidden(upper, Parent(p))
<1>1. /\ p \in Seq(Names) /\ Parent(p) \in Seq(Names) /\ AtOrUnder(p, Parent(p))
      /\ \A w \in Paths : AtOrUnder(p, w) => w = p \/ AtOrUnder(Parent(p), w)
  BY ParentBase, PathSeq, Zenon
<1>2. /\ upper.whiteouts \subseteq Paths /\ AtOrUnder(p, p)
      /\ \A w \in Paths : w \in Seq(Names)
  BY <1>1, UnderAt, PathSeq, Zenon DEF TypeOK, UpperType
<1>3. \A w \in Paths : AtOrUnder(Parent(p), w) => AtOrUnder(p, w)
  BY <1>1, <1>2, UnderTransitive, Zenon
<1> QED BY <1>1, <1>2, <1>3, Zenon DEF Hidden

\* Without redirects readdir and lookup agree.
LEMMA ListingSame ==
  ASSUME TypeOK, DOMAIN upper.redirects = {}
  PROVE  ListingAgrees
<1> SUFFICES ASSUME NEW dir \in {NoPath} \cup {p \in Paths : Reached(p) /\ IsDir(p)}
             PROVE  Listing(dir) = {p \in Paths : Parent(p) = dir /\ Present(p)}
  BY Zenon DEF ListingAgrees
<1>1. dir \in Seq(Names)
  <2>1. NoPath \in Seq(Names)
    BY EmptySeq DEF NoPath
  <2> QED BY <2>1, PathSeq, Zenon
<1>2. /\ DOMAIN Lower \subseteq Paths /\ DOMAIN upper.nodes \subseteq Paths
      /\ \A p : LowerPath(upper, p) = p
  BY MountAssumption, OwnLowerPath, Zenon DEF TypeOK, UpperType, Lower
<1>3. \A p \in Paths : p # NoPath
  BY PathSeq, Zenon
<1>4. \A p : p \in ChildrenIn(DOMAIN upper.nodes, dir)
             <=> HasNode(upper, p) /\ Parent(p) = dir
  BY <1>2, <1>3, Zenon DEF ChildrenIn, HasNode
<1>5. \A p : p \in LowerNames(dir) <=> p \in DOMAIN Lower /\ Parent(p) = dir
  <2>1. ASSUME NEW p \in LowerNames(dir)
        PROVE  p \in DOMAIN Lower /\ Parent(p) = dir
    <3>1. PICK n \in Names : p = Append(dir, n) /\ Append(dir, Base(p)) \in DOMAIN Lower
      BY <1>2, Zenon DEF LowerNames
    <3> QED BY <1>1, <3>1, AppendParent, Zenon
  <2>2. ASSUME NEW p \in DOMAIN Lower, Parent(p) = dir
        PROVE  p \in LowerNames(dir)
    <3>1. Base(p) \in Names /\ p = Append(dir, Base(p))
      BY <1>2, <2>2, ParentBase, Zenon
    <3> QED BY <1>2, <3>1, Zenon DEF LowerNames
  <2> QED BY <2>1, <2>2, Zenon
<1>6. Redirected(dir) = {}
  BY Zenon DEF Redirected, ChildrenIn
<1>7. \A p \in Paths : p \in White(dir) <=>
        p \in upper.whiteouts /\ Parent(p) = dir /\ ~HasNode(upper, p)
  BY <1>3, <1>4, Zenon DEF White, ChildrenIn
<1>8. \A p : p \in Listing(dir) <=>
        \/ p \in LowerNames(dir) /\ ~Hidden(upper, dir) /\ p \notin White(dir)
        \/ p \in ChildrenIn(DOMAIN upper.nodes, dir)
  BY <1>6, Zenon DEF Listing
<1>9. \A p \in Paths : Present(p) <=>
        HasNode(upper, p) \/ (~Hidden(upper, p) /\ p \in DOMAIN Lower)
  BY <1>2, Zenon DEF Present, HasLower
<1>10. \A p : p \in Listing(dir) => p \in Paths
  BY <1>2, <1>4, <1>5, <1>8, Zenon DEF HasNode
<1>11. ASSUME NEW p \in Paths
       PROVE  p \in Listing(dir) <=> Parent(p) = dir /\ Present(p)
  <2>1. Hidden(upper, p) <=> p \in upper.whiteouts \/ Hidden(upper, Parent(p))
    BY HiddenIn, Zenon
  <2> QED BY <1>4, <1>5, <1>7, <1>8, <1>9, <2>1, Zenon
<1> QED BY <1>10, <1>11, Zenon

\* Where no path is served from another place of the lower tree, a directory
\* lists exactly the names that resolve in it (mergedEntries, resolve).
THEOREM ListingsAgree == Spec => [](Straight(mount) => ListingAgrees)
<1>1. OverlayInv => (Straight(mount) => ListingAgrees)
  BY ListingSame, Zenon DEF OverlayInv
<1> QED BY <1>1, Invariant, PTL
=============================================================================
