--------------------------- MODULE RequestsProofs ---------------------------
(***************************************************************************)
(* What module Requests checks of concurrent requests, proved for any      *)
(* number of them, every set of mounts, every set of names and every       *)
(* depth, on the mounts Agreeing describes: no request is refused for one  *)
(* that ran beside it, each commit is a step of Overlay, and the mount     *)
(* shows the tree an ordinary file system would.                           *)
(*                                                                         *)
(* The argument: what a handler asks of the merged view is a question      *)
(* about the reference tree (Takes), and its answer depends on few paths   *)
(* (Minds).  The locks of a request keep every other one from changing the *)
(* tree there, unless it moves a directory above them.                     *)
(***************************************************************************)
EXTENDS Requests, OverlayProofs

(* What a request depends on *)

Creating == {"create", "mkdir", "symlink"}

\* The paths whose entries decide whether a tree takes e.
Minds(e) ==
  CASE e.op \in Creating -> {e.path, Parent(e.path)}
    [] e.op = "rename" -> {e.path, e.to, Parent(e.to)}
    [] OTHER -> {e.path}

\* From t to r the entry at p stays, or stays away.
KeptAt(t, r, p) ==
  /\ p \in DOMAIN r <=> p \in DOMAIN t
  /\ p \in DOMAIN t => r[p].kind = t[p].kind

\* A tree that keeps those, and the empty directories e is about, takes e.
LEMMA StaysTaken ==
  ASSUME NEW t, NEW r, NEW e, Takes(t, e),
         \A p \in Minds(e) : p # NoPath => KeptAt(t, r, p),
         e.path # NoPath, e.op = "rename" => e.to # NoPath,
         e.op = "write" => r[e.path].own = t[e.path].own,
         e.op = "rmdir" /\ EmptyIn(t, e.path) => EmptyIn(r, e.path),
         e.op = "rename" /\ e.to \in DOMAIN t /\ EmptyIn(t, e.to) => EmptyIn(r, e.to)
  PROVE  Takes(r, e) /\ Locks(r, e) = Locks(t, e)
<1> DEFINE p == e.path
           In(s, q) == Parent(q) = NoPath \/ DirIn(s, Parent(q))
<1>0. \A q : KeptAt(t, r, q) => (DirIn(r, q) <=> DirIn(t, q))
  BY Zenon DEF KeptAt, DirIn
<1>1. CASE e.op \in Creating
  <2>1. Minds(e) = {p, Parent(p)}
    BY <1>1 DEF Minds, Creating
  <2>2. In(t, p) /\ p \notin DOMAIN t
    BY <1>1 DEF Takes, Creating
  <2>3. p \notin DOMAIN r
    BY <2>1, <2>2, Zenon DEF KeptAt
  <2>4. In(r, p)
    BY <1>0, <2>1, <2>2, Zenon
  <2>5. Takes(r, e)
    BY <1>1, <2>3, <2>4, Zenon DEF Takes, Creating
  <2>6. Locks(t, e) = {Parent(p)} /\ Locks(r, e) = {Parent(p)}
    BY <1>1, Zenon DEF Locks, Creating
  <2> QED BY <2>5, <2>6, Zenon
<1>2. CASE e.op = "rename"
  <2>1. Minds(e) = {p, e.to, Parent(e.to)}
    BY <1>2 DEF Minds, Creating
  <2>2. /\ p \in DOMAIN t /\ In(t, e.to)
        /\ e.to \in DOMAIN t => (DirIn(t, e.to) <=> DirIn(t, p)) /\ EmptyIn(t, e.to)
        /\ DirIn(t, p) => ~Under(e.to, p) /\ Len(e.to) = Len(p)
    BY <1>2 DEF Takes
  <2>3. KeptAt(t, r, p) /\ KeptAt(t, r, e.to)
    BY <1>2, <2>1, Zenon
  <2>4. In(r, e.to)
    BY <1>0, <2>1, <2>2, Zenon
  <2>5. /\ p \in DOMAIN r /\ (DirIn(r, p) <=> DirIn(t, p))
        /\ e.to \in DOMAIN r => e.to \in DOMAIN t
        /\ DirIn(r, e.to) <=> DirIn(t, e.to)
    BY <1>0, <2>2, <2>3, Zenon DEF KeptAt
  <2>6. e.to \in DOMAIN r => (DirIn(r, e.to) <=> DirIn(r, p)) /\ EmptyIn(r, e.to)
    BY <1>2, <2>2, <2>5, Zenon
  <2>7. Takes(r, e)
    BY <1>2, <2>2, <2>4, <2>5, <2>6, Zenon DEF Takes
  <2>8. \A s : Locks(s, e) = {Parent(p), Parent(e.to), e.to}
                               \cup (IF DirIn(s, p) THEN {} ELSE {p})
    BY <1>2 DEF Locks
  <2>9. Locks(r, e) = Locks(t, e)
    BY <2>5, <2>8, Zenon
  <2> QED BY <2>7, <2>9, Zenon
<1>3. CASE e.op \notin Creating /\ e.op # "rename"
  <2>1. Minds(e) = {p}
    BY <1>3, Zenon DEF Minds
  <2>2. KeptAt(t, r, p) /\ (DirIn(r, p) <=> DirIn(t, p))
    BY <1>0, <2>1, Zenon
  <2>3. /\ p \in DOMAIN t
        /\ \/ e.op = "write" /\ t[p].kind = "file" /\ e.fall = ~t[p].own
           \/ e.op = "truncate" /\ t[p].kind = "file"
           \/ e.op = "chmod"
           \/ e.op = "unlink" /\ ~DirIn(t, p)
           \/ e.op = "rmdir" /\ DirIn(t, p) /\ EmptyIn(t, p)
    BY <1>3, Zenon DEF Takes, Creating, DirIn
  <2>4. p \in DOMAIN r /\ r[p].kind = t[p].kind
    BY <2>2, <2>3, Zenon DEF KeptAt
  <2>5. Takes(r, e)
    BY <2>2, <2>3, <2>4, Zenon DEF Takes
  <2>6. Locks(r, e) = Locks(t, e)
    <3>1. \A s : Locks(s, e) = IF e.op \in {"unlink", "rmdir"} THEN {Parent(p), p} ELSE {p}
      BY <2>3 DEF Locks
    <3> QED BY <3>1, Zenon
  <2> QED BY <2>5, <2>6, Zenon
<1> QED BY <1>1, <1>2, <1>3, Zenon

\* The locks of e are on those paths or, where nothing is or a directory is
\* moved away, on the directory above.
Guarded(t, e, m) ==
  \/ m \in DOMAIN t /\ (m \in Locks(t, e) \/ Parent(m) \in Locks(t, e))
  \/ /\ m \notin DOMAIN t /\ Parent(m) \in Locks(t, e)
     /\ Parent(m) = NoPath \/ Parent(m) \in DOMAIN t

LEMMA LocksGuard ==
  ASSUME NEW t, NEW e, Takes(t, e)
  PROVE  /\ \A m \in Minds(e) : m = NoPath \/ Guarded(t, e, m)
         /\ e.op \notin Creating /\ e.op # "rename" => e.path \in Locks(t, e)
         /\ e.op = "rename" => e.to \in Locks(t, e) /\ Parent(e.to) \in Locks(t, e)
         /\ e.op \in Creating \cup {"unlink", "rmdir"} => Parent(e.path) \in Locks(t, e)
<1> DEFINE p == e.path
           In(q) == Parent(q) = NoPath \/ Parent(q) \in DOMAIN t
<1>1. CASE e.op \in Creating
  <2>1. Minds(e) = {p, Parent(p)} /\ e.op \notin {"rename", "unlink", "rmdir"}
    BY <1>1 DEF Minds, Creating
  <2>2. In(p) /\ p \notin DOMAIN t
    BY <1>1 DEF Takes, Creating, DirIn
  <2>3. Parent(p) \in Locks(t, e)
    BY <1>1, Zenon DEF Locks, Creating
  <2> QED BY <1>1, <2>1, <2>2, <2>3, Zenon DEF Guarded
<1>2. CASE e.op = "rename"
  <2>1. /\ Minds(e) = {p, e.to, Parent(e.to)}
        /\ e.op \notin Creating \cup {"unlink", "rmdir"}
    BY <1>2 DEF Minds, Creating
  <2>2. p \in DOMAIN t /\ In(e.to)
    BY <1>2 DEF Takes, DirIn
  <2>3. /\ Parent(p) \in Locks(t, e) /\ Parent(e.to) \in Locks(t, e)
        /\ e.to \in Locks(t, e)
    <3>1. Locks(t, e) = {Parent(p), Parent(e.to), e.to}
                          \cup (IF DirIn(t, p) THEN {} ELSE {p})
      BY <1>2 DEF Locks
    <3> QED BY <3>1, Zenon
  <2> QED BY <1>2, <2>1, <2>2, <2>3, Zenon DEF Guarded
<1>3. CASE e.op \notin Creating /\ e.op # "rename"
  <2>1. Minds(e) = {p}
    BY <1>3, Zenon DEF Minds
  <2>2. p \in DOMAIN t /\ e.op \in {"write", "truncate", "chmod", "unlink", "rmdir"}
    BY <1>3, Zenon DEF Takes, Creating, DirIn
  <2>3. Locks(t, e) = IF e.op \in {"unlink", "rmdir"} THEN {Parent(p), p} ELSE {p}
    BY <2>2 DEF Locks
  <2>4. /\ p \in Locks(t, e)
        /\ e.op \in {"unlink", "rmdir"} => Parent(p) \in Locks(t, e)
    BY <2>3, Zenon
  <2> QED BY <1>3, <2>1, <2>2, <2>4, Zenon DEF Guarded
<1> QED BY <1>1, <1>2, <1>3, Zenon

\* Two requests in flight over tree t.
Beside(t, e, f) ==
  /\ DOMAIN t \subseteq Paths /\ Ordinary(t)
  /\ \A p \in DOMAIN t : t[p] \in Entry
  /\ Takes(t, e) /\ Takes(t, f) /\ Locks(t, e) \cap Locks(t, f) = {}
  /\ e.path \in Paths /\ f.path \in Paths
  /\ e.op = "rename" => e.to \in Paths
  /\ f.op = "rename" => f.to \in Paths

\* Tree r takes e as t does, with the same locks.
Undisturbed(t, r, e) == Takes(r, e) /\ Locks(r, e) = Locks(t, e)

\* What to show of the tree r that f leaves.
LEMMA BesideStays ==
  ASSUME NEW t, NEW r, NEW e, NEW f, Beside(t, e, f),
         \A p \in Minds(e) : p # NoPath => KeptAt(t, r, p),
         e.op = "write" => r[e.path].own = t[e.path].own,
         \A d \in Locks(t, e) : d \in DOMAIN t /\ EmptyIn(t, d) => EmptyIn(r, d)
  PROVE  Undisturbed(t, r, e)
<1>1. e.path # NoPath /\ (e.op = "rename" => e.to # NoPath)
  BY PathSeq, Zenon DEF Beside
<1>2. e.op = "rmdir" => e.path \in Locks(t, e) /\ e.path \in DOMAIN t
  BY LocksGuard DEF Beside, Takes, DirIn, Creating
<1>3. e.op = "rename" => e.to \in Locks(t, e)
  BY LocksGuard, Zenon DEF Beside
<1>4. Takes(t, e)
  BY Zenon DEF Beside
<1>5. e.op = "rmdir" /\ EmptyIn(t, e.path) => EmptyIn(r, e.path)
  BY <1>2, Zenon
<1>6. e.op = "rename" /\ e.to \in DOMAIN t /\ EmptyIn(t, e.to) => EmptyIn(r, e.to)
  BY <1>3, Zenon
<1> QED BY <1>1, <1>4, <1>5, <1>6, StaysTaken, ZenonT(30) DEF Undisturbed

\* A request that makes an entry.
LEMMA BesideMake ==
  ASSUME NEW t, NEW e, NEW f, Beside(t, e, f), f.op \in Creating, NEW entry
  PROVE  Undisturbed(t, Put(t, f.path, entry), e)
<1> DEFINE q == f.path
           r == Put(t, q, entry)
<1>1. DOMAIN r = DOMAIN t \cup {q} /\ \A p \in DOMAIN t : p # q => r[p] = t[p]
  BY Zenon DEF Put
<1>2. q \notin DOMAIN t
  BY DEF Beside, Takes, Creating
<1>3. Parent(q) \in Locks(t, f)
  BY LocksGuard, Zenon DEF Beside
<1> HIDE DEF r, q
<1>4. ASSUME NEW p \in Minds(e), p # NoPath
      PROVE  KeptAt(t, r, p)
  <2>1. Guarded(t, e, p)
    BY <1>4, LocksGuard, Zenon DEF Beside
  <2>2. p # q
    BY <1>2, <1>3, <2>1, Zenon DEF Guarded, Beside
  <2> QED BY <1>1, <2>2, Zenon DEF KeptAt
<1>5. e.op = "write" => r[e.path].own = t[e.path].own
  <2>1. e.op = "write" => e.path \in DOMAIN t
    BY DEF Beside, Takes
  <2> QED BY <1>1, <1>2, <2>1, Zenon
<1>6. \A d \in Locks(t, e) : EmptyIn(t, d) => EmptyIn(r, d)
  BY <1>1, <1>3, Zenon DEF EmptyIn, Beside
<1> QED BY <1>4, <1>5, <1>6, BesideStays, Zenon DEF r, q

\* One that changes an entry where it is.
LEMMA BesideChange ==
  ASSUME NEW t, NEW e, NEW f, Beside(t, e, f),
         f.op \in {"write", "truncate", "chmod"}, NEW r, DOMAIN r = DOMAIN t,
         \A p \in DOMAIN t : r[p].kind = t[p].kind,
         \A p \in DOMAIN t : p # f.path => r[p].own = t[p].own
  PROVE  Undisturbed(t, r, e)
<1>1. f.path \in Locks(t, f)
  BY SMTT(30), LocksGuard DEF Beside, Creating
<1>2. e.op = "write" => e.path \in Locks(t, e) /\ e.path \in DOMAIN t
  BY LocksGuard DEF Beside, Takes, Creating
<1>3. e.op = "write" => r[e.path].own = t[e.path].own
  BY <1>1, <1>2, Zenon DEF Beside
<1>4. \A p : KeptAt(t, r, p)
  BY Zenon DEF KeptAt
<1>5. \A d : EmptyIn(t, d) => EmptyIn(r, d)
  BY Zenon DEF EmptyIn
<1> QED BY <1>3, <1>4, <1>5, BesideStays, Zenon

\* One that removes an entry.
LEMMA BesideRemove ==
  ASSUME NEW t, NEW e, NEW f, Beside(t, e, f), f.op \in {"unlink", "rmdir"}
  PROVE  Undisturbed(t, Drop(t, f.path), e)
<1> DEFINE q == f.path
           r == Drop(t, q)
<1>1. DOMAIN r = DOMAIN t \ {q} /\ \A p \in DOMAIN t : p # q => r[p] = t[p]
  BY Zenon DEF Drop
<1>2. q \in DOMAIN t
  BY DEF Beside, Takes, DirIn, Creating
<1>3. q \in Locks(t, f) /\ Parent(q) \in Locks(t, f)
  BY LocksGuard DEF Beside, Creating
<1> HIDE DEF r, q
<1>4. ASSUME NEW p \in Minds(e), p # NoPath
      PROVE  KeptAt(t, r, p)
  <2>1. Guarded(t, e, p)
    BY <1>4, LocksGuard, Zenon DEF Beside
  <2>2. p # q
    BY <1>2, <1>3, <2>1, Zenon DEF Guarded, Beside
  <2> QED BY <1>1, <2>2, Zenon DEF KeptAt
<1>5. e.op = "write" => r[e.path].own = t[e.path].own
  <2>1. e.op = "write" => e.path \in DOMAIN t /\ e.path \in Locks(t, e)
    BY LocksGuard DEF Beside, Takes, Creating
  <2> QED BY <1>1, <1>3, <2>1, Zenon DEF Beside
<1>6. \A d : EmptyIn(t, d) => EmptyIn(r, d)
  BY <1>1, Zenon DEF EmptyIn
<1> QED BY <1>4, <1>5, <1>6, BesideStays, Zenon DEF r, q

\* What e depends on are paths.
LEMMA MindsPaths ==
  ASSUME NEW t, NEW e, NEW f, Beside(t, e, f), NEW p \in Minds(e), p # NoPath
  PROVE  /\ p \in Paths /\ Guarded(t, e, p)
         /\ \/ p = e.path
            \/ e.op = "rename" /\ p = e.to
            \/ p = Parent(e.path)
            \/ e.op = "rename" /\ p = Parent(e.to)
<1>1. Guarded(t, e, p)
  BY LocksGuard, Zenon DEF Beside
<1>2. CASE e.op \in Creating
  <2>1. p \in {e.path, Parent(e.path)}
    BY SMTT(30), <1>2 DEF Minds, Creating
  <2>2. Parent(e.path) = NoPath \/ Parent(e.path) \in DOMAIN t
    BY <1>2 DEF Beside, Takes, Creating, DirIn
  <2> QED BY <1>1, <2>1, <2>2, Zenon DEF Beside
<1>3. CASE e.op = "rename"
  <2>1. p \in {e.path, e.to, Parent(e.to)}
    BY SMTT(30), <1>3 DEF Minds, Creating
  <2>2. Parent(e.to) = NoPath \/ Parent(e.to) \in DOMAIN t
    BY <1>3 DEF Beside, Takes, DirIn
  <2> QED BY <1>1, <1>3, <2>1, <2>2, Zenon DEF Beside
<1>4. CASE e.op \notin Creating /\ e.op # "rename"
  <2>1. p = e.path
    BY <1>4, Zenon DEF Minds
  <2> QED BY <1>1, <2>1, Zenon DEF Beside
<1> QED BY <1>2, <1>3, <1>4, Zenon

\* One that moves an entry, and not a directory that e is in.
LEMMA BesideRename ==
  ASSUME NEW t, NEW e, NEW f, Beside(t, e, f), f.op = "rename", f.path # f.to,
         ~AtOrUnder(e.path, f.path), e.op = "rename" => ~AtOrUnder(e.to, f.path)
  PROVE  Undisturbed(t, RefRename(t, f.path, f.to), e)
<1> DEFINE a == f.path
           b == f.to
           r == RefRename(t, a, b)
<1>1. /\ a \in Paths /\ b \in Paths /\ DOMAIN t \subseteq Paths /\ Ordinary(t)
      /\ Locks(t, e) \cap Locks(t, f) = {}
  BY Zenon DEF Beside
<1>2. \A q \in Paths : q \in Seq(Names)
  BY PathSeq, Zenon
<1>3. b \in Locks(t, f) /\ Parent(b) \in Locks(t, f)
  BY LocksGuard, Zenon DEF Beside
<1>5. b \in DOMAIN t => EmptyIn(t, b)
  BY DEF Beside, Takes
<1>0. a # b
  BY Zenon
<1> HIDE DEF a, b
<1>4. /\ \A q \in Paths :
           q \in DOMAIN r <=>
             /\ ~AtOrUnder(q, a)
             /\ IF AtOrUnder(q, b) THEN Rebase(q, b, a) \in DOMAIN t
                ELSE q \in DOMAIN t
      /\ \A q \in DOMAIN r :
           r[q] = IF AtOrUnder(q, b) THEN t[Rebase(q, b, a)] ELSE t[q]
  BY <1>0, TreeMoved
<1> HIDE DEF r
<1>6. \A q \in DOMAIN t : ~Under(q, b)
  <2> SUFFICES ASSUME NEW q \in DOMAIN t, Under(q, b)
               PROVE  FALSE
    BY Zenon
  <2>1. q \in Paths /\ b \in DOMAIN t
    BY <1>1, Zenon DEF Ordinary
  <2>2. PICK c \in Paths : Parent(c) = b /\ AtOrUnder(q, c)
    BY <1>1, <2>1, ChildAbove, Zenon
  <2>3. q = c \/ Under(q, c)
    BY <1>2, <2>1, <2>2, UnderAt, Zenon
  <2>4. c \in DOMAIN t
    BY <1>1, <2>3, Zenon DEF Ordinary
  <2> QED BY <1>5, <2>1, <2>2, <2>4, Zenon DEF EmptyIn
<1>7. \A q \in Paths : AtOrUnder(q, b) => q = b \/ Under(q, b)
  BY <1>1, <1>2, UnderAt, Zenon
<1>8. ASSUME NEW p \in Minds(e), p # NoPath
      PROVE  /\ p \in Paths /\ ~AtOrUnder(p, a) /\ ~AtOrUnder(p, b)
  <2>1. /\ p \in Paths /\ Guarded(t, e, p)
        /\ \/ p = e.path
           \/ e.op = "rename" /\ p = e.to
           \/ p = Parent(e.path)
           \/ e.op = "rename" /\ p = Parent(e.to)
    BY <1>8, MindsPaths, Zenon
  <2>2. ASSUME NEW x \in Paths, p = Parent(x), ~AtOrUnder(x, a)
        PROVE  ~AtOrUnder(p, a)
    <3>1. AtOrUnder(x, p)
      BY <2>2, ParentBase, Zenon
    <3> QED BY <1>1, <1>2, <2>1, <2>2, <3>1, UnderTransitive, Zenon
  <2>3. ~AtOrUnder(p, a)
    BY <2>1, <2>2, Zenon DEF Beside, a
  <2>4. ASSUME AtOrUnder(p, b), p \in DOMAIN t
        PROVE  FALSE
    <3>1. p = b
      BY <1>6, <1>7, <2>1, <2>4, Zenon
    <3> QED BY <1>1, <1>3, <2>1, <2>4, <3>1, Zenon DEF Guarded
  <2>5. ASSUME AtOrUnder(p, b), p \notin DOMAIN t
        PROVE  FALSE
    <3>1. /\ Parent(p) \in Locks(t, e)
          /\ Parent(p) = NoPath \/ Parent(p) \in DOMAIN t
      BY <2>1, <2>5, Zenon DEF Guarded
    <3>2. CASE p = b
      BY <1>1, <1>3, <3>1, <3>2, Zenon
    <3>3. CASE Under(p, b)
      <4>1. Parent(p) \in Paths /\ (b = Parent(p) \/ Under(Parent(p), b))
        BY <1>1, <2>1, <3>3, AboveParent, Zenon
      <4>2. Parent(p) \in DOMAIN t
        BY <3>1, <4>1, PathSeq, Zenon
      <4> QED BY <1>1, <1>3, <1>6, <3>1, <4>1, <4>2, Zenon
    <3> QED BY <1>7, <2>1, <2>5, <3>2, <3>3, Zenon
  <2> QED BY <2>1, <2>3, <2>4, <2>5, Zenon
<1>9. \A p \in Minds(e) :
        p # NoPath => KeptAt(t, r, p) /\ (p \in DOMAIN t => r[p] = t[p])
  BY <1>4, <1>8, Zenon DEF KeptAt
<1>10. e.op = "write" => r[e.path].own = t[e.path].own
  <2>1. e.op = "write" => e.path \in DOMAIN t /\ e.path \in Minds(e)
    BY DEF Beside, Takes, Minds, Creating
  <2>2. e.path # NoPath
    BY PathSeq, Zenon DEF Beside
  <2> QED BY <1>9, <2>1, <2>2, Zenon
<1>11. ASSUME NEW d \in Locks(t, e), d \in DOMAIN t, EmptyIn(t, d)
       PROVE  EmptyIn(r, d)
  <2> SUFFICES ASSUME NEW q \in Paths, Parent(q) = d, q \in DOMAIN r
               PROVE  FALSE
    BY Zenon DEF EmptyIn
  <2>1. AtOrUnder(q, b)
    BY <1>4, <1>11, Zenon DEF EmptyIn
  <2>2. CASE q = b
    BY <1>1, <1>3, <2>2, Zenon
  <2>3. CASE Under(q, b)
    <3>1. b = d \/ Under(d, b)
      BY <1>1, <2>3, AboveParent, Zenon
    <3> QED BY <1>1, <1>3, <1>6, <1>11, <3>1, Zenon
  <2> QED BY <1>7, <2>1, <2>2, <2>3, Zenon
<1>12. Undisturbed(t, r, e)
  BY <1>9, <1>10, <1>11, BesideStays, Zenon
<1> QED BY <1>12, Zenon DEF r, a, b

\* A path that stays where it is when from moves is not in from.
LEMMA StaysOut ==
  ASSUME NEW p \in Paths, NEW from \in Paths, NEW to \in Paths, from # to,
         Rebase(p, from, to) = p
  PROVE  ~AtOrUnder(p, from)
<1> SUFFICES ASSUME AtOrUnder(p, from)
             PROVE  FALSE
  BY Zenon
<1>1. p \in Seq(Names) /\ from \in Seq(Names) /\ to \in Seq(Names)
  BY PathSeq, Zenon
<1>2. Len(p) = Len(p) - Len(from) + Len(to) /\ AtOrUnder(p, to)
  <2>1. /\ Len(Rebase(p, from, to)) = Len(p) - Len(from) + Len(to)
        /\ AtOrUnder(Rebase(p, from, to), to)
    BY <1>1, Rebases
  <2> QED BY <2>1, Zenon
<1>3. Len(p) \in Nat /\ Len(from) \in Nat /\ Len(to) \in Nat
  BY <1>1, LenProperties
<1>4. Len(from) = Len(to)
  BY <1>2, <1>3
<1>5. \A i \in 1 .. Len(from) : from[i] = to[i]
  <2>1. \A i \in 1 .. Len(from) : p[i] = from[i]
    BY <1>1, PrefixAt, Zenon
  <2>2. \A i \in 1 .. Len(to) : p[i] = to[i]
    BY <1>1, <1>2, PrefixAt, Zenon
  <2> QED BY <1>4, <2>1, <2>2, Zenon
<1> QED BY <1>1, <1>4, <1>5, SeqEqual, Zenon

\* The commit of f leaves alone what e depends on, and the locks of e, unless
\* it moves the paths of e.
LEMMA Unaffected ==
  ASSUME NEW t, NEW e, NEW f, Beside(t, e, f),
         "path" \in DOMAIN e, e.op = "rename" => "to" \in DOMAIN e,
         Follow(e, f) = e
  PROVE  Undisturbed(t, Reference(t, f), e)
<1>1. Takes(t, e) /\ Takes(t, f)
  BY Zenon DEF Beside
<1>2. CASE f.op \in Creating
  <2>1. \E entry : Reference(t, f) = Put(t, f.path, entry)
    BY <1>2 DEF Creating, Reference
  <2> QED BY <1>2, <2>1, BesideMake, Zenon
<1>3. CASE f.op \in {"write", "truncate"}
  <2> DEFINE r == [p \in DOMAIN t |-> [t[p] EXCEPT !.own = @ \/ p = f.path]]
  <2>1. Reference(t, f) = r
    BY <1>3 DEF Reference
  <2>2. /\ DOMAIN r = DOMAIN t
        /\ \A p \in DOMAIN t : r[p] = [t[p] EXCEPT !.own = @ \/ p = f.path]
    BY Zenon
  <2> HIDE DEF r
  <2>3. ASSUME NEW p \in DOMAIN t
        PROVE  r[p].kind = t[p].kind /\ (p # f.path => r[p].own = t[p].own)
    <3>1. t[p] \in Entry
      BY Zenon DEF Beside
    <3>2. DOMAIN t[p] = {"kind", "base", "mode", "own"} /\ t[p].own \in BOOLEAN
      BY <3>1 DEF Entry
    <3>3. r[p].kind = t[p].kind /\ r[p].own = (t[p].own \/ p = f.path)
      BY <2>2, <3>2
    <3> QED BY <3>2, <3>3, Zenon
  <2>4. f.op \in {"write", "truncate", "chmod"} /\ DOMAIN r = DOMAIN t
    BY <1>3, <2>2, Zenon
  <2>5. Undisturbed(t, r, e)
    BY <2>3, <2>4, BesideChange, Zenon
  <2> QED BY <2>1, <2>5, Zenon
<1>4. CASE f.op = "chmod"
  <2> DEFINE r == [p \in DOMAIN t |-> [t[p] EXCEPT !.mode = IF p = f.path THEN "set"
                                                            ELSE @]]
  <2>1. Reference(t, f) = r
    BY <1>4 DEF Reference
  <2>2. /\ DOMAIN r = DOMAIN t
        /\ \A p \in DOMAIN t :
             r[p] = [t[p] EXCEPT !.mode = IF p = f.path THEN "set" ELSE @]
    BY Zenon
  <2> HIDE DEF r
  <2>3. ASSUME NEW p \in DOMAIN t
        PROVE  r[p].kind = t[p].kind /\ r[p].own = t[p].own
    <3>1. t[p] \in Entry
      BY Zenon DEF Beside
    <3>2. DOMAIN t[p] = {"kind", "base", "mode", "own"}
      BY <3>1 DEF Entry
    <3> QED BY SMTT(30), <2>2, <3>2
  <2>4. f.op \in {"write", "truncate", "chmod"} /\ DOMAIN r = DOMAIN t
    BY <1>4, <2>2, Zenon
  <2>5. Undisturbed(t, r, e)
    BY <2>3, <2>4, BesideChange, Zenon
  <2> QED BY <2>1, <2>5, Zenon
<1>5. CASE f.op \in {"unlink", "rmdir"}
  <2>1. Reference(t, f) = Drop(t, f.path)
    BY <1>5 DEF Reference
  <2> QED BY <1>5, <2>1, BesideRemove, Zenon
<1>6. CASE f.op = "rename"
  <2>1. Reference(t, f) = RefRename(t, f.path, f.to)
    BY <1>6 DEF Reference
  <2>2. CASE f.path = f.to
    BY <1>1, <2>1, <2>2, Zenon DEF RefRename, Undisturbed
  <2>3. CASE f.path # f.to
    <3> DEFINE Now(p) == IF f.op = "rename" /\ AtOrUnder(p, f.path)
                         THEN Rebase(p, f.path, f.to) ELSE p
    <3>1. ASSUME NEW p \in Paths, Now(p) = p
          PROVE  ~AtOrUnder(p, f.path)
      <4>1. AtOrUnder(p, f.path) => Rebase(p, f.path, f.to) = p
        BY <1>6, <3>1, Zenon
      <4>2. f.path \in Paths /\ f.to \in Paths
        BY <1>6, Zenon DEF Beside
      <4> QED BY <2>3, <4>1, <4>2, StaysOut, Zenon
    <3>2. Follow(e, f) = IF e.op = "rename"
                         THEN [e EXCEPT !.path = Now(@), !.to = Now(@)]
                         ELSE [e EXCEPT !.path = Now(@)]
      BY Zenon DEF Follow
    <3> HIDE DEF Now
    <3>3. CASE e.op = "rename"
      <4>1. Now(e.path) = e.path /\ Now(e.to) = e.to
        <5>1. e = [e EXCEPT !.path = Now(@), !.to = Now(@)]
          BY <3>2, <3>3, Zenon
        <5>2. /\ [e EXCEPT !.path = Now(@), !.to = Now(@)].path = Now(e.path)
              /\ [e EXCEPT !.path = Now(@), !.to = Now(@)].to = Now(e.to)
          BY <3>3
        <5> QED BY Zenon, <5>1, <5>2
      <4>2. e.path \in Paths /\ e.to \in Paths
        BY <3>3, Zenon DEF Beside
      <4> QED BY <1>6, <2>1, <2>3, <3>1, <4>1, <4>2, BesideRename, Zenon
    <3>4. CASE e.op # "rename"
      <4>1. Now(e.path) = e.path
        <5>1. e = [e EXCEPT !.path = Now(@)]
          BY <3>2, <3>4, Zenon
        <5>2. [e EXCEPT !.path = Now(@)].path = Now(e.path)
          OBVIOUS
        <5> QED BY <5>1, <5>2
      <4>2. e.path \in Paths
        BY Zenon DEF Beside
      <4> QED BY <1>6, <2>1, <2>3, <3>1, <3>4, <4>1, <4>2, BesideRename, Zenon
    <3> QED BY <3>3, <3>4, Zenon
  <2> QED BY <2>2, <2>3, Zenon
<1>7. f.op \in Creating \cup {"write", "truncate", "chmod", "unlink", "rmdir", "rename"}
  BY <1>1, Zenon DEF Takes, Creating
<1> QED BY <1>2, <1>3, <1>4, <1>5, <1>6, <1>7, Zenon
-----------------------------------------------------------------------------
(* What a handler asks is asked of the reference tree *)

\* The merged view, as the tree has it.
LEMMA ViewIsTree ==
  ASSUME TypeOK, Agree
  PROVE  /\ \A p \in Paths : /\ Present(p) <=> p \in DOMAIN tree
                             /\ Reached(p) <=> p \in DOMAIN tree
                             /\ IsDir(p) <=> DirIn(tree, p)
                             /\ InDir(p) <=> \/ Parent(p) = NoPath
                                             \/ DirIn(tree, Parent(p))
         /\ \A p \in DOMAIN tree : /\ KindOf(p) = tree[p].kind
                                   /\ HasNode(upper, p) <=> tree[p].own
         /\ DOMAIN tree \subseteq Paths
<1>1. DOMAIN tree \subseteq Paths
  BY Zenon DEF TypeOK
<1>2. \A p \in Paths : /\ Present(p) <=> p \in DOMAIN tree
                       /\ Reached(p) <=> p \in DOMAIN tree
  BY ReachedTree, Zenon
<1>3. \A p \in DOMAIN tree : KindOf(p) = tree[p].kind
  BY Zenon DEF Agree, SameAt
<1>4. \A p \in DOMAIN tree : HasNode(upper, p) <=> tree[p].own
  BY Zenon DEF Agree, SameAt
<1>5. \A p \in Paths : IsDir(p) <=> DirIn(tree, p)
  BY <1>2, <1>3, Zenon DEF IsDir, DirIn
<1>6. ASSUME NEW p \in Paths
      PROVE  InDir(p) <=> Parent(p) = NoPath \/ DirIn(tree, Parent(p))
  <2>1. InDir(p) => Parent(p) = NoPath \/ DirIn(tree, Parent(p))
    BY ReachedTree, Zenon DEF DirIn
  <2>2. DirIn(tree, Parent(p)) => Parent(p) \in Paths
    BY <1>1, Zenon DEF DirIn
  <2>3. DirIn(tree, Parent(p)) => Reached(Parent(p)) /\ IsDir(Parent(p))
    BY <1>2, <1>5, <2>2, Zenon DEF DirIn
  <2> QED BY <2>1, <2>3, Zenon DEF InDir
<1> QED BY <1>1, <1>2, <1>3, <1>4, <1>5, <1>6, Zenon

\* mergedEmpty, too.
LEMMA EmptyIsTree ==
  ASSUME TypeOK, Agree, NEW d \in Paths, DirIn(tree, d)
  PROVE  mergedEmpty(d) <=> EmptyIn(tree, d)
<1>1. Reached(d) /\ IsDir(d)
  BY ViewIsTree, Zenon DEF DirIn
<1>2. Listing(d) = {p \in Paths : Parent(p) = d /\ Present(p)}
  BY <1>1, ListingSame, Zenon DEF ListingAgrees, Agree
<1>3. mergedEmpty(d) <=> Listing(d) = {}
  <2> DEFINE below == IF Hidden(upper, d) THEN {} ELSE LowerNames(d)
  <2>1. Listing(d) = ((below \cup Redirected(d)) \ White(d))
                       \cup ChildrenIn(DOMAIN upper.nodes, d)
    BY Zenon DEF Listing
  <2>2. below \subseteq White(d) <=> Hidden(upper, d) \/ LowerNames(d) \subseteq White(d)
    BY Zenon
  <2> HIDE DEF below
  <2>3. Listing(d) = {} <=> /\ ChildrenIn(DOMAIN upper.nodes, d) = {}
                            /\ Redirected(d) \subseteq White(d)
                            /\ below \subseteq White(d)
    BY <2>1, Zenon
  <2> QED BY <2>2, <2>3, Zenon DEF mergedEmpty
<1>4. EmptyIn(tree, d) <=> Listing(d) = {}
  BY <1>2, ViewIsTree, Zenon DEF EmptyIn
<1> QED BY <1>3, <1>4, Zenon

\* A path is under the one it is in.
LEMMA ParentUnder ==
  ASSUME NEW p \in Paths
  PROVE  Under(p, Parent(p))
<1>1. /\ Parent(p) \in Seq(Names) /\ Base(p) \in Names
      /\ p = Append(Parent(p), Base(p)) /\ AtOrUnder(p, Parent(p))
  BY ParentBase, Zenon
<1> DEFINE d == Parent(p)
           n == Base(p)
<1> HIDE DEF d, n
<1>2. d \in Seq(Names) /\ n \in Names /\ p = Append(d, n)
  BY <1>1, Zenon DEF d, n
<1>3. Len(p) = Len(d) + 1 /\ Len(d) \in Nat
  BY SMTT(30), <1>2, AppendProperties, LenProperties
<1>4. p # d
  BY <1>3
<1> QED BY <1>1, <1>4, Zenon DEF Under, d

\* A mount with renames is over an empty lower tree.
LEMMA RenamesBare ==
  ASSUME Agreeing(mount), "rename" \in mount.requests
  PROVE  Bare(mount) /\ \A p : ~HasLower(p)
<1>1. Bare(mount)
  BY Zenon DEF Agreeing, Steady
<1> QED BY <1>1, Zenon DEF Bare, Lower, HasLower

\* What Begin lets through, the tree takes, with the same locks.
LEMMA Asked ==
  ASSUME TypeOK, Agree, Agreeing(mount), NEW e \in AllEvents,
         e.op \in mount.requests, Level(e)
  PROVE  Shaped(e) /\ Takes(tree, e) /\ Locked(e) = Locks(tree, e)
<1>0. /\ mount.named \subseteq Paths
      /\ \A p \in Paths : /\ Present(p) <=> p \in DOMAIN tree
                          /\ Reached(p) <=> p \in DOMAIN tree
                          /\ IsDir(p) <=> DirIn(tree, p)
                          /\ InDir(p) <=> \/ Parent(p) = NoPath
                                          \/ DirIn(tree, Parent(p))
  BY MountAssumption, ViewIsTree, Zenon DEF TypeOK
<1>1. \A p \in DOMAIN tree : /\ KindOf(p) = tree[p].kind
                             /\ tree[p].own = HasNode(upper, p)
  BY Zenon DEF Agree, SameAt
<1>2. ASSUME NEW op \in {"create", "mkdir", "symlink"}, e \in Fresh(op)
      PROVE  Shaped(e) /\ Takes(tree, e) /\ Locked(e) = Locks(tree, e)
  <2>1. PICK p \in mount.named : e = [op |-> op, path |-> p] /\ InDir(p) /\ ~Present(p)
    BY <1>2, Zenon DEF Fresh
  <2>2. e.op = op /\ e.path = p
    BY <2>1
  <2>3. Shaped(e)
    BY <1>2, <2>1, Zenon DEF Shaped
  <2>4. Takes(tree, e)
    BY <1>0, <1>2, <2>1, <2>2, Zenon DEF Takes
  <2>5. Locked(e) = Locks(tree, e)
    BY <1>2, <2>2, Zenon DEF Locked, Locks
  <2> QED BY <2>3, <2>4, <2>5, Zenon
<1>3. CASE e \in WriteEvents
  <2>1. PICK p \in Writable : e = [op |-> "write", path |-> p, fall |-> ~HasNode(upper, p)]
    BY <1>3, Zenon DEF WriteEvents
  <2>2. e.op = "write" /\ e.path = p /\ e.fall = ~HasNode(upper, p)
    BY <2>1
  <2>3. p \in Paths /\ p \in DOMAIN tree /\ tree[p].kind = "file"
    BY <1>0, <1>1, Zenon DEF Writable
  <2>4. Shaped(e)
    BY <2>1, <2>3, Zenon DEF Shaped
  <2>5. e.fall = ~tree[p].own
    BY <1>1, <2>2, <2>3, Zenon
  <2>6. Takes(tree, e)
    BY <2>2, <2>3, <2>5, Zenon DEF Takes
  <2>7. Locked(e) = {p} /\ Locks(tree, e) = {p}
    BY <2>2 DEF Locked, Locks
  <2> QED BY <2>4, <2>6, <2>7, Zenon
<1>4. CASE e \in TruncateEvents \cup ChmodEvents
  <2>1. PICK p \in Paths :
          /\ Reached(p)
          /\ \/ e = [op |-> "truncate", path |-> p] /\ KindOf(p) = "file"
             \/ e = [op |-> "chmod", path |-> p]
    BY <1>4, Zenon DEF TruncateEvents, ChmodEvents, Writable
  <2>2. e.path = p /\ ((e.op = "truncate" /\ KindOf(p) = "file") \/ e.op = "chmod")
    BY <2>1
  <2>3. p \in DOMAIN tree /\ KindOf(p) = tree[p].kind
    BY <1>0, <1>1, <2>1, Zenon
  <2>4. Shaped(e)
    BY <2>1, Zenon DEF Shaped
  <2>5. Takes(tree, e)
    BY <2>2, <2>3, Zenon DEF Takes
  <2>6. Locked(e) = {p} /\ Locks(tree, e) = {p}
    BY <2>2 DEF Locked, Locks
  <2> QED BY <2>4, <2>5, <2>6, Zenon
<1>5. CASE e \in UnlinkEvents \cup RmdirEvents
  <2>1. PICK p \in Paths :
          /\ Reached(p)
          /\ \/ e = [op |-> "unlink", path |-> p] /\ KindOf(p) # "dir"
             \/ e = [op |-> "rmdir", path |-> p] /\ IsDir(p) /\ mergedEmpty(p)
    BY <1>5, Zenon DEF UnlinkEvents, RmdirEvents
  <2>2. /\ e.path = p
        /\ \/ e.op = "unlink" /\ KindOf(p) # "dir"
           \/ e.op = "rmdir" /\ IsDir(p) /\ mergedEmpty(p)
    BY <2>1
  <2>3. p \in DOMAIN tree /\ KindOf(p) = tree[p].kind
    BY <1>0, <1>1, <2>1, Zenon
  <2>4. IsDir(p) => (mergedEmpty(p) <=> EmptyIn(tree, p))
    BY <1>0, EmptyIsTree, Zenon
  <2>5. Shaped(e)
    BY <2>1, Zenon DEF Shaped
  <2>6. Takes(tree, e)
    BY <1>0, <2>2, <2>3, <2>4, Zenon DEF Takes, DirIn
  <2>7. Locked(e) = {Parent(p), p} /\ Locks(tree, e) = {Parent(p), p}
    BY <2>2 DEF Locked, Locks
  <2> QED BY <2>5, <2>6, <2>7, Zenon
<1>6. CASE e \in RenameEvents
  <2>1. PICK pair \in Paths \X mount.named :
          /\ e = [op |-> "rename", path |-> pair[1], to |-> pair[2],
                  fromLower |-> HasLower(pair[1])]
          /\ Reached(pair[1]) /\ InDir(pair[2]) /\ Replaces(pair[1], pair[2])
          /\ ~(IsDir(pair[1]) /\ Under(pair[2], pair[1]))
    BY <1>6, Zenon DEF RenameEvents
  <2> DEFINE p == pair[1]
             to == pair[2]
  <2>2. p \in Paths /\ to \in mount.named /\ to \in Paths
    BY <1>0
  <2> HIDE DEF p, to
  <2>3. /\ e = [op |-> "rename", path |-> p, to |-> to, fromLower |-> HasLower(p)]
        /\ Reached(p) /\ InDir(to) /\ Replaces(p, to) /\ ~(IsDir(p) /\ Under(to, p))
    BY <2>1, Zenon DEF p, to
  <2>4. e.op = "rename" /\ e.path = p /\ e.to = to
    BY <2>3
  <2>5. Bare(mount) /\ HasLower(p) = FALSE
    <3>1. Bare(mount) /\ ~HasLower(p)
      BY <2>4, RenamesBare, Zenon
    <3> QED BY <3>1 DEF HasLower
  <2>6. e = [op |-> "rename", path |-> p, to |-> to, fromLower |-> FALSE]
    BY <2>3, <2>5, Zenon
  <2>7. Shaped(e)
    BY <2>2, <2>5, <2>6, Zenon DEF Shaped
  <2>8. p \in DOMAIN tree /\ (Parent(to) = NoPath \/ DirIn(tree, Parent(to)))
    BY <1>0, <2>2, <2>3, Zenon
  <2>9. ASSUME to \in DOMAIN tree
        PROVE  (DirIn(tree, to) <=> DirIn(tree, p)) /\ EmptyIn(tree, to)
    <3>1. /\ DirIn(tree, to) <=> DirIn(tree, p)
          /\ DirIn(tree, to) => mergedEmpty(to)
      BY <1>0, <2>2, <2>3, <2>9, Zenon DEF Replaces
    <3>2. CASE DirIn(tree, to)
      BY <2>2, <3>1, <3>2, EmptyIsTree, Zenon
    <3>3. CASE ~DirIn(tree, to)
      <4>1. KindOf(to) # "dir"
        BY <1>1, <2>9, <3>3, Zenon DEF DirIn
      <4>2. \A q \in Paths : Under(q, to) => q \notin DOMAIN tree
        BY <1>0, <2>9, <4>1, NothingUnder, Zenon
      <4>3. \A q \in Paths : Parent(q) = to => Under(q, to)
        BY <2>2, ParentUnder, Zenon
      <4> QED BY <3>1, <4>2, <4>3, Zenon DEF EmptyIn
    <3> QED BY <3>1, <3>2, <3>3, Zenon
  <2>10. DirIn(tree, p) => ~Under(to, p) /\ Len(to) = Len(p)
    BY <1>0, <2>2, <2>3, <2>4, Zenon DEF Level
  <2>11. Takes(tree, e)
    BY <2>4, <2>8, <2>9, <2>10, Zenon DEF Takes
  <2>12. /\ Locked(e) = {Parent(p), Parent(to), to} \cup (IF IsDir(p) THEN {} ELSE {p})
         /\ Locks(tree, e) = {Parent(p), Parent(to), to}
                               \cup (IF DirIn(tree, p) THEN {} ELSE {p})
    BY <2>4 DEF Locked, Locks
  <2>13. Locked(e) = Locks(tree, e)
    BY <1>0, <2>2, <2>12, Zenon
  <2> QED BY <2>7, <2>11, <2>13, Zenon
<1> QED BY <1>2, <1>3, <1>4, <1>5, <1>6, Zenon DEF AllEvents

\* What the tree takes passes the handlers' checks, and upper.Check.
LEMMA Answered ==
  ASSUME TypeOK, Agree, NEW e, Shaped(e), Takes(tree, e)
  PROVE  Check(upper, e) /\ e \in AllEvents
<1>0. /\ mount.named \subseteq Paths
      /\ \A p \in Paths : /\ Present(p) <=> p \in DOMAIN tree
                          /\ Reached(p) <=> p \in DOMAIN tree
                          /\ IsDir(p) <=> DirIn(tree, p)
                          /\ InDir(p) <=> \/ Parent(p) = NoPath
                                          \/ DirIn(tree, Parent(p))
  BY MountAssumption, ViewIsTree, Zenon DEF TypeOK
<1>1. \A p \in DOMAIN tree : /\ KindOf(p) = tree[p].kind
                             /\ tree[p].own = HasNode(upper, p)
  BY Zenon DEF Agree, SameAt
<1>2. \A p \in DOMAIN tree : HasNode(upper, p) => upper.nodes[p].kind = tree[p].kind
  BY <1>1, Zenon DEF KindOf
<1>3. ASSUME NEW op \in {"create", "mkdir", "symlink"}, NEW p \in mount.named,
             e = [op |-> op, path |-> p]
      PROVE  Check(upper, e) /\ e \in AllEvents
  <2>1. e.op = op /\ e.path = p
    BY SMTT(30), <1>3
  <2>2. (Parent(p) = NoPath \/ DirIn(tree, Parent(p))) /\ p \notin DOMAIN tree
    BY <2>1 DEF Takes
  <2>3. InDir(p) /\ ~Present(p)
    BY <1>0, <2>2, Zenon
  <2>4. ~HasNode(upper, p)
    BY <2>3, Zenon DEF Present
  <2>5. Check(upper, e)
    BY <2>1, <2>4, Zenon DEF Check
  <2>6. e \in Fresh(op)
    BY <1>3, <2>3, Zenon DEF Fresh
  <2> QED BY <2>5, <2>6, Zenon DEF AllEvents
<1>4. ASSUME NEW p \in Paths, NEW fall \in BOOLEAN,
             e = [op |-> "write", path |-> p, fall |-> fall]
      PROVE  Check(upper, e) /\ e \in AllEvents
  <2>1. e.op = "write" /\ e.path = p /\ e.fall = fall
    BY SMTT(30), <1>4
  <2>2. p \in DOMAIN tree /\ tree[p].kind = "file" /\ e.fall = ~tree[p].own
    BY <2>1 DEF Takes
  <2>3. HasNode(upper, p) => upper.nodes[p].kind = "file"
    BY <1>2, <2>2, Zenon
  <2>4. Check(upper, e)
    BY <2>1, <2>3 DEF Check
  <2>5. p \in Writable
    BY <1>0, <1>1, <2>2, Zenon DEF Writable
  <2>6. fall = ~HasNode(upper, p)
    BY <1>1, <2>1, <2>2, Zenon
  <2>7. e \in WriteEvents
    BY <1>4, <2>5, <2>6, Zenon DEF WriteEvents
  <2> QED BY <2>4, <2>7, Zenon DEF AllEvents
<1>5. ASSUME NEW p \in Paths,
             \/ e = [op |-> "truncate", path |-> p]
             \/ e = [op |-> "chmod", path |-> p]
      PROVE  Check(upper, e) /\ e \in AllEvents
  <2>1. e.path = p /\ (e.op = "truncate" \/ e.op = "chmod")
    BY SMTT(30), <1>5
  <2>2. p \in DOMAIN tree /\ (e.op = "truncate" => tree[p].kind = "file")
    BY <2>1 DEF Takes
  <2>3. e.op = "truncate" /\ HasNode(upper, p) => upper.nodes[p].kind = "file"
    BY <1>2, <2>2, Zenon
  <2>4. Check(upper, e)
    BY <2>1, <2>3 DEF Check
  <2>5. Reached(p) /\ (e.op = "truncate" => p \in Writable)
    BY <1>0, <1>1, <2>2, Zenon DEF Writable
  <2>6. CASE e.op = "truncate"
    <3>1. e = [op |-> "truncate", path |-> p]
      BY <1>5, <2>6
    <3> QED BY <2>4, <2>5, <2>6, <3>1, Zenon DEF TruncateEvents, AllEvents
  <2>7. CASE e.op = "chmod"
    <3>1. e = [op |-> "chmod", path |-> p]
      BY <1>5, <2>7
    <3> QED BY <2>4, <2>5, <3>1, Zenon DEF ChmodEvents, AllEvents
  <2> QED BY <2>1, <2>6, <2>7, Zenon
<1>6. ASSUME NEW p \in Paths, e = [op |-> "unlink", path |-> p]
      PROVE  Check(upper, e) /\ e \in AllEvents
  <2>1. e.path = p /\ e.op = "unlink"
    BY <1>6
  <2>2. p \in DOMAIN tree /\ tree[p].kind # "dir"
    BY <2>1 DEF Takes, DirIn
  <2>3. Reached(p) /\ KindOf(p) # "dir" /\ ~NodeIs(upper, p, "dir")
    BY <1>0, <1>1, <1>2, <2>2, Zenon DEF NodeIs
  <2>4. Check(upper, e)
    BY <2>1, <2>3 DEF Check
  <2> QED BY <1>6, <2>3, <2>4, Zenon DEF UnlinkEvents, AllEvents
<1>7. ASSUME NEW p \in Paths, e = [op |-> "rmdir", path |-> p]
      PROVE  Check(upper, e) /\ e \in AllEvents
  <2>1. e.path = p /\ e.op = "rmdir"
    BY <1>7
  <2>2. DirIn(tree, p) /\ EmptyIn(tree, p)
    BY <2>1 DEF Takes
  <2>3. Reached(p) /\ IsDir(p) /\ mergedEmpty(p)
    BY <1>0, <2>2, EmptyIsTree, Zenon DEF DirIn
  <2>4. ~hasChildren(upper, p) /\ (HasNode(upper, p) => upper.nodes[p].kind = "dir")
    BY <1>2, <2>2, <2>3, Zenon DEF DirIn, mergedEmpty, hasChildren
  <2>5. Check(upper, e)
    BY <2>1, <2>4 DEF Check
  <2> QED BY <1>7, <2>3, <2>5, Zenon DEF RmdirEvents, AllEvents
<1>8. ASSUME Bare(mount), NEW p \in Paths, NEW to \in mount.named,
             e = [op |-> "rename", path |-> p, to |-> to, fromLower |-> FALSE]
      PROVE  Check(upper, e) /\ e \in AllEvents
  <2>1. e.op = "rename" /\ e.path = p /\ e.to = to /\ to \in Paths
    BY SMTT(30), <1>0, <1>8
  <2>2. /\ p \in DOMAIN tree /\ (Parent(to) = NoPath \/ DirIn(tree, Parent(to)))
        /\ to \in DOMAIN tree => (DirIn(tree, to) <=> DirIn(tree, p)) /\ EmptyIn(tree, to)
        /\ DirIn(tree, p) => ~Under(to, p) /\ Len(to) = Len(p)
    BY <2>1 DEF Takes
  <2>3. Plain /\ Ordinary(tree) /\ DOMAIN tree \subseteq Paths
    BY <1>8, BareAgree, Zenon DEF Agree, TypeOK
  <2>4. ~Under(to, p)
    <3> SUFFICES ASSUME Under(to, p)
                 PROVE  FALSE
      BY Zenon
    <3>1. Parent(to) \in Paths /\ (p = Parent(to) \/ Under(Parent(to), p))
      BY <2>1, AboveParent, Zenon
    <3>2. Parent(to) # NoPath
      BY <3>1, PathSeq, Zenon
    <3>3. DirIn(tree, p)
      BY <2>2, <2>3, <3>1, <3>2, Zenon DEF Ordinary, DirIn
    <3> QED BY <2>2, <3>3, Zenon
  <2>5. subtreePresent(upper, p)
    <3>1. p \in DOMAIN upper.nodes
      BY <2>2, <2>3, Zenon DEF Plain
    <3>2. AtOrUnder(p, p)
      BY UnderAt, PathSeq, Zenon
    <3> QED BY <3>1, <3>2, Zenon DEF subtreePresent
  <2>6. Check(upper, e)
    BY SMTT(30), <2>1, <2>4, <2>5 DEF Check, checkRename
  <2>7. Reached(p) /\ InDir(to) /\ ~(IsDir(p) /\ Under(to, p))
    BY <1>0, <2>1, <2>2, <2>4, Zenon
  <2>8. Replaces(p, to)
    <3>1. ASSUME Present(to)
          PROVE  IsDir(to) = IsDir(p) /\ (IsDir(to) => mergedEmpty(to))
      <4>1. to \in DOMAIN tree
        BY <1>0, <2>1, <3>1, Zenon
      <4>2. (IsDir(to) <=> IsDir(p)) /\ (IsDir(to) => mergedEmpty(to))
        BY <1>0, <2>1, <2>2, <4>1, EmptyIsTree, Zenon
      <4>3. IsDir(to) = IsDir(p)
        BY <4>2 DEF IsDir
      <4> QED BY <4>2, <4>3, Zenon
    <3> QED BY <3>1, Zenon DEF Replaces
  <2>9. Fits(p, to)
    <3>1. DOMAIN tree \cup DOMAIN upper.nodes \cup DOMAIN upper.redirects
            \cup upper.whiteouts \cup upper.overrides = DOMAIN tree
      BY <2>3, Zenon DEF Plain
    <3> SUFFICES ASSUME NEW q \in DOMAIN tree, AtOrUnder(q, p)
                 PROVE  Len(q) - Len(p) + Len(to) <= MaxDepth
      BY <3>1, Zenon DEF Fits
    <3>2. /\ Len(q) \in Nat /\ Len(p) \in Nat /\ Len(to) \in Nat /\ MaxDepth \in Nat
          /\ Len(q) <= MaxDepth /\ Len(to) <= MaxDepth
      <4>1. q \in Paths /\ q \in Seq(Names) /\ p \in Seq(Names) /\ to \in Seq(Names)
        BY <2>1, <2>3, PathSeq, Zenon
      <4>2. Len(q) <= MaxDepth /\ Len(to) <= MaxDepth
        BY <2>1, <4>1, PathSeq, Zenon
      <4> QED BY SMTT(30), <4>1, <4>2, LenProperties, DepthAssumption
    <3>3. CASE DirIn(tree, p)
      <4>1. Len(to) = Len(p)
        BY <2>2, <3>3, Zenon
      <4> QED BY <3>2, <4>1
    <3>4. CASE ~DirIn(tree, p)
      <4>1. q = p
        <5>1. ~Under(q, p)
          BY <2>3, <3>4, Zenon DEF Ordinary, DirIn
        <5> QED BY <5>1, Zenon DEF Under
      <4> QED BY <3>2, <4>1
    <3> QED BY <3>3, <3>4, Zenon
  <2>10. HasLower(p) = FALSE
    BY <1>8 DEF HasLower, Bare, Lower
  <2>11. e \in RenameEvents
    <3> DEFINE pair == <<p, to>>
    <3>1. pair \in Paths \X mount.named /\ pair[1] = p /\ pair[2] = to
      BY <1>8
    <3> HIDE DEF pair
    <3>2. e = [op |-> "rename", path |-> pair[1], to |-> pair[2],
               fromLower |-> HasLower(pair[1])]
      BY <1>8, <2>10, <3>1, Zenon
    <3> QED BY <2>7, <2>8, <2>9, <3>1, <3>2, Zenon DEF RenameEvents
  <2> QED BY <2>6, <2>11, Zenon DEF AllEvents
<1> QED BY <1>3, <1>4, <1>5, <1>6, <1>7, <1>8, Zenon DEF Shaped
-----------------------------------------------------------------------------
(* RequestsInv is inductive *)

\* A request in flight has the fields of its operation.
LEMMA ShapedFields ==
  ASSUME TypeOK, NEW e, Shaped(e)
  PROVE  /\ "path" \in DOMAIN e /\ e.path \in Paths
         /\ e.op = "rename" => "to" \in DOMAIN e /\ e.to \in Paths
         /\ e.op # "none"
<1>1. mount.named \subseteq Paths
  BY MountAssumption, Zenon DEF TypeOK
<1>2. ASSUME NEW op \in {"create", "mkdir", "symlink", "truncate", "chmod", "unlink",
                         "rmdir"},
             NEW p \in Paths, e = [op |-> op, path |-> p]
      PROVE  "path" \in DOMAIN e /\ e.path \in Paths /\ e.op \notin {"rename", "none"}
  BY <1>2
<1>3. ASSUME NEW p \in Paths, NEW fall \in BOOLEAN,
             e = [op |-> "write", path |-> p, fall |-> fall]
      PROVE  "path" \in DOMAIN e /\ e.path \in Paths /\ e.op \notin {"rename", "none"}
  BY <1>3
<1>4. ASSUME NEW p \in Paths, NEW to \in Paths,
             e = [op |-> "rename", path |-> p, to |-> to, fromLower |-> FALSE]
      PROVE  /\ "path" \in DOMAIN e /\ e.path \in Paths /\ e.op # "none"
             /\ "to" \in DOMAIN e /\ e.to \in Paths
  BY <1>4
<1>5. CASE \E op \in {"create", "mkdir", "symlink"}, p \in mount.named :
             e = [op |-> op, path |-> p]
  <2>1. PICK op \in {"create", "mkdir", "symlink"}, p \in mount.named :
          e = [op |-> op, path |-> p]
    BY <1>5, Zenon
  <2>2. p \in Paths
    BY <1>1, Zenon
  <2>3. "path" \in DOMAIN e /\ e.path \in Paths /\ e.op \notin {"rename", "none"}
    BY SMTT(30), <2>1, <2>2, <1>2
  <2> QED BY <2>3, Zenon
<1>6. CASE \E p \in Paths, fall \in BOOLEAN :
             e = [op |-> "write", path |-> p, fall |-> fall]
  BY <1>3, <1>6, Zenon
<1>7. CASE \E op \in {"truncate", "chmod", "unlink", "rmdir"}, p \in Paths :
             e = [op |-> op, path |-> p]
  <2>1. PICK op \in {"truncate", "chmod", "unlink", "rmdir"}, p \in Paths :
          e = [op |-> op, path |-> p]
    BY <1>7, Zenon
  <2>2. "path" \in DOMAIN e /\ e.path \in Paths /\ e.op \notin {"rename", "none"}
    BY <2>1, <1>2
  <2> QED BY <2>2, Zenon
<1>8. CASE \E p \in Paths, to \in mount.named :
             e = [op |-> "rename", path |-> p, to |-> to, fromLower |-> FALSE]
  BY <1>1, <1>4, <1>8, Zenon
<1> QED BY <1>5, <1>6, <1>7, <1>8, Zenon DEF Shaped

\* The commit of a request the tree takes is a step of Overlay.
LEMMA CommitStep ==
  ASSUME TypeOK, Agree, NEW e, Shaped(e), Takes(tree, e),
         upper' = Apply(upper, e), tree' = Reference(tree, e), mount' = mount
  PROVE  Next
<1>1. Check(upper, e) /\ e \in AllEvents
  BY Answered, Zenon
<1>2. e.op \in mount.requests
  BY Zenon DEF Shaped
<1>3. \A events : e \in events => Commit(events)
  BY <1>1, <1>2, Zenon DEF Commit
<1> QED BY <1>1, <1>3, Zenon DEF AllEvents, Next, Create, Mkdir, Symlink, Write,
                             Truncate, Chmod, Unlink, Rmdir, Rename

\* The locks of a request, from the merged view and from the tree.
LEMMA LocksSame ==
  ASSUME TypeOK, Agree, NEW e, Shaped(e)
  PROVE  Locked(e) = Locks(tree, e)
<1>1. e.path \in Paths
  BY ShapedFields, Zenon
<1>2. IsDir(e.path) <=> DirIn(tree, e.path)
  BY <1>1, ViewIsTree, Zenon
<1>3. CASE e.op = "rename"
  <2>1. /\ Locked(e) = {Parent(e.path), Parent(e.to), e.to}
                         \cup (IF IsDir(e.path) THEN {} ELSE {e.path})
        /\ Locks(tree, e) = {Parent(e.path), Parent(e.to), e.to}
                              \cup (IF DirIn(tree, e.path) THEN {} ELSE {e.path})
    BY <1>3 DEF Locked, Locks
  <2> QED BY <1>2, <2>1, Zenon
<1>4. CASE e.op # "rename"
  <2>1. e.op \in AllRequests
    BY MountAssumption, Zenon DEF TypeOK, Shaped
  <2> QED BY SMTT(30), <1>4, <2>1 DEF AllRequests, Locked, Locks
<1> QED BY <1>3, <1>4, Zenon

\* What RequestsInv says, in parts.
InFlight(h) ==
  /\ pending[h] = [event |-> pending[h].event, at |-> pending[h].event]
  /\ Shaped(pending[h].event) /\ Takes(tree, pending[h].event)
Separate(g, h) ==
  Locks(tree, pending[g].event) \cap Locks(tree, pending[h].event) = {}
InOrder ==
  /\ OverlayInv
  /\ \A h \in Busy : InFlight(h)
  /\ \A g, h \in Busy : g # h => Separate(g, h)

LEMMA RequestsParts ==
  RequestsInv <=> DOMAIN pending = Handlers /\ (~moved /\ Agreeing(mount) => InOrder)
  BY Zenon DEF RequestsInv, InOrder, InFlight, Separate

\* The shape of a request depends on the mount alone.
LEMMA ShapedStays ==
  ASSUME mount' = mount
  PROVE  \A e : Shaped(e) => Shaped(e)'
  BY Zenon DEF Shaped, Bare

\* A request that begins.
LEMMA BeginStep ==
  ASSUME RequestsInv, NEW h \in Handlers, Begin(h)
  PROVE  RequestsInv'
<1>1. PICK e \in AllEvents :
        /\ e.op \in mount.requests /\ Level(e) /\ Admitted(e)
        /\ pending' = [pending EXCEPT ![h] = [event |-> e, at |-> e]]
  BY Zenon DEF Begin
<1>2. pending[h] = Idle /\ mount' = mount /\ upper' = upper /\ tree' = tree
      /\ moved' = moved
  BY Zenon DEF Begin, vars
<1>3. DOMAIN pending = Handlers /\ (~moved /\ Agreeing(mount) => InOrder)
  BY RequestsParts, Zenon
<1> DEFINE r == [event |-> e, at |-> e]
<1>4. /\ DOMAIN pending' = Handlers /\ pending'[h] = r
      /\ \A g \in Handlers \ {h} : pending'[g] = pending[g]
  BY <1>1, <1>3, Zenon
<1>5. r.event = e
  OBVIOUS
<1>6. \A g \in Busy' : g # h => g \in Busy
  BY <1>4, Zenon DEF Busy, Idle
<1> HIDE DEF r
<1> SUFFICES ASSUME ~moved', Agreeing(mount)'
             PROVE  InOrder'
  BY <1>4, Zenon DEF RequestsInv, InOrder, InFlight, Separate
<1>7. InOrder /\ Agreeing(mount)
  BY <1>2, <1>3, Zenon
<1>8. TypeOK /\ Agree
  BY <1>7, Zenon DEF InOrder, OverlayInv
<1>9. OverlayInv'
  BY <1>2, <1>7, InvStep, Zenon DEF InOrder, vars
<1>10. Shaped(e) /\ Takes(tree, e) /\ Locked(e) = Locks(tree, e)
  BY <1>1, <1>7, <1>8, Asked, Zenon
<1>11. ASSUME NEW g \in Busy'
       PROVE  InFlight(g)'
  <2>1. CASE g = h
    BY <1>2, <1>4, <1>5, <1>10, <2>1, ShapedStays, Zenon DEF InFlight, r
  <2>2. CASE g # h
    <3>1. g \in Busy /\ InFlight(g) /\ pending'[g] = pending[g]
      BY <1>4, <1>6, <1>7, <2>2, Zenon DEF InOrder, Busy
    <3> QED BY <1>2, <3>1, ShapedStays, Zenon DEF InFlight
  <2> QED BY <2>1, <2>2, Zenon
<1>12. ASSUME NEW g \in Busy
       PROVE  Locks(tree, e) \cap Locks(tree, pending[g].event) = {}
  <2>1. InFlight(g)
    BY <1>7, <1>12, Zenon DEF InOrder
  <2>2. pending[g].at = pending[g].event
    <3> DEFINE v == pending[g].event
    <3>1. pending[g] = [event |-> v, at |-> v]
      BY <2>1, Zenon DEF InFlight
    <3> HIDE DEF v
    <3>2. pending[g].at = v
      BY <3>1
    <3> QED BY <3>2, Zenon DEF v
  <2>3. Locked(e) \cap Locked(pending[g].event) = {}
    BY <1>1, <1>12, <2>2, Zenon DEF Admitted
  <2>4. Locked(pending[g].event) = Locks(tree, pending[g].event)
    BY <1>8, <2>1, LocksSame, Zenon DEF InFlight
  <2> QED BY <1>10, <2>3, <2>4, Zenon
<1>13. ASSUME NEW f \in Busy', NEW g \in Busy', f # g
       PROVE  Separate(f, g)'
  <2>1. CASE f = h
    <3>1. g \in Busy /\ pending'[g] = pending[g]
      BY <1>4, <1>6, <1>13, <2>1, Zenon DEF Busy
    <3> QED BY <1>2, <1>4, <1>5, <1>12, <2>1, <3>1, ZenonT(30) DEF Separate
  <2>2. CASE g = h
    <3>1. f \in Busy /\ pending'[f] = pending[f]
      BY <1>4, <1>6, <1>13, <2>2, Zenon DEF Busy
    <3> QED BY <1>2, <1>4, <1>5, <1>12, <2>2, <3>1, Zenon DEF Separate
  <2>3. CASE f # h /\ g # h
    <3>1. /\ f \in Busy /\ pending'[f] = pending[f]
          /\ g \in Busy /\ pending'[g] = pending[g]
      BY <1>4, <1>6, <2>3, Zenon DEF Busy
    <3>2. Separate(f, g)
      BY <1>7, <1>13, <3>1, Zenon DEF InOrder
    <3> QED BY <1>2, <3>1, <3>2, Zenon DEF Separate
  <2> QED BY <2>1, <2>2, <2>3, Zenon
<1> QED BY <1>9, <1>11, <1>13, Zenon DEF InOrder

\* A request that ends where no directory was moved under another one: its
\* commit is a step of Overlay, and the others stay as they were.
LEMMA FinishAtomic ==
  ASSUME RequestsInv, NEW h \in Handlers, Finish(h), ~moved', Agreeing(mount)
  PROVE  /\ InOrder /\ Next /\ InFlight(h) /\ h \in Busy /\ mount' = mount
         /\ tree' = Reference(tree, pending[h].event)
         /\ DOMAIN pending' = Handlers
         /\ \A g \in Busy' :
              /\ g \in Busy /\ g # h /\ pending'[g] = pending[g]
              /\ Follow(pending[g].event, pending[h].event) = pending[g].event
<1> DEFINE r == pending[h]
           others == Busy \ {h}
           Now(g) == [pending[g] EXCEPT !.at = Follow(@, r.at)]
           still == [g \in Handlers |-> IF g \in others THEN Now(g) ELSE Idle]
<1>1. h \in Busy /\ mount' = mount
  BY Zenon DEF Finish
<1>2. \/ /\ Check(upper, r.event)
         /\ upper' = Apply(upper, r.event)
         /\ tree' = Reference(tree, r.at)
         /\ pending' = still
         /\ moved' = (moved \/ \E g \in others : still[g] # pending[g])
      \/ /\ ~Check(upper, r.event)
         /\ moved' = moved
  BY Zenon DEF Finish
<1> HIDE DEF still
<1>3. ~moved
  BY <1>2, Zenon
<1>4. InOrder /\ InFlight(h)
  BY <1>1, <1>3, RequestsParts, Zenon DEF InOrder
<1>5. TypeOK /\ Agree
  BY <1>4, Zenon DEF InOrder, OverlayInv
<1>6. Check(upper, r.event)
  BY <1>4, <1>5, Answered, Zenon DEF InFlight
<1>7. /\ upper' = Apply(upper, r.event) /\ tree' = Reference(tree, r.at)
      /\ pending' = still /\ \A g \in others : still[g] = pending[g]
  BY <1>2, <1>6, Zenon
<1>8. ASSUME NEW g \in Busy
      PROVE  /\ pending[g].at = pending[g].event
             /\ \A x : [pending[g] EXCEPT !.at = x].at = x
  <2> DEFINE v == pending[g].event
  <2>1. pending[g] = [event |-> v, at |-> v]
    BY <1>4, <1>8, Zenon DEF InOrder, InFlight
  <2> HIDE DEF v
  <2>2. pending[g].at = v /\ \A x : [pending[g] EXCEPT !.at = x].at = x
    BY <2>1
  <2> QED BY <2>2, Zenon DEF v
<1>9. tree' = Reference(tree, r.event)
  BY <1>1, <1>7, <1>8, Zenon
<1>10. Next
  BY <1>1, <1>4, <1>5, <1>7, <1>9, CommitStep, Zenon DEF InFlight
<1>11. DOMAIN pending' = Handlers
  BY <1>7, Zenon DEF still
<1>12. ASSUME NEW g \in Busy'
       PROVE  /\ g \in Busy /\ g # h /\ pending'[g] = pending[g]
              /\ Follow(pending[g].event, r.event) = pending[g].event
  <2>1. g \in Handlers /\ still[g] # Idle
    BY <1>7, <1>12, Zenon DEF Busy, Idle
  <2>2. g \in others /\ still[g] = Now(g)
    BY <2>1, Zenon DEF still
  <2>3. pending'[g] = pending[g] /\ Now(g) = pending[g]
    BY <1>7, <2>2, Zenon
  <2>4. Now(g).at = Follow(pending[g].at, r.at)
    BY <1>8, <2>2, Zenon
  <2> QED BY <1>1, <1>8, <2>2, <2>3, <2>4, Zenon
<1> QED BY <1>1, <1>4, <1>9, <1>10, <1>11, <1>12, Zenon

\* A request that ends.
LEMMA FinishStep ==
  ASSUME RequestsInv, NEW h \in Handlers, Finish(h)
  PROVE  RequestsInv'
<1>1. DOMAIN pending' = Handlers /\ mount' = mount
  BY Zenon DEF Finish, RequestsInv
<1> SUFFICES ASSUME ~moved', Agreeing(mount)'
             PROVE  InOrder'
  BY <1>1, Zenon DEF RequestsInv, InOrder, InFlight, Separate
<1>2. Agreeing(mount)
  BY <1>1, Zenon
<1> DEFINE f == pending[h].event
<1>3. /\ InOrder /\ Next /\ InFlight(h) /\ h \in Busy
      /\ tree' = Reference(tree, f)
      /\ \A g \in Busy' : /\ g \in Busy /\ g # h /\ pending'[g] = pending[g]
                          /\ Follow(pending[g].event, f) = pending[g].event
  BY <1>2, FinishAtomic, Zenon
<1>4. TypeOK /\ Agree
  BY <1>2, <1>3, Zenon DEF InOrder, OverlayInv
<1>5. OverlayInv'
  BY <1>3, InvStep, Zenon DEF InOrder
<1>6. ASSUME NEW g \in Busy'
      PROVE  Undisturbed(tree, tree', pending[g].event)
  <2> DEFINE e == pending[g].event
  <2>1. g \in Busy /\ g # h /\ Follow(e, f) = e /\ InFlight(g) /\ Separate(g, h)
    BY <1>3, <1>6, Zenon DEF InOrder
  <2>2. Shaped(e) /\ Takes(tree, e) /\ Shaped(f) /\ Takes(tree, f)
        /\ Locks(tree, e) \cap Locks(tree, f) = {}
    BY <1>3, <2>1, Zenon DEF InFlight, Separate
  <2> HIDE DEF e, f
  <2>3. /\ "path" \in DOMAIN e /\ e.path \in Paths /\ f.path \in Paths
        /\ e.op = "rename" => "to" \in DOMAIN e /\ e.to \in Paths
        /\ f.op = "rename" => f.to \in Paths
    BY <1>4, <2>2, ShapedFields, Zenon
  <2>4. Beside(tree, e, f)
    BY <1>4, <2>2, <2>3, Zenon DEF Beside, TypeOK, Agree
  <2> QED BY <1>3, <2>1, <2>3, <2>4, Unaffected, Zenon DEF e
<1>7. ASSUME NEW g \in Busy'
      PROVE  InFlight(g)'
  <2>1. InFlight(g) /\ pending'[g] = pending[g]
    BY <1>3, <1>7, Zenon DEF InOrder
  <2>2. Takes(tree', pending[g].event)
    BY <1>6, <1>7, Zenon DEF Undisturbed
  <2> QED BY <1>1, <2>1, <2>2, ShapedStays, Zenon DEF InFlight
<1>8. ASSUME NEW g \in Busy', NEW k \in Busy', g # k
      PROVE  Separate(g, k)'
  <2>1. /\ Separate(g, k) /\ pending'[g] = pending[g] /\ pending'[k] = pending[k]
    BY <1>3, <1>8, Zenon DEF InOrder
  <2>2. /\ Locks(tree', pending[g].event) = Locks(tree, pending[g].event)
        /\ Locks(tree', pending[k].event) = Locks(tree, pending[k].event)
    BY <1>6, <1>8, Zenon DEF Undisturbed
  <2> QED BY <2>1, <2>2, Zenon DEF Separate
<1> QED BY <1>5, <1>7, <1>8, Zenon DEF InOrder

LEMMA RequestsStart == RInit => RequestsInv
<1> SUFFICES ASSUME RInit
             PROVE  RequestsInv
  BY Zenon
<1>1. OverlayInv /\ DOMAIN pending = Handlers
  BY InvInit, Zenon DEF RInit
<1>2. \A h \in Handlers : h \notin Busy
  BY Zenon DEF RInit, Busy
<1>3. \A h : h \notin Busy
  BY <1>2, Zenon DEF Busy
<1> QED BY <1>1, <1>3, Zenon DEF RequestsInv

LEMMA RequestsStep == RequestsInv /\ [RNext]_rvars => RequestsInv'
<1> SUFFICES ASSUME RequestsInv, [RNext]_rvars
             PROVE  RequestsInv'
  BY Zenon
<1>1. CASE RNext
  BY <1>1, BeginStep, FinishStep, Zenon DEF RNext
<1>2. CASE UNCHANGED rvars
  <2>1. /\ mount' = mount /\ upper' = upper /\ tree' = tree /\ pending' = pending
        /\ moved' = moved
    BY <1>2, Zenon DEF rvars, vars
  <2>2. \A h \in Busy' : h \in Busy
    BY <2>1, Zenon DEF Busy, Idle
  <2>3. ASSUME InOrder
        PROVE  InOrder'
    <3>1. OverlayInv'
      BY <2>1, <2>3, InvStep, Zenon DEF InOrder, vars
    <3>2. \A h \in Busy' : InFlight(h)'
      BY <2>1, <2>2, <2>3, ShapedStays, Zenon DEF InOrder, InFlight
    <3>3. \A g, h \in Busy' : g # h => Separate(g, h)'
      BY <2>1, <2>2, <2>3, Zenon DEF InOrder, Separate
    <3> QED BY <3>1, <3>2, <3>3, Zenon DEF InOrder
  <2>4. DOMAIN pending' = Handlers /\ (~moved' /\ Agreeing(mount)' => InOrder')
    BY <2>1, <2>3, RequestsParts, Zenon
  <2> QED BY <2>4, Zenon DEF RequestsInv, InOrder, InFlight, Separate
<1> QED BY <1>1, <1>2, Zenon

\* On a mount that shows the reference tree, however requests interleave,
\* that tree still takes each one in flight, and their locks keep them apart
\* (the handlers of merged.go, until the session commits).
THEOREM RequestsHeld == RSpec => []RequestsInv
  BY RequestsStart, RequestsStep, PTL DEF RSpec

\* No request that passed the handler's checks on an Agreeing mount is refused
\* by upper.Check for one that committed in between.
THEOREM NoneRefused == RSpec => [](Agreeing(mount) => NeverRefused)
<1>1. RequestsInv => (Agreeing(mount) => NeverRefused)
  <2> SUFFICES ASSUME RequestsInv, Agreeing(mount), ~moved, NEW h \in Busy
               PROVE  Check(upper, pending[h].event)
    BY Zenon DEF NeverRefused
  <2>1. InOrder
    BY RequestsParts, Zenon
  <2>2. TypeOK /\ Agree /\ InFlight(h)
    BY <2>1, Zenon DEF InOrder, OverlayInv
  <2> QED BY <2>2, Answered, Zenon DEF InFlight
<1> QED BY <1>1, RequestsHeld, PTL

\* A step of the requests is a step of Overlay, unless it moves a directory
\* under one in flight.
LEMMA StepAtomic ==
  ASSUME RequestsInv, Agreeing(mount), [RNext]_rvars, ~moved'
  PROVE  [Next]_vars
<1>1. ASSUME NEW h \in Handlers, Begin(h)
      PROVE  [Next]_vars
  BY <1>1, Zenon DEF Begin
<1>2. ASSUME NEW h \in Handlers, Finish(h)
      PROVE  [Next]_vars
  BY <1>2, FinishAtomic, Zenon
<1>3. CASE UNCHANGED rvars
  BY <1>3, Zenon DEF rvars
<1> QED BY <1>1, <1>2, <1>3, Zenon DEF RNext

\* The mount stays.
LEMMA AgreeingStays == Agreeing(mount) /\ [RNext]_rvars => Agreeing(mount)'
<1> SUFFICES ASSUME Agreeing(mount), [RNext]_rvars
             PROVE  Agreeing(mount)'
  BY Zenon
<1>1. mount' = mount
  BY Zenon DEF RNext, Begin, Finish, rvars, vars
<1> QED BY <1>1, Zenon DEF Agreeing, Bare, Steady, Alters

\* On an Agreeing mount each request takes effect at its commit and as a
\* whole, as if check and commit were one (merged.go and Session.apply).
THEOREM CommitsAreAtomic == RSpec /\ Agreeing(mount) => CommitsAtomic
<1>1. RequestsInv /\ Agreeing(mount) /\ [RNext]_rvars
        => [~moved' => [Next]_vars]_rvars
  BY StepAtomic, Zenon
<1> QED BY <1>1, RequestsHeld, AgreeingStays, PTL DEF RSpec, CommitsAtomic

\* So that, as long as no directory is moved under a request in flight,
\* concurrent requests implement Overlay, where a request is one step.
THEOREM RequestsImplementOverlay == RSpec /\ Agreeing(mount) /\ []~moved => Spec
<1>1. RInit => Init
  BY Zenon DEF RInit
<1>2. RequestsInv /\ Agreeing(mount) /\ [RNext]_rvars /\ ~moved' => [Next]_vars
  BY StepAtomic, Zenon
<1> QED BY <1>1, <1>2, RequestsHeld, AgreeingStays, PTL DEF RSpec, Spec
-----------------------------------------------------------------------------
(* What the mount shows beside requests in flight *)

\* The reference tree is a function, whatever the requests.
Mapped == tree = [p \in DOMAIN tree |-> tree[p]]

LEMMA MappedStep == Mapped /\ [Next]_vars => Mapped'
<1> SUFFICES ASSUME Mapped, [Next]_vars
             PROVE  Mapped'
  BY Zenon
<1>1. CASE Create \/ Mkdir \/ Symlink
  <2>1. PICK p, k : tree' = Put(tree, p, Made(k))
    BY <1>1, Makes, Zenon
  <2> QED BY <2>1 DEF Mapped, Put
<1>2. CASE Write \/ Truncate
  <2>1. PICK p : tree' = Owned(p)
    BY <1>2, Writes, Truncates, Zenon
  <2> QED BY <2>1 DEF Mapped, Owned
<1>3. CASE Chmod
  <2>1. PICK p : tree' = [q \in DOMAIN tree |-> [tree[q] EXCEPT !.mode =
                           IF q = p THEN "set" ELSE @]]
    BY <1>3, Chmods, Zenon
  <2> QED BY <2>1 DEF Mapped
<1>4. CASE Unlink \/ Rmdir
  <2>1. PICK p : tree' = Drop(tree, p)
    BY <1>4, Removes, Zenon
  <2> QED BY <2>1 DEF Mapped, Drop
<1>5. CASE Rename
  <2>1. PICK from, to : tree' = RefRename(tree, from, to)
    BY <1>5, Renames, Zenon
  <2>2. CASE from = to
    BY <2>1, <2>2, Zenon DEF Mapped, RefRename
  <2>3. CASE from # to
    BY SMTT(30), <2>1, <2>3 DEF Mapped, RefRename
  <2> QED BY <2>2, <2>3, Zenon
<1>6. CASE UNCHANGED vars
  BY <1>6, Zenon DEF Mapped, vars
<1> QED BY <1>1, <1>2, <1>3, <1>4, <1>5, <1>6, Zenon DEF Next

\* What was moved under a request stays noted.
LEMMA FinishMoved ==
  ASSUME NEW h \in Handlers, Finish(h), ~moved'
  PROVE  mount' = mount /\ ~moved
<1> DEFINE r == pending[h]
           others == Busy \ {h}
           still == [g \in Handlers |->
                       IF g \in others
                       THEN [pending[g] EXCEPT !.at = Follow(@, r.at)] ELSE Idle]
<1>1. mount' = mount
  BY Zenon DEF Finish
<1>2. \/ moved' = (moved \/ \E g \in others : still[g] # pending[g])
      \/ moved' = moved
  BY Zenon DEF Finish
<1> HIDE DEF still
<1>3. ~moved
  BY <1>2, Zenon
<1> QED BY <1>1, <1>3, Zenon

\* Where nothing was moved under a request.
Charted == ~moved /\ Agreeing(mount) => Mapped

LEMMA ChartedHeld == RSpec => []Charted
<1>1. RInit => Charted
  BY DEF RInit, Init, Charted, Mapped
<1>2. RequestsInv /\ Charted /\ [RNext]_rvars => Charted'
  <2> SUFFICES ASSUME RequestsInv, Charted, [RNext]_rvars, ~moved', Agreeing(mount)'
               PROVE  Mapped'
    BY Zenon DEF Charted
  <2>1. mount' = mount /\ ~moved
    <3>1. ASSUME NEW h \in Handlers, Begin(h)
          PROVE  mount' = mount /\ ~moved
      BY <3>1, Zenon DEF Begin, vars
    <3>2. ASSUME NEW h \in Handlers, Finish(h)
          PROVE  mount' = mount /\ ~moved
      BY <3>2, FinishMoved, Zenon
    <3>3. CASE UNCHANGED rvars
      BY <3>3, Zenon DEF rvars, vars
    <3> QED BY <3>1, <3>2, <3>3, Zenon DEF RNext
  <2>2. Agreeing(mount) /\ Mapped
    BY <2>1, Zenon DEF Charted
  <2>3. [Next]_vars
    BY <2>2, StepAtomic, Zenon
  <2> QED BY <2>2, <2>3, MappedStep, Zenon
<1> QED BY <1>1, <1>2, RequestsHeld, PTL DEF RSpec

\* The merged view is the tree, modes included where they are kept.
LEMMA ViewWhole ==
  ASSUME TypeOK, Agree, Mapped, KeepsModes(mount)
  PROVE  View = tree
<1>1. /\ DOMAIN View = DOMAIN tree
      /\ \A p \in DOMAIN tree :
           /\ View[p].kind = tree[p].kind /\ View[p].base = tree[p].base
           /\ View[p].own = tree[p].own /\ View[p].mode = tree[p].mode
  BY ViewAt, Zenon
<1>2. ASSUME NEW p \in DOMAIN tree
      PROVE  View[p] = tree[p]
  <2>1. tree[p] \in Entry
    BY Zenon DEF TypeOK
  <2> DEFINE t == tree[p]
             v == View[p]
  <2>2. v = [kind |-> v.kind, base |-> v.base, mode |-> v.mode, own |-> v.own]
    <3>1. v = Resolve(p)
      BY <1>1, Zenon DEF View
    <3>2. \A x : x = Resolve(p) =>
                   x = [kind |-> x.kind, base |-> x.base, mode |-> x.mode, own |-> x.own]
      BY DEF Resolve
    <3> QED BY <3>1, <3>2, Zenon
  <2>3. t = [kind |-> t.kind, base |-> t.base, mode |-> t.mode, own |-> t.own]
    BY <2>1 DEF Entry
  <2> QED BY <1>1, <2>2, <2>3, Zenon
<1>3. View = [p \in DOMAIN View |-> View[p]]
  BY DEF View
<1> QED BY <1>1, <1>2, <1>3, Zenon DEF Mapped

\* On an Agreeing mount that keeps modes, however requests interleave, the
\* mount shows what an ordinary file system would after those answered so far
\* (the merged view of internal/fs, the commits of internal/session).
THEOREM SameAsOrdinaryTree ==
  RSpec => [](Agreeing(mount) /\ KeepsModes(mount) => SameAsOrdinary)
<1>1. RequestsInv /\ Charted
        => (Agreeing(mount) /\ KeepsModes(mount) => SameAsOrdinary)
  <2> SUFFICES ASSUME RequestsInv, Charted, Agreeing(mount), KeepsModes(mount), ~moved
               PROVE  View = tree
    BY Zenon DEF SameAsOrdinary
  <2>1. OverlayInv /\ Mapped
    BY Zenon DEF RequestsInv, Charted
  <2> QED BY <2>1, ViewWhole, Zenon DEF OverlayInv
<1> QED BY <1>1, RequestsHeld, ChartedHeld, PTL
=============================================================================
