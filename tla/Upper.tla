------------------------------- MODULE Upper -------------------------------
(***************************************************************************)
(* The overlay state of internal/upper and what it makes of one event:     *)
(* Check (its precondition) and Apply (its effect), with the queries the   *)
(* mount asks of it.                                                       *)
(*                                                                         *)
(* A path is a non-empty sequence of names.  File bytes are left to module *)
(* FileData: here a node only records whether the holes of its data fall   *)
(* through to a lower path.  The attributes of an entry are one value, its *)
(* mode: every field of a Setattr is handled alike.                        *)
(***************************************************************************)
EXTENDS Naturals, Sequences

CONSTANTS
  Names,       \* names of directory entries
  MaxDepth     \* bound: components of a path

ASSUME DepthAssumption == MaxDepth \in Nat

Paths == UNION {[1 .. n -> Names] : n \in 1 .. MaxDepth}

NoPath == <<>>    \* also the root, which is never a node

Kinds == {"file", "dir", "symlink"}

\* Modes: "lower" is what the lower entry has, "new" what create, mkdir and
\* symlink give, "set" what a chmod gives; "0644" and "0000" are constants of
\* the code.
Modes == {"lower", "new", "set", "0644", "0000"}

\* lowerRel is NoPath unless the node is Fallthrough.
Node == [kind: Kinds, mode: Modes, lowerRel: Paths \cup {NoPath}]

\* overrides: the lower-backed paths with a recorded chmod.
UpperType(u) ==
  /\ DOMAIN u = {"nodes", "whiteouts", "overrides", "redirects"}
  /\ DOMAIN u.nodes \subseteq Paths /\ \A p \in DOMAIN u.nodes : u.nodes[p] \in Node
  /\ u.whiteouts \subseteq Paths
  /\ u.overrides \subseteq Paths
  /\ DOMAIN u.redirects \subseteq Paths
  /\ \A p \in DOMAIN u.redirects : u.redirects[p] \in Paths

EmptyMap == [p \in {} |-> NoPath]

NewUpper ==
  [nodes |-> EmptyMap, whiteouts |-> {}, overrides |-> {},
   redirects |-> EmptyMap]
----------------------------------------------------------------------------
(* Paths *)

Parent(p) == SubSeq(p, 1, Len(p) - 1)
Base(p) == p[Len(p)]

\* prefixMatch and isDescendant
AtOrUnder(p, dir) == Len(dir) <= Len(p) /\ SubSeq(p, 1, Len(dir)) = dir
Under(p, dir) == AtOrUnder(p, dir) /\ p # dir

\* toPath: p, at or under from, as it is named under to
Rebase(p, from, to) == to \o SubSeq(p, Len(from) + 1, Len(p))

ChildrenIn(S, dir) == {p \in S : p # NoPath /\ Parent(p) = dir}
----------------------------------------------------------------------------
(* Queries *)

HasNode(u, p) == p \in DOMAIN u.nodes

\* The deepest redirect at p or above it names p's place in the lower tree.
LowerPath(u, p) ==
  LET above == {r \in DOMAIN u.redirects : AtOrUnder(p, r)} IN
  IF above = {} THEN p
  ELSE LET r == CHOOSE r \in above : \A s \in above : Len(s) <= Len(r)
       IN Rebase(p, r, u.redirects[r])

\* A whiteout at p or above it hides the lower tree there.
Hidden(u, p) == \E w \in u.whiteouts : AtOrUnder(p, w)

hasChildren(u, dir) == ChildrenIn(DOMAIN u.nodes, dir) # {}

subtreePresent(u, dir) ==
  \E p \in DOMAIN u.nodes \cup DOMAIN u.redirects : AtOrUnder(p, dir)
----------------------------------------------------------------------------
(* Check: would Apply accept event e?  An event names a path; a write says  *)
(* whether it falls through, a rename where to and whether from is backed   *)
(* by the lower tree.                                                       *)

NodeIs(u, p, kind) == HasNode(u, p) /\ u.nodes[p].kind = kind

checkRename(u, e) ==
  \/ e.path = e.to
  \/ /\ ~Under(e.to, e.path)
     /\ subtreePresent(u, e.path) \/ e.fromLower

Check(u, e) ==
  CASE e.op \in {"create", "mkdir", "symlink"} -> ~HasNode(u, e.path)
    [] e.op \in {"write", "truncate"} ->
         HasNode(u, e.path) => u.nodes[e.path].kind = "file"
    [] e.op = "unlink" -> ~NodeIs(u, e.path, "dir")
    [] e.op = "rmdir" ->
         HasNode(u, e.path) =>
           u.nodes[e.path].kind = "dir" /\ ~hasChildren(u, e.path)
    [] e.op = "rename" -> checkRename(u, e)
    [] e.op = "chmod" -> TRUE
----------------------------------------------------------------------------
(* Apply *)

SetNode(u, p, n) ==
  [u EXCEPT !.nodes = [q \in DOMAIN @ \cup {p} |-> IF q = p THEN n ELSE @[q]]]

Drop(f, p) == [q \in DOMAIN f \ {p} |-> f[q]]

\* Mutant of absorbOverride: the override is dropped.
absorbNothing(u, p, n) == SetNode([u EXCEPT !.overrides = @ \ {p}], p, n)

\* A chmod recorded for the lower-backed path moves onto its new node.
absorbOverride(u, p, n) ==
  SetNode([u EXCEPT !.overrides = @ \ {p}], p,
          IF p \in u.overrides THEN [n EXCEPT !.mode = "set"] ELSE n)

\* Mutant of applyWrite: the new node forgets the lower file.
applyWriteWhole(u, e) ==
  IF HasNode(u, e.path) THEN u
  ELSE absorbOverride(u, e.path, [kind |-> "file", mode |-> "lower",
                                  lowerRel |-> NoPath])

\* A write makes a node when there is none: over a lower file it carries the
\* lower's attributes and any override, and reads its holes through.
applyWrite(u, e) ==
  IF HasNode(u, e.path) THEN u
  ELSE IF e.fall
  THEN absorbOverride(u, e.path, [kind |-> "file", mode |-> "lower",
                                  lowerRel |-> e.path])
  ELSE SetNode(u, e.path, [kind |-> "file", mode |-> "0000",
                           lowerRel |-> NoPath])

applyTruncate(u, e) ==
  IF HasNode(u, e.path) THEN u
  ELSE absorbOverride(u, e.path, [kind |-> "file", mode |-> "0644",
                                  lowerRel |-> e.path])

applyChmod(u, e) ==
  IF HasNode(u, e.path) THEN [u EXCEPT !.nodes[e.path].mode = "set"]
  ELSE [u EXCEPT !.overrides = @ \cup {e.path}]

\* Mutant of applyRemove: a lower-backed path leaves no whiteout.
applyRemoveForgets(u, e) == [u EXCEPT !.nodes = Drop(@, e.path)]

\* Unlink and Rmdir: an overlay node goes, anything else is whiteouted.
applyRemove(u, e) ==
  IF HasNode(u, e.path) THEN [u EXCEPT !.nodes = Drop(@, e.path)]
  ELSE [u EXCEPT !.whiteouts = @ \cup {e.path}]

Cleared(f, to) == [p \in {q \in DOMAIN f : ~AtOrUnder(q, to)} |-> f[p]]

deleteSubtree(u, to) ==
  [nodes |-> Cleared(u.nodes, to), redirects |-> Cleared(u.redirects, to),
   whiteouts |-> {p \in u.whiteouts : ~AtOrUnder(p, to)},
   overrides |-> {p \in u.overrides : ~AtOrUnder(p, to)}]

\* Mutant of MoveMap: only the entry itself moves.
MoveMapTop(f, from, to) ==
  LET moved == {from} \cap DOMAIN f IN
  [q \in (DOMAIN f \ moved) \cup {Rebase(p, from, to) : p \in moved} |->
     IF q \in DOMAIN f \ moved THEN f[q] ELSE f[Rebase(q, to, from)]]

\* What f and S hold at or under from goes to under to, where there is
\* nothing yet.
MoveMap(f, from, to) ==
  LET moved == {p \in DOMAIN f : AtOrUnder(p, from)} IN
  [q \in (DOMAIN f \ moved) \cup {Rebase(p, from, to) : p \in moved} |->
     IF q \in DOMAIN f \ moved THEN f[q] ELSE f[Rebase(q, to, from)]]

\* Mutant of MoveSet: the old prefix is kept.
MoveSetWhole(S, moved, from, to) == (S \ moved) \cup {to \o p : p \in moved}

MoveSet(S, moved, from, to) ==
  (S \ moved) \cup {Rebase(p, from, to) : p \in moved}

\* The destination is cleared, what the overlay holds at or under from moves,
\* a lower-backed from is whiteouted, and a purely lower one is redirected.
applyRename(u, e) ==
  LET from == e.path
      to == e.to
      c == deleteSubtree(u, to)
      pure == ~subtreePresent(c, from)
  IN IF from = to THEN u ELSE
     [nodes |-> MoveMap(c.nodes, from, to),
      redirects |->
        IF pure THEN [q \in DOMAIN c.redirects \cup {to} |->
                        IF q = to THEN from ELSE c.redirects[q]]
        ELSE MoveMap(c.redirects, from, to),
      whiteouts |->
        MoveSet(c.whiteouts, {p \in c.whiteouts : Under(p, from)}, from, to)
        \cup (IF e.fromLower THEN {from} ELSE {}),
      overrides |->
        MoveSet(c.overrides, {p \in c.overrides : AtOrUnder(p, from)},
                from, to)]

Apply(u, e) ==
  CASE e.op \in {"create", "mkdir", "symlink"} ->
         SetNode(u, e.path,
                 [kind |-> CASE e.op = "create" -> "file"
                             [] e.op = "mkdir" -> "dir"
                             [] e.op = "symlink" -> "symlink",
                  mode |-> "new", lowerRel |-> NoPath])
    [] e.op = "write" -> applyWrite(u, e)
    [] e.op = "truncate" -> applyTruncate(u, e)
    [] e.op = "chmod" -> applyChmod(u, e)
    [] e.op \in {"unlink", "rmdir"} -> applyRemove(u, e)
    [] e.op = "rename" -> applyRename(u, e)
=============================================================================
