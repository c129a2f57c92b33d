------------------------------ MODULE Overlay ------------------------------
(***************************************************************************)
(* The mount's namespace (internal/fs over internal/upper): what the       *)
(* merged view shows, which requests the FUSE handlers let through, and    *)
(* what each committed event does to the view.                             *)
(*                                                                         *)
(* tree is the reference: the directory tree an ordinary file system would *)
(* show after the same requests.  A request is one step: the kernel holds  *)
(* the directory (and victim) inode locked while a handler checks the      *)
(* merged view and commits.                                                *)
(***************************************************************************)
EXTENDS Upper, FiniteSets

CONSTANT
  Mounts       \* what is mounted and how it is used, see MountAssumption

AllRequests ==
  {"create", "mkdir", "symlink", "write", "truncate", "chmod", "unlink",
   "rmdir", "rename"}

\* lower: the lower tree, its paths, each with its kind.
\* requests: the kinds of mutation the users make.
\* named: bound, the paths they create and rename to.
ASSUME MountAssumption ==
  \A m \in Mounts :
    /\ DOMAIN m.lower \subseteq Paths
    /\ \A p \in DOMAIN m.lower :
         /\ m.lower[p] \in Kinds
         /\ \A q \in Paths :
              Under(p, q) => q \in DOMAIN m.lower /\ m.lower[q] = "dir"
    /\ m.requests \subseteq AllRequests
    /\ m.named \subseteq Paths

VARIABLES
  mount,    \* the member of Mounts this is, fixed for good
  upper,    \* the overlay state of the session
  tree      \* history: path -> entry of the reference tree

vars == <<mount, upper, tree>>

Lower == mount.lower

\* base: the lower entry whose bytes or target show where the session wrote
\* none; own: created, or its data changed, in this session.
Entry == [kind: Kinds, base: Paths \cup {NoPath}, mode: Modes, own: BOOLEAN]
----------------------------------------------------------------------------
(* resolve: the merged view at a path *)

\* statLower finds a lower twin.
HasLower(p) == LowerPath(upper, p) \in DOMAIN Lower

Present(p) == HasNode(upper, p) \/ (~Hidden(upper, p) /\ HasLower(p))

KindOf(p) ==
  IF HasNode(upper, p) THEN upper.nodes[p].kind ELSE Lower[LowerPath(upper, p)]

IsDir(p) == Present(p) /\ KindOf(p) = "dir"

\* fallthroughSrc, then lowerPath: the file a read takes unwritten bytes
\* from, zeros when there is none.
ReadsFrom(p) ==
  LET src == LowerPath(upper, IF HasNode(upper, p)
                              THEN upper.nodes[p].lowerRel ELSE p)
  IN IF src \in DOMAIN Lower /\ Lower[src] # "dir" THEN src ELSE NoPath

ModeOf(p) ==
  IF HasNode(upper, p) THEN upper.nodes[p].mode
  ELSE IF p \in upper.overrides THEN "set" ELSE "lower"

Resolve(p) ==
  [kind |-> KindOf(p), base |-> ReadsFrom(p), mode |-> ModeOf(p),
   own |-> HasNode(upper, p)]

\* What a user reaches: the kernel looks a path up component by component.
Reached(p) ==
  /\ Present(p)
  /\ \A n \in 1 .. Len(p) - 1 : IsDir(SubSeq(p, 1, n))

View == [p \in {q \in Paths : Reached(q)} |-> Resolve(p)]

InDir(p) == Parent(p) = NoPath \/ (Reached(Parent(p)) /\ IsDir(Parent(p)))
----------------------------------------------------------------------------
(* mergedEntries and mergedEmpty: the merged listing of a directory *)

\* listLower
LowerNames(dir) ==
  {p \in {Append(dir, n) : n \in Names} :
     Append(LowerPath(upper, dir), Base(p)) \in DOMAIN Lower}

White(dir) ==
  ChildrenIn(upper.whiteouts, dir) \ ChildrenIn(DOMAIN upper.nodes, dir)

Redirected(dir) == ChildrenIn(DOMAIN upper.redirects, dir)

\* Mutant of Listing: what was renamed into the directory is not added.
ListingPlain(dir) ==
  LET below == IF Hidden(upper, dir) THEN {} ELSE LowerNames(dir)
  IN (below \ White(dir)) \cup ChildrenIn(DOMAIN upper.nodes, dir)

Listing(dir) ==
  LET below == IF Hidden(upper, dir) THEN {} ELSE LowerNames(dir)
  IN ((below \cup Redirected(dir)) \ White(dir))
       \cup ChildrenIn(DOMAIN upper.nodes, dir)

mergedEmpty(dir) ==
  /\ ChildrenIn(DOMAIN upper.nodes, dir) = {}
  /\ Redirected(dir) \subseteq White(dir)
  /\ Hidden(upper, dir) \/ LowerNames(dir) \subseteq White(dir)
----------------------------------------------------------------------------
(* The events each handler lets through to the commit *)

Fresh(op) ==
  {[op |-> op, path |-> p] : p \in {q \in mount.named : InDir(q) /\ ~Present(q)}}

\* A handle opened for writing writes to the file its inode is at; the first
\* write to a lower-backed file is sparse.  What handles read is in FileData.
Writable == {p \in Paths : Reached(p) /\ KindOf(p) = "file"}

WriteEvents ==
  {[op |-> "write", path |-> p, fall |-> ~HasNode(upper, p)] : p \in Writable}

TruncateEvents == {[op |-> "truncate", path |-> p] : p \in Writable}

ChmodEvents == {[op |-> "chmod", path |-> p] : p \in {q \in Paths : Reached(q)}}

UnlinkEvents ==
  {[op |-> "unlink", path |-> p] :
     p \in {q \in Paths : Reached(q) /\ KindOf(q) # "dir"}}

\* Mutant of RmdirEvents: the handler leaves emptiness to upper.Check.
RmdirEventsAny ==
  {[op |-> "rmdir", path |-> p] : p \in {q \in Paths : Reached(q) /\ IsDir(q)}}

RmdirEvents ==
  {[op |-> "rmdir", path |-> p] :
     p \in {q \in Paths : Reached(q) /\ IsDir(q) /\ mergedEmpty(q)}}

\* Bound: nothing moves below MaxDepth.
Fits(from, to) ==
  \A p \in DOMAIN tree \cup DOMAIN upper.nodes \cup DOMAIN upper.redirects
           \cup upper.whiteouts \cup upper.overrides :
    AtOrUnder(p, from) => Len(p) - Len(from) + Len(to) <= MaxDepth

Replaces(from, to) ==
  Present(to) =>
    /\ IsDir(to) = IsDir(from)
    /\ IsDir(to) => mergedEmpty(to)

\* Mutant of RenameEvents: only a shadowed lower twin is reported.
RenameEventsBoth ==
  {[op |-> "rename", path |-> pair[1], to |-> pair[2],
    fromLower |-> HasNode(upper, pair[1]) /\ HasLower(pair[1])] :
     pair \in {q \in Paths \X mount.named :
                 /\ Reached(q[1]) /\ InDir(q[2])
                 /\ Replaces(q[1], q[2])
                 /\ ~(IsDir(q[1]) /\ Under(q[2], q[1]))
                 /\ Fits(q[1], q[2])}}

RenameEvents ==
  {[op |-> "rename", path |-> pair[1], to |-> pair[2],
    fromLower |-> HasLower(pair[1])] :
     pair \in {q \in Paths \X mount.named :
                 /\ Reached(q[1]) /\ InDir(q[2])
                 /\ Replaces(q[1], q[2])
                 /\ ~(IsDir(q[1]) /\ Under(q[2], q[1]))
                 /\ Fits(q[1], q[2])}}
----------------------------------------------------------------------------
(* The reference tree *)

Put(t, p, entry) ==
  [q \in DOMAIN t \cup {p} |-> IF q = p THEN entry ELSE t[q]]

Made(kind) == [kind |-> kind, base |-> NoPath, mode |-> "new", own |-> TRUE]

\* What was at or under from is at or under to, and nothing else is.
RefRename(t, from, to) ==
  LET Was(p) == IF AtOrUnder(p, to) THEN Rebase(p, to, from) ELSE p
  IN IF from = to THEN t
     ELSE [p \in {q \in Paths : Was(q) \in DOMAIN t /\ ~AtOrUnder(q, from)} |->
             t[Was(p)]]

Reference(t, e) ==
  CASE e.op = "create" -> Put(t, e.path, Made("file"))
    [] e.op = "mkdir" -> Put(t, e.path, Made("dir"))
    [] e.op = "symlink" -> Put(t, e.path, Made("symlink"))
    [] e.op \in {"write", "truncate"} ->
         [p \in DOMAIN t |-> [t[p] EXCEPT !.own = @ \/ p = e.path]]
    [] e.op = "chmod" ->
         [p \in DOMAIN t |-> [t[p] EXCEPT !.mode = IF p = e.path THEN "set"
                                                  ELSE @]]
    [] e.op \in {"unlink", "rmdir"} -> Drop(t, e.path)
    [] e.op = "rename" -> RefRename(t, e.path, e.to)
----------------------------------------------------------------------------
(* A handler's event passes Check and is applied, or the request is refused *)

Commit(events) ==
  \E e \in events :
    /\ e.op \in mount.requests
    /\ Check(upper, e)
    /\ upper' = Apply(upper, e)
    /\ tree' = Reference(tree, e)
    /\ UNCHANGED mount

Init ==
  /\ mount \in Mounts
  /\ upper = NewUpper
  /\ tree = [p \in DOMAIN Lower |->
               [kind |-> Lower[p],
                base |-> IF Lower[p] = "dir" THEN NoPath ELSE p,
                mode |-> "lower", own |-> FALSE]]

Create == Commit(Fresh("create"))
Mkdir == Commit(Fresh("mkdir"))
Symlink == Commit(Fresh("symlink"))
Write == Commit(WriteEvents)
Truncate == Commit(TruncateEvents)
Chmod == Commit(ChmodEvents)
Unlink == Commit(UnlinkEvents)
Rmdir == Commit(RmdirEvents)
Rename == Commit(RenameEvents)

Next ==
  \/ Create \/ Mkdir \/ Symlink \/ Write \/ Truncate \/ Chmod
  \/ Unlink \/ Rmdir \/ Rename

Spec == Init /\ [][Next]_vars
----------------------------------------------------------------------------
(* Properties *)

\* The overlay state and the reference tree have their types; in particular
\* applyRename leaves no key that is not a path.
TypeOK ==
  /\ mount \in Mounts
  /\ UpperType(upper)
  /\ DOMAIN tree \subseteq Paths /\ \A p \in DOMAIN tree : tree[p] \in Entry

\* What a user removed, moved away or replaced does not come back: every
\* path the mount shows is one the requests left there (Unlink, Rmdir, Rename
\* and the whiteouts they record).
NothingReappears == DOMAIN View \subseteq DOMAIN tree

\* Nothing is lost: every path the requests left there is shown, also under
\* renamed and recreated directories (resolve, applyRename).
NothingLost == DOMAIN tree \subseteq DOMAIN View

\* What is shown at a path is the object that belongs there: its kind, the
\* lower file its unwritten bytes come from, and whether the session's own
\* data is on top (applyWrite, LowerPath, fallthroughSrc).
ObjectsKept ==
  \A p \in DOMAIN View \cap DOMAIN tree :
    /\ View[p].kind = tree[p].kind
    /\ View[p].base = tree[p].base
    /\ View[p].own = tree[p].own

\* Attributes follow the object through materialisation and renames, and only
\* a setattr changes them (absorbOverride, moveOverrides).
ModesKept ==
  \A p \in DOMAIN View \cap DOMAIN tree : View[p].mode = tree[p].mode

\* Readdir and lookup agree: a directory lists exactly the names that resolve
\* in it (mergedEntries, resolve).
ListingAgrees ==
  \A dir \in {NoPath} \cup {p \in Paths : Reached(p) /\ IsDir(p)} :
    Listing(dir) = {p \in Paths : Parent(p) = dir /\ Present(p)}
----------------------------------------------------------------------------
(* What makes them inductive *)

\* Mounts that show the reference tree: those over an empty lower tree, and
\* those where nothing is renamed and no written file is unlinked.
Bare(m) == DOMAIN m.lower = {}
Alters(m) == "write" \in m.requests \/ "truncate" \in m.requests
Steady(m) ==
  "rename" \notin m.requests /\ ("unlink" \in m.requests => ~Alters(m))
Agreeing(m) == Bare(m) \/ Steady(m)

\* What is in a tree is in directories of that tree.
Ordinary(t) ==
  \A p \in DOMAIN t, q \in Paths :
    Under(p, q) => q \in DOMAIN t /\ t[q].kind = "dir"

\* A node has no lower twin that its removal would show, unless it was made
\* by writing to that twin.
NodeSound(p) ==
  \/ /\ upper.nodes[p].lowerRel = NoPath
     /\ Hidden(upper, p) \/ p \notin DOMAIN Lower
  \/ /\ upper.nodes[p].lowerRel = p /\ upper.nodes[p].kind = "file"
     /\ p \in DOMAIN Lower /\ Lower[p] = "file" /\ Alters(mount)

\* Truncating a lower file gives it a mode of its own.
KeepsModes(m) == Bare(m) \/ "truncate" \notin m.requests

\* The merged view and the reference tree agree at p.
SameAt(p) ==
  /\ tree[p].kind = KindOf(p) /\ tree[p].base = ReadsFrom(p)
  /\ tree[p].own = HasNode(upper, p)
  /\ KeepsModes(mount) => tree[p].mode = ModeOf(p)

Agree ==
  /\ DOMAIN upper.redirects = {}
  /\ \A p \in DOMAIN upper.nodes : NodeSound(p)
  /\ Ordinary(tree)
  /\ DOMAIN tree = {p \in Paths : Present(p)}
  /\ \A p \in DOMAIN tree : SameAt(p)
  /\ Bare(mount) => upper.whiteouts = {} /\ upper.overrides = {}

\* Mounts where no path is served from another place of the lower tree.
Straight(m) == Bare(m) \/ "rename" \notin m.requests

OverlayInv ==
  /\ TypeOK
  /\ Agreeing(mount) => Agree
  /\ Straight(mount) => DOMAIN upper.redirects = {}
=============================================================================
