------------------------------ MODULE FileData ------------------------------
(***************************************************************************)
(* The bytes of one file: the extent list of its overlay node, the open    *)
(* handles, and what Open, Write, Setattr(size) and Read make of them      *)
(* (internal/upper/apply.go, internal/fs/node.go, handle.go, extents.go).  *)
(*                                                                         *)
(* A blob is named by its contents, here a tag and a length, and its k-th  *)
(* byte is <<blob, k>>.  want is the reference: the bytes an ordinary file *)
(* would hold.  Offsets count from 0, sequences from 1.  A write resolves  *)
(* the size and commits in one step: the kernel holds the inode locked.    *)
(***************************************************************************)
EXTENDS Integers, Sequences, FiniteSets

CONSTANTS
  Tags,          \* distinct data a write may carry
  Fds,           \* descriptors the file may be opened with
  LowerSize,     \* bytes of the lower file
  MaxSize,       \* bound: file size
  MaxWrite       \* bound: bytes of one write

ASSUME FileAssumption ==
  /\ LowerSize \in 0 .. MaxSize /\ MaxSize \in Nat /\ MaxWrite \in Nat

VARIABLES
  node,     \* the overlay node, NoNode while the file is lower-only
  want,     \* history: the bytes the file should hold
  handle    \* the handle behind each descriptor

vars == <<node, want, handle>>

Blob == [tag: Tags, len: 1 .. MaxWrite]

Extent == [off: Nat, len: Nat, blob: Blob, boff: Nat]

NoNode == [size |-> -1, extents |-> <<>>, fall |-> FALSE]

Zero == <<"zero">>
LowerByte(n) == <<"lower", n>>
BlobByte(b, k) == <<b.tag, b.len, k>>

End(x) == x.off + x.len

\* An overlayHandle resolves the file at every call, a lowerHandle has the
\* lower file open.  early is history: a read-only open of a file that had
\* not been written or truncated yet.
Handle ==
  [kind: {"none", "overlay", "lower"}, write: BOOLEAN, early: BOOLEAN]

Closed == [kind |-> "none", write |-> FALSE, early |-> FALSE]

LowerFile == [i \in 1 .. LowerSize |-> LowerByte(i - 1)]
----------------------------------------------------------------------------
(* The extent list *)

overlaps(x, s, e) == End(x) > s /\ x.off < e

\* Mutant of Pieces: what is right of the new extent keeps the blob offset.
PiecesUnshifted(x, e) ==
  IF ~overlaps(x, e.off, End(e)) THEN {x}
  ELSE (IF x.off < e.off THEN {[x EXCEPT !.len = e.off - x.off]} ELSE {})
       \cup (IF End(x) > End(e)
             THEN {[x EXCEPT !.off = End(e), !.len = End(x) - End(e)]}
             ELSE {})

\* What extent x leaves outside the new extent e.
Pieces(x, e) ==
  IF ~overlaps(x, e.off, End(e)) THEN {x}
  ELSE (IF x.off < e.off THEN {[x EXCEPT !.len = e.off - x.off]} ELSE {})
       \cup (IF End(x) > End(e)
             THEN {[off |-> End(e), len |-> End(x) - End(e), blob |-> x.blob,
                    boff |-> x.boff + (End(e) - x.off)]}
             ELSE {})

adjacent(a, b) ==
  /\ End(a) = b.off
  /\ a.blob = b.blob
  /\ a.boff + a.len = b.boff

\* One step of coalesce: x extends the last extent of out or follows it.
Merged(out, x) ==
  IF out # <<>> /\ adjacent(out[Len(out)], x)
  THEN [out EXCEPT ![Len(out)].len = @ + x.len]
  ELSE Append(out, x)

coalesce(exts) ==
  LET out[i \in 0 .. Len(exts)] ==
        IF i = 0 THEN <<>> ELSE Merged(out[i - 1], exts[i])
  IN out[Len(exts)]

\* SortFunc: an extent's place is given by how many begin before it.
Sorted(S) ==
  [i \in 1 .. Cardinality(S) |->
     CHOOSE x \in S : Cardinality({y \in S : y.off < x.off}) = i - 1]

insertExtent(exts, e) ==
  coalesce(Sorted({e} \cup UNION {Pieces(exts[i], e) : i \in DOMAIN exts}))

\* Mutant of Clipped: an extent across the new end keeps its length.
ClippedWhole(x, end) == x

Clipped(x, end) == IF End(x) > end THEN [x EXCEPT !.len = end - x.off] ELSE x

clipExtents(exts, end) ==
  LET out[i \in 0 .. Len(exts)] ==
        IF i = 0 THEN <<>>
        ELSE IF exts[i].off >= end THEN out[i - 1]
        ELSE Append(out[i - 1], Clipped(exts[i], end))
  IN out[Len(exts)]
----------------------------------------------------------------------------
(* Reading *)

Greatest(S) == CHOOSE n \in S : \A m \in S : m <= n

LowerShows == node = NoNode \/ node.fall

\* sizeOfNode, and the lower size of a file without a node
FileSize ==
  IF node.size >= 0 THEN node.size
  ELSE Greatest({End(node.extents[i]) : i \in DOMAIN node.extents}
                  \cup {IF LowerShows THEN LowerSize ELSE 0})

readWindow(off, n) ==
  IF off >= FileSize THEN 0
  ELSE (IF off + n > FileSize THEN FileSize ELSE off + n) - off

Covers(x, k) == x.off <= k /\ k < End(x)

\* extentBytes: the byte that x has at offset k of the file
ByteAt(x, k) == BlobByte(x.blob, x.boff + (k - x.off))

\* mergeExtents: the extents up to the first one past the window, in order,
\* each over the bytes it covers; the last one stays.
mergeExtents(off, data) ==
  LET seen == {j \in DOMAIN node.extents :
                 \A i \in 1 .. j : node.extents[i].off < off + Len(data)}
      Over(k) == {j \in seen : Covers(node.extents[j], k)}
  IN [i \in DOMAIN data |->
        IF Over(off + i - 1) = {} THEN data[i]
        ELSE ByteAt(node.extents[Greatest(Over(off + i - 1))], off + i - 1)]

\* Read of an overlayHandle
overlayRead(off, n) ==
  LET Below(k) == IF LowerShows /\ k < LowerSize THEN LowerByte(k) ELSE Zero
  IN mergeExtents(off, [i \in 1 .. readWindow(off, n) |-> Below(off + i - 1)])

\* Read of a lowerHandle: Pread of the lower file, whatever was written since
lowerRead(off, n) ==
  [i \in {k \in 1 .. n : off + k <= LowerSize} |-> LowerByte(off + i - 1)]

Read(f, off, n) ==
  IF handle[f].kind = "lower" THEN lowerRead(off, n) ELSE overlayRead(off, n)
----------------------------------------------------------------------------
(* Writing *)

Padded(s, n) == s \o [i \in 1 .. (n - Len(s)) |-> Zero]

RefWrite(s, off, b) ==
  LET p == Padded(s, off + b.len)
  IN [i \in DOMAIN p |-> IF i - 1 \in off .. off + b.len - 1
                         THEN BlobByte(b, i - 1 - off) ELSE p[i]]

RefTruncate(s, n) == SubSeq(Padded(s, n), 1, n)

\* A file of the lower tree, or one just created in the session.
Init ==
  /\ \/ node = NoNode /\ want = LowerFile
     \/ /\ node = [size |-> 0, extents |-> <<>>, fall |-> FALSE]
        /\ want = <<>>
  /\ handle = [f \in Fds |-> Closed]

\* Mutant of Open: a file read-only opened is read from the lower tree, though
\* it has a node.
OpenRaw(f, write) ==
  /\ handle[f] = Closed
  /\ handle' = [handle EXCEPT ![f] =
                  [kind |-> IF write THEN "overlay" ELSE "lower",
                   write |-> write, early |-> ~write /\ node = NoNode]]
  /\ UNCHANGED <<node, want>>

\* Only a read-only open of a file without a node gets a lowerHandle.
Open(f, write) ==
  /\ handle[f] = Closed
  /\ handle' = [handle EXCEPT ![f] =
                  [kind |-> IF write \/ node # NoNode THEN "overlay" ELSE "lower",
                   write |-> write, early |-> ~write /\ node = NoNode]]
  /\ UNCHANGED <<node, want>>

Release(f) ==
  /\ handle[f] # Closed
  /\ handle' = [handle EXCEPT ![f] = Closed]
  /\ UNCHANGED <<node, want>>

\* The node a first write makes is sparse.
Node0 == IF node = NoNode THEN [NoNode EXCEPT !.fall = TRUE] ELSE node

\* The extent of a write: all of its blob.
Whole(off, b) == [off |-> off, len |-> b.len, blob |-> b, boff |-> 0]

\* Write of the handle and of Apply: a write that reaches the end sets the
\* size.
Write(f, off, b) ==
  LET end == off + b.len
      exts == insertExtent(Node0.extents, Whole(off, b))
      eof == end >= FileSize
  IN
  /\ handle[f].write /\ end <= MaxSize
  /\ node' = IF eof
             THEN [Node0 EXCEPT !.size = end, !.extents = clipExtents(exts, end)]
             ELSE [Node0 EXCEPT !.extents = exts,
                     !.size = IF ~Node0.fall /\ @ < end THEN end ELSE @]
  /\ want' = RefWrite(want, off, b)
  /\ UNCHANGED handle

\* Setattr of the size, with a descriptor or by path
Truncate(n) ==
  /\ node' = IF node = NoNode
             THEN [size |-> n, extents |-> <<>>, fall |-> TRUE]
             ELSE [node EXCEPT !.size = n,
                               !.extents = clipExtents(node.extents, n)]
  /\ want' = RefTruncate(want, n)
  /\ UNCHANGED handle

Next ==
  \/ \E f \in Fds, write \in BOOLEAN : Open(f, write)
  \/ \E f \in Fds : Release(f)
  \/ \E f \in Fds, off \in 0 .. MaxSize - 1, b \in Blob : Write(f, off, b)
  \/ \E n \in 0 .. MaxSize : Truncate(n)

Spec == Init /\ [][Next]_vars
----------------------------------------------------------------------------
(* Properties *)

\* The extent list is what its readers rely on: sorted, without overlap or
\* neighbours left to merge, inside the file and inside each blob
\* (insertExtent, clipExtents; mergeExtents stops at the first extent past
\* its window, extentBytes refuses one that leaves its blob).
ExtentsTidy ==
  \A i \in DOMAIN node.extents :
    LET x == node.extents[i] IN
    /\ x.len > 0 /\ x.boff + x.len <= x.blob.len
    /\ End(x) <= FileSize
    /\ i < Len(node.extents) =>
         /\ End(x) <= node.extents[i + 1].off
         /\ ~adjacent(x, node.extents[i + 1])

\* The descriptors in use, and those of them that read the current file:
\* opened for writing, or after the first write or truncation.
InUse == {f \in Fds : handle[f].kind # "none"}
Current == {f \in InUse : ~handle[f].early}

\* Every read of every window through a current handle returns the bytes an
\* ordinary file would hold (Open, Write, Setattr of the size, Read).
ReadsExact ==
  \A f \in Current, off \in 0 .. MaxSize, n \in 1 .. MaxSize :
    Read(f, off, n) =
      [i \in {k \in 1 .. n : off + k <= Len(want)} |-> want[off + i]]

\* A file that shows nothing of the lower tree is read exactly: its holes are
\* zeros, and overwritten or cut bytes stay away (insertExtent, clipExtents).
BornExact == ~LowerShows => ReadsExact

\* Does f read back every byte of w that is not a hole?
ReadsBack(f, w) ==
  \A i \in DOMAIN w : w[i] # Zero => Read(f, i - 1, 1) = <<w[i]>>

\* The size is right, and a current handle reads back every byte written and
\* not cut off since, and every lower byte neither cut off nor overwritten.  A
\* handle opened read-only before the first change keeps reading the lower
\* file as it was, written bytes not included (lowerNode.Open, both Reads).
WritesKept ==
  /\ FileSize = Len(want)
  /\ \A f \in InUse : ReadsBack(f, IF f \in Current THEN want ELSE LowerFile)
----------------------------------------------------------------------------
(* What makes them inductive *)

Byte ==
  {Zero} \cup {LowerByte(n) : n \in 0 .. LowerSize - 1}
    \cup {BlobByte(b, k) : b \in Blob, k \in 0 .. MaxWrite - 1}

\* Whole extents of their blobs, in order, apart, none continuing another.
Tidy(exts) ==
  /\ exts \in Seq(Extent)
  /\ \A i \in DOMAIN exts :
       exts[i].len > 0 /\ exts[i].boff + exts[i].len <= exts[i].blob.len
  /\ \A i, j \in DOMAIN exts :
       i < j => End(exts[i]) <= exts[j].off /\ ~adjacent(exts[i], exts[j])

\* Byte b is right at offset k: it is what the extent there says or, without
\* one, a zero or the lower byte that shows.
Holds(exts, below, k, b) ==
  /\ \A i \in DOMAIN exts : Covers(exts[i], k) => b = ByteAt(exts[i], k)
  /\ \/ \E i \in DOMAIN exts : Covers(exts[i], k)
     \/ b = Zero
     \/ below /\ k < LowerSize /\ b = LowerByte(k)

\* exts, over the lower file if that shows below, are a file of content w.
Right(exts, below, w) ==
  /\ Tidy(exts)
  /\ w \in Seq(Byte)
  /\ \A i \in DOMAIN exts : End(exts[i]) <= Len(w)
  /\ \A i \in DOMAIN w : Holds(exts, below, i - 1, w[i])

FileInv ==
  /\ node \in [size: Nat \cup {-1}, extents: Seq(Extent), fall: BOOLEAN]
  /\ Right(node.extents, LowerShows, want)
  /\ Len(want) = IF node.size = -1 THEN LowerSize ELSE node.size
  /\ node.size = -1 => LowerShows

\* The lowerHandles are those of early opens.
HandleInv ==
  /\ handle \in [Fds -> Handle]
  /\ \A f \in Fds : handle[f].kind = "lower" <=> handle[f].early
=============================================================================
