------------------------------ MODULE Session ------------------------------
(***************************************************************************)
(* The commit, checkpoint, resume and branch pipeline of a kfuse session   *)
(* (internal/session), over the Kafka partitions (internal/kafkalog), the  *)
(* S3 registry and image store (internal/registry) and the writer lease.   *)
(*                                                                         *)
(* A process is one kfuse command that holds a session object: a mount     *)
(* daemon, a `kfuse checkpoint` without a daemon, or a `session branch`.   *)
(* Every remote call (list images, read the high-water mark, produce, ack, *)
(* upload) is a step of its own, so processes interleave between them and  *)
(* may crash between them.                                                 *)
(*                                                                         *)
(* Abstractions.  The overlay tree is a value of Trees, changed by Mutate  *)
(* and guarded by Check (the operators of internal/upper).  A blob is      *)
(* named by the write that needs it.  A session id nobody can name yet     *)
(* (registered, not yet in the lower's index) is not distinguished from an *)
(* unused id.  truth, poisoned and lineage.birth are history variables:    *)
(* no guard of a kfuse step reads them.                                    *)
(***************************************************************************)
EXTENDS Integers, Sequences

CONSTANTS
  SessionIds,       \* ids that NewID may mint
  NoSession,        \* not an id
  Procs,            \* processes
  May,              \* May[p]: the commands p runs, of mount, tool, branch
  Partitions,       \* partitions of the topic
  PartitionFor,     \* the partition a session id hashes to
  Trees,            \* overlay trees
  EmptyTree,        \* the tree of upper.New()
  Ops,              \* mutations a FUSE request can commit
  Writes,           \* the mutations that carry a blob
  Check(_, _),      \* upper.Check, for the tree
  Mutate(_, _),     \* what upper.Apply does to the tree
  Faults,           \* what the environment may do beyond crashing
  MaxLog            \* bound: records per partition

Start == "SessionStart"
NoOp == "none"

(***************************************************************************)
(* Environment behaviours outside what the commit pipeline defends         *)
(* against; a run names the ones it allows.                                *)
(*   overlap   two mounts of one session may be started at the same time   *)
(*   expire    the lease of a live writer may run out (a frozen process)   *)
(*   retry     the producer resends a record whose response was lost       *)
(*   late      a failed produce may become visible after the error         *)
(*   half      a child may be opened before its Branch has finished        *)
(*   future    Branch may name an offset the log has not reached           *)
(*   trim      retention drops records an image of their session covers    *)
(***************************************************************************)
FaultNames == {"overlap", "expire", "retry", "late", "half", "future", "trim"}

ASSUME ConstantsAssumption ==
  /\ NoSession \notin SessionIds
  /\ PartitionFor \in [SessionIds -> Partitions]
  /\ EmptyTree \in Trees
  /\ May \in [Procs -> SUBSET {"mount", "tool", "branch"}]
  /\ Start \notin Ops
  /\ NoOp \notin Ops
  /\ Writes \subseteq Ops
  /\ Faults \subseteq FaultNames
  /\ MaxLog \in Nat

ASSUME TreesClosed ==
  \A t \in Trees, o \in Ops : Check(t, o) => Mutate(t, o) \in Trees

ASSUME CheckBoolean == \A t \in Trees, o \in Ops : Check(t, o) \in BOOLEAN

VARIABLES
  log,       \* log[q]: the records of partition q, offset n at index n + 1
  oldest,    \* oldest[q]: the first offset retention has left in q
  limbo,     \* produces that returned an error and may still land
  images,    \* images[s]: the state images stored for session s
  blobs,     \* writes whose blob is in the blob store
  listed,    \* sessions in the lower's index
  lineage,   \* lineage[s]: parent, branch offset, and the state branched
  lease,     \* lease[s]: the process whose token the lease object holds
  proc,      \* proc[p]: the session object of process p and where p stands
  truth,     \* history: truth[s][n + 1], s after the first n records
  poisoned   \* history: sessions with a durable record Apply rejects

broker == <<log, oldest, limbo, truth, poisoned>>
remote == <<images, blobs, listed, lineage, lease>>
vars == <<broker, remote, proc>>
----------------------------------------------------------------------------
(* Types *)

Upper == [tree: Trees, seqLast: Nat]

Record == [key: SessionIds, seq: Nat, op: Ops \cup {Start}]

Image == [off: Nat, upper: Upper]

MaybeSession == SessionIds \cup {NoSession}

Lineage == [parent: MaybeSession, at: Int, birth: Upper]

Proc ==
  [pc: {"idle", "read", "replay", "replayed", "loaded", "open", "append",
        "sent", "image"},
   role: {"none", "mount", "tool", "branch"},
   sid: MaybeSession,         \* the session this object is about
   child: MaybeSession,       \* the session Branch is making
   to: Int,                   \* toOffset of reconstruct, -1 for the tail
   upper: Upper,
   seq: Nat,
   lastOffset: Int,           \* covered, while replaying
   savedOffset: Int,
   cursor: Nat,               \* next offset to replay
   limit: Nat,                \* offset the replay stops before
   op: Ops \cup {Start, NoOp},
   off: Nat,                  \* offset of the record just produced
   diverged: BOOLEAN,
   leaseLost: BOOLEAN,
   ckptOff: Int,              \* image being uploaded, -1 when none
   ckptUpper: Upper]

New == [tree |-> EmptyTree, seqLast |-> 0]

Idle ==
  [pc |-> "idle", role |-> "none", sid |-> NoSession, child |-> NoSession,
   to |-> -1, upper |-> New, seq |-> 0, lastOffset |-> -1,
   savedOffset |-> -1, cursor |-> 0, limit |-> 0, op |-> NoOp, off |-> 0,
   diverged |-> FALSE, leaseLost |-> FALSE, ckptOff |-> -1,
   ckptUpper |-> New]

NoLineage == [parent |-> NoSession, at |-> -1, birth |-> New]

\* Every variable, and every field of a session object, keeps its type.
TypeOK ==
  /\ log \in [Partitions -> Seq(Record)]
  /\ oldest \in [Partitions -> Nat]
  /\ limbo \in SUBSET Record
  /\ images \in [SessionIds -> SUBSET Image]
  /\ blobs \in SUBSET Writes
  /\ listed \in SUBSET SessionIds
  /\ lineage \in [SessionIds -> Lineage]
  /\ lease \in [SessionIds -> Procs \cup {"free"}]
  /\ proc \in [Procs -> Proc]
  /\ truth \in [SessionIds -> {t \in Seq(Upper) : t # <<>>}]
  /\ poisoned \in SUBSET SessionIds

Init ==
  /\ log = [q \in Partitions |-> <<>>]
  /\ oldest = [q \in Partitions |-> 0]
  /\ limbo = {}
  /\ images = [s \in SessionIds |-> {}]
  /\ blobs = {}
  /\ listed = {}
  /\ lineage = [s \in SessionIds |-> NoLineage]
  /\ lease = [s \in SessionIds |-> "free"]
  /\ proc = [p \in Procs |-> Idle]
  /\ truth = [s \in SessionIds |-> <<New>>]
  /\ poisoned = {}
----------------------------------------------------------------------------
(* Helpers *)

LogOf(s) == log[PartitionFor[s]]

\* Would upper.Apply accept record r on upper u?
Accepts(u, r) ==
  /\ r.seq > u.seqLast
  /\ r.op = Start \/ Check(u.tree, r.op)

\* upper.Apply of an accepted record.
Apply(u, r) ==
  [tree |-> IF r.op = Start THEN u.tree ELSE Mutate(u.tree, r.op),
   seqLast |-> r.seq]

\* The image put under key off: the object is replaced when it exists.
PutImage(s, off, u) ==
  images' = [images EXCEPT ![s] =
               {i \in @ : i.off # off} \cup {[off |-> off, upper |-> u]}]

\* The record of process p becomes v.
Becomes(p, v) == proc' = [proc EXCEPT ![p] = v]

\* A process between the claim and the release of the writer lease.
Serving(p) ==
  \/ proc[p].pc = "open"
  \/ proc[p].pc \in {"append", "sent"} /\ proc[p].op \in Ops

\* A process that serves its session or is on its way to.
Mounting(p) == proc[p].role = "mount"

\* The record the append in progress of p sends.
Pending(p) ==
  [key |-> IF proc[p].role = "branch" THEN proc[p].child ELSE proc[p].sid,
   seq |-> IF proc[p].op = Start THEN 1 ELSE proc[p].seq,
   op  |-> proc[p].op]

\* The reference state of session s once r is the next record of its log.
\* A child starts from the state Branch reconstructed.
Current(s) == truth[s][Len(truth[s])]

IsBirth(r) == r.op = Start /\ lineage[r.key].parent # NoSession

After(r) ==
  IF IsBirth(r) THEN lineage[r.key].birth
  ELSE IF Accepts(Current(r.key), r) THEN Apply(Current(r.key), r)
  ELSE Current(r.key)

\* The broker persists record r; the history variables follow.
Persist(r) ==
  LET q == PartitionFor[r.key] IN
  /\ Len(log[q]) < MaxLog
  /\ log' = [log EXCEPT ![q] = Append(@, r)]
  /\ truth' = [s \in SessionIds |->
                 IF PartitionFor[s] # q THEN truth[s]
                 ELSE Append(truth[s], IF s = r.key THEN After(r)
                                       ELSE Current(s))]
  /\ poisoned' = IF IsBirth(r) \/ Accepts(Current(r.key), r)
                 THEN poisoned ELSE poisoned \cup {r.key}
----------------------------------------------------------------------------
(* Appending one record: Append of kafkalog, seen from the broker *)

Produce(p) ==
  /\ proc[p].pc = "append"
  /\ Persist(Pending(p))
  /\ Becomes(p, [proc[p] EXCEPT
                  !.pc = "sent", !.off = Len(LogOf(Pending(p).key))])
  /\ UNCHANGED <<limbo, oldest, remote>>

\* The response is lost and the producer sends the record again
\* (Producer.Retry.Max; the producer is not idempotent).
Retry(p) ==
  /\ "retry" \in Faults
  /\ proc[p].pc = "sent"
  /\ Becomes(p, [proc[p] EXCEPT !.pc = "append", !.off = 0])
  /\ UNCHANGED <<broker, remote>>

\* A record of a failed produce becomes visible.
Land(r) ==
  /\ r \in limbo
  /\ Persist(r)
  /\ limbo' = limbo \ {r}
  /\ UNCHANGED <<oldest, remote, proc>>

\* Retention drops the oldest record of a partition.
Trim(q) ==
  /\ "trim" \in Faults
  /\ oldest[q] < Len(log[q])
  /\ \E i \in images[log[q][oldest[q] + 1].key] : i.off >= oldest[q]
  /\ oldest' = [oldest EXCEPT ![q] = @ + 1]
  /\ UNCHANGED <<log, limbo, truth, poisoned, remote, proc>>

\* What a produce that never got its answer may leave behind.
Leaves(p) ==
  limbo' \in {limbo} \cup
    (IF "late" \in Faults /\ proc[p].pc = "append"
     THEN {limbo \cup {Pending(p)}} ELSE {})
----------------------------------------------------------------------------
(* NewSession *)

\* Register the session, index it under its lower, send SessionStart.
NewSession(p, s) ==
  /\ proc[p].pc = "idle" /\ "mount" \in May[p]
  /\ s \notin listed
  /\ listed' = listed \cup {s}
  /\ Becomes(p, [Idle EXCEPT
                  !.pc = "append", !.role = "mount", !.sid = s, !.op = Start])
  /\ UNCHANGED <<broker, images, blobs, lineage, lease>>

AckStart(p) ==
  /\ proc[p].pc = "sent" /\ proc[p].op = Start /\ proc[p].role = "mount"
  /\ Becomes(p, [proc[p] EXCEPT
                  !.pc = "loaded", !.op = NoOp, !.seq = 1,
                  !.lastOffset = proc[p].off, !.off = 0,
                  !.upper = Apply(proc[p].upper, Pending(p))])
  /\ UNCHANGED <<broker, remote>>
----------------------------------------------------------------------------
(* OpenSession: newest usable image, then the log after it *)

\* A child is known to be complete when Branch has stored its first image.
Nameable(s) ==
  /\ s \in listed
  /\ \/ "half" \in Faults
     \/ lineage[s].parent = NoSession
     \/ images[s] # {}

\* Mutant of Restore: a branch starts from the newest image of all.
RestoreNewest(p, s, role, to) ==
  \E i \in images[s] :
    /\ \A j \in images[s] : j.off <= i.off
    /\ Becomes(p, [Idle EXCEPT !.pc = "read", !.role = role, !.sid = s,
                     !.to = to, !.upper = i.upper, !.cursor = i.off + 1,
                     !.lastOffset = i.off, !.savedOffset = i.off])

\* Mutant of Restore: the oldest image.
RestoreOldest(p, s, role, to) ==
  LET From(u, n) == [Idle EXCEPT !.pc = "read", !.role = role, !.sid = s,
                       !.to = to, !.upper = u, !.cursor = n,
                       !.lastOffset = n - 1, !.savedOffset = n - 1]
  IN \/ /\ images[s] = {}
        /\ Becomes(p, From(New, 0))
     \/ \E i \in images[s] :
          /\ \A j \in images[s] : j.off >= i.off
          /\ Becomes(p, From(i.upper, i.off + 1))

\* RestoreUpper, with the object set up to replay from one past the image.
Restore(p, s, role, to) ==
  LET usable == {i \in images[s] : to < 0 \/ i.off <= to}
      From(u, n) == [Idle EXCEPT !.pc = "read", !.role = role, !.sid = s,
                       !.to = to, !.upper = u, !.cursor = n,
                       !.lastOffset = n - 1, !.savedOffset = n - 1]
  IN \/ /\ usable = {}
        /\ Becomes(p, From(New, 0))
     \/ \E i \in usable :
          /\ \A j \in usable : j.off <= i.off
          /\ Becomes(p, From(i.upper, i.off + 1))

Open(p, s, role) ==
  /\ proc[p].pc = "idle" /\ role \in May[p]
  /\ Nameable(s)
  /\ \/ role = "tool"
     \/ "overlap" \in Faults
     \/ \A q \in Procs : ~(Mounting(q) /\ proc[q].sid = s)
  /\ Restore(p, s, role, -1)
  /\ UNCHANGED <<broker, remote>>

\* Mutant of ReadEnd: the high-water mark taken for the last offset.
ReadEndShort(p) ==
  /\ proc[p].pc = "read"
  /\ Becomes(p, [proc[p] EXCEPT
                  !.pc = "replay", !.limit = Len(LogOf(proc[p].sid)) - 1])
  /\ UNCHANGED <<broker, remote>>

\* Mutant of ReadEnd: the replay starts at the record the image covers.
ReadEndAgain(p) ==
  /\ proc[p].pc = "read"
  /\ Becomes(p, [proc[p] EXCEPT
                  !.pc = "replay", !.cursor = IF @ > 0 THEN @ - 1 ELSE 0,
                  !.limit = Len(LogOf(proc[p].sid))])
  /\ UNCHANGED <<broker, remote>>

\* ReadSessionTo fixes the range to replay: up to the high-water mark or
\* toOffset, from the oldest record retained when the head is gone.
ReadEnd(p) ==
  LET hw == Len(LogOf(proc[p].sid))
      head == oldest[PartitionFor[proc[p].sid]]
      to == proc[p].to
  IN
  /\ proc[p].pc = "read"
  /\ Becomes(p, [proc[p] EXCEPT
                  !.pc = "replay", !.cursor = IF head > @ THEN head ELSE @,
                  !.limit = IF to >= 0 /\ to < hw - 1 THEN to + 1 ELSE hw])
  /\ UNCHANGED <<broker, remote>>

\* One fetched record: records of other sessions are skipped, a record Apply
\* rejects ends the command with an error.
Replay(p) ==
  LET r == LogOf(proc[p].sid)[proc[p].cursor + 1] IN
  /\ proc[p].pc = "replay"
  /\ proc[p].cursor < proc[p].limit
  /\ \/ /\ r.key # proc[p].sid
        /\ Becomes(p, [proc[p] EXCEPT !.cursor = @ + 1])
     \/ /\ r.key = proc[p].sid
        /\ Accepts(proc[p].upper, r)
        /\ Becomes(p, [proc[p] EXCEPT
                        !.cursor = @ + 1, !.lastOffset = proc[p].cursor,
                        !.upper = Apply(@, r)])
     \/ /\ r.key = proc[p].sid
        /\ ~Accepts(proc[p].upper, r)
        /\ Becomes(p, Idle)
  /\ UNCHANGED <<broker, remote>>

\* Mutant of ReplayDone: the sequence number is not taken from the state.
ReplayDoneFresh(p) ==
  /\ proc[p].pc = "replay"
  /\ proc[p].cursor >= proc[p].limit
  /\ Becomes(p, [proc[p] EXCEPT
                  !.pc = IF proc[p].role = "branch" THEN "replayed"
                         ELSE "loaded",
                  !.cursor = 0, !.limit = 0])
  /\ UNCHANGED <<broker, remote>>

ReplayDone(p) ==
  /\ proc[p].pc = "replay"
  /\ proc[p].cursor >= proc[p].limit
  /\ Becomes(p, [proc[p] EXCEPT
                  !.pc = IF proc[p].role = "branch" THEN "replayed"
                         ELSE "loaded",
                  !.seq = proc[p].upper.seqLast, !.cursor = 0, !.limit = 0])
  /\ UNCHANGED <<broker, remote>>
----------------------------------------------------------------------------
(* Branch *)

Branch(p, s, to) ==
  /\ proc[p].pc = "idle" /\ "branch" \in May[p]
  /\ Nameable(s)
  /\ "future" \in Faults \/ to < Len(LogOf(s))
  /\ Restore(p, s, "branch", to)
  /\ UNCHANGED <<broker, remote>>

\* branchAt: the offset recorded as lineage.
BranchAt(p) ==
  IF proc[p].to >= 0 THEN proc[p].to
  ELSE IF proc[p].lastOffset >= 0 THEN proc[p].lastOffset ELSE 0

\* Register and index the child, record its provenance, send SessionStart.
RegisterChild(p, c) ==
  /\ proc[p].pc = "replayed"
  /\ c \notin listed
  /\ listed' = listed \cup {c}
  /\ lineage' = [lineage EXCEPT ![c] = [parent |-> proc[p].sid,
                                        at |-> BranchAt(p),
                                        birth |-> proc[p].upper]]
  /\ Becomes(p, [proc[p] EXCEPT !.pc = "append", !.child = c, !.op = Start])
  /\ UNCHANGED <<broker, images, blobs, lease>>

AckChild(p) ==
  /\ proc[p].pc = "sent" /\ proc[p].op = Start /\ proc[p].role = "branch"
  /\ Becomes(p, [proc[p] EXCEPT !.pc = "image", !.op = NoOp])
  /\ UNCHANGED <<broker, remote>>

\* The child's first image carries the offset of its own SessionStart.  What
\* follows (OpenSession of the child) only reads.
SaveBirth(p) ==
  /\ proc[p].pc = "image"
  /\ PutImage(proc[p].child, proc[p].off, proc[p].upper)
  /\ Becomes(p, Idle)
  /\ UNCHANGED <<broker, blobs, listed, lineage, lease>>
----------------------------------------------------------------------------
(* Serving: the writer lease *)

\* ClaimLease, made after the session is loaded.  A held lease refuses it.
Claim(p) ==
  /\ proc[p].pc = "loaded" /\ Mounting(p)
  /\ lease[proc[p].sid] = "free"
  /\ lease' = [lease EXCEPT ![proc[p].sid] = p]
  /\ Becomes(p, [proc[p] EXCEPT !.pc = "open"])
  /\ UNCHANGED <<broker, images, blobs, listed, lineage>>

\* A command that is done with a loaded object: `session new`,
\* `kfuse checkpoint`, or a mount the lease refused.
Exit(p) ==
  /\ proc[p].pc = "loaded" /\ proc[p].ckptOff < 0
  /\ Becomes(p, Idle)
  /\ UNCHANGED <<broker, remote>>

\* The TTL runs out: the heartbeat keeps the lease of a live writer.
ExpireLease(s) ==
  /\ lease[s] # "free"
  /\ \/ "expire" \in Faults
     \/ ~(Serving(lease[s]) /\ proc[lease[s]].sid = s)
  /\ lease' = [lease EXCEPT ![s] = "free"]
  /\ UNCHANGED <<broker, images, blobs, listed, lineage, proc>>

\* One heartbeat: take a lapsed lease back, or learn that it is lost.
Renew(p) ==
  LET s == proc[p].sid IN
  /\ Serving(p)
  /\ \/ /\ lease[s] = "free"
        /\ lease' = [lease EXCEPT ![s] = p]
        /\ UNCHANGED proc
     \/ /\ lease[s] \notin {"free", p}
        /\ Becomes(p, [proc[p] EXCEPT !.leaseLost = TRUE])
        /\ UNCHANGED lease
  /\ UNCHANGED <<broker, images, blobs, listed, lineage>>

\* FUSE has stopped, checkpoints are drained, the lease goes last.
Unmount(p) ==
  LET s == proc[p].sid IN
  /\ proc[p].pc = "open" /\ proc[p].ckptOff < 0
  /\ lease' = IF lease[s] = p THEN [lease EXCEPT ![s] = "free"] ELSE lease
  /\ Becomes(p, Idle)
  /\ UNCHANGED <<broker, images, blobs, listed, lineage>>

\* The process dies, or a command that is not yet serving returns an error.
Crash(p) ==
  /\ proc[p].pc # "idle"
  /\ Leaves(p)
  /\ Becomes(p, Idle)
  /\ UNCHANGED <<log, truth, poisoned, oldest, remote>>
----------------------------------------------------------------------------
(* Committing a mutation *)

\* Mutant of Fenced: an unresolved append does not stop the next one.
FencedByLease(p) == proc[p].leaseLost

Fenced(p) == proc[p].leaseLost \/ proc[p].diverged

\* A write uploads its bytes before it commits, outside the commit lock.
PutBlob(p, o) ==
  /\ Serving(p) /\ ~Fenced(p)
  /\ o \in Writes \ blobs
  /\ blobs' = blobs \cup {o}
  /\ UNCHANGED <<broker, images, listed, lineage, lease, proc>>

\* Mutant of Commit: the append does not wait for the blob.
CommitBeforeBlob(p, o) ==
  /\ proc[p].pc = "open" /\ ~Fenced(p)
  /\ Check(proc[p].upper.tree, o)
  /\ Becomes(p, [proc[p] EXCEPT !.pc = "append", !.op = o, !.seq = @ + 1])
  /\ UNCHANGED <<broker, remote>>

\* Mutant of Commit: the mutation shows before it is durable.
CommitShown(p, o) ==
  /\ proc[p].pc = "open" /\ ~Fenced(p)
  /\ o \in Writes => o \in blobs
  /\ Check(proc[p].upper.tree, o)
  /\ Becomes(p, [proc[p] EXCEPT
                  !.pc = "append", !.op = o, !.seq = @ + 1,
                  !.upper.tree = Mutate(@, o)])
  /\ UNCHANGED <<broker, remote>>

\* commitLocked up to the append; the lock is held until the append returns.
Commit(p, o) ==
  /\ proc[p].pc = "open" /\ ~Fenced(p)
  /\ o \in Writes => o \in blobs
  /\ Check(proc[p].upper.tree, o)
  /\ Becomes(p, [proc[p] EXCEPT !.pc = "append", !.op = o, !.seq = @ + 1])
  /\ UNCHANGED <<broker, remote>>

\* Mutant of AckCommit: the offset is not covered.
AckUncovered(p) ==
  /\ proc[p].pc = "sent" /\ proc[p].op \in Ops
  /\ Becomes(p, [proc[p] EXCEPT
                  !.pc = "open", !.op = NoOp, !.off = 0,
                  !.upper = Apply(@, Pending(p))])
  /\ UNCHANGED <<broker, remote>>

\* The append is acknowledged: cover its offset, then apply it.
AckCommit(p) ==
  /\ proc[p].pc = "sent" /\ proc[p].op \in Ops
  /\ Becomes(p, [proc[p] EXCEPT
                  !.pc = "open", !.op = NoOp, !.lastOffset = proc[p].off,
                  !.off = 0,
                  !.upper = IF Accepts(@, Pending(p))
                            THEN Apply(@, Pending(p)) ELSE @])
  /\ UNCHANGED <<broker, remote>>

\* The append fails, landed or not: fence the object.
CommitFails(p) ==
  /\ proc[p].pc \in {"append", "sent"} /\ proc[p].op \in Ops
  /\ Leaves(p)
  /\ Becomes(p, [proc[p] EXCEPT
                  !.pc = "open", !.op = NoOp, !.off = 0, !.diverged = TRUE,
                  !.lastOffset = -1])
  /\ UNCHANGED <<log, truth, poisoned, oldest, remote>>
----------------------------------------------------------------------------
(* Checkpoint: one at a time (ckptMu), any number over a mount's life *)

\* Offset and state are taken together under the commit lock.
Snapshot(p) ==
  /\ \/ proc[p].pc = "open"
     \/ proc[p].pc = "loaded" /\ proc[p].role = "tool"
  /\ proc[p].ckptOff < 0
  /\ ~proc[p].diverged
  /\ proc[p].lastOffset >= 0
  /\ proc[p].lastOffset > proc[p].savedOffset
  /\ Becomes(p, [proc[p] EXCEPT
                  !.ckptOff = proc[p].lastOffset,
                  !.ckptUpper = proc[p].upper])
  /\ UNCHANGED <<broker, remote>>

\* Mutant of SaveImage: the state is serialised after the lock is released.
SaveImageTorn(p) ==
  /\ proc[p].ckptOff >= 0
  /\ PutImage(proc[p].sid, proc[p].ckptOff, proc[p].upper)
  /\ Becomes(p, [proc[p] EXCEPT !.ckptOff = -1, !.ckptUpper = New])
  /\ UNCHANGED <<broker, blobs, listed, lineage, lease>>

\* The upload lands; its response may be lost, and then nothing is recorded.
SaveImage(p) ==
  /\ proc[p].ckptOff >= 0
  /\ PutImage(proc[p].sid, proc[p].ckptOff, proc[p].ckptUpper)
  /\ \/ Becomes(p, [proc[p] EXCEPT
                     !.savedOffset = proc[p].ckptOff, !.ckptOff = -1,
                     !.ckptUpper = New])
     \/ Becomes(p, [proc[p] EXCEPT !.ckptOff = -1, !.ckptUpper = New])
  /\ UNCHANGED <<broker, blobs, listed, lineage, lease>>

SaveFails(p) ==
  /\ proc[p].ckptOff >= 0
  /\ Becomes(p, [proc[p] EXCEPT !.ckptOff = -1, !.ckptUpper = New])
  /\ UNCHANGED <<broker, remote>>
----------------------------------------------------------------------------
Step(p) ==
  \/ \E s \in SessionIds : NewSession(p, s)
  \/ \E s \in SessionIds, role \in {"mount", "tool"} : Open(p, s, role)
  \/ \E s \in SessionIds, to \in -1 .. MaxLog : Branch(p, s, to)
  \/ \E c \in SessionIds : RegisterChild(p, c)
  \/ \E o \in Writes : PutBlob(p, o)
  \/ \E o \in Ops : Commit(p, o)
  \/ Produce(p) \/ Retry(p)
  \/ AckStart(p) \/ AckChild(p) \/ AckCommit(p) \/ CommitFails(p)
  \/ ReadEnd(p) \/ Replay(p) \/ ReplayDone(p) \/ SaveBirth(p)
  \/ Claim(p) \/ Renew(p) \/ Exit(p) \/ Unmount(p) \/ Crash(p)
  \/ Snapshot(p) \/ SaveImage(p) \/ SaveFails(p)

Next ==
  \/ \E p \in Procs : Step(p)
  \/ \E s \in SessionIds : ExpireLease(s)
  \/ \E r \in limbo : Land(r)
  \/ \E q \in Partitions : Trim(q)

Spec == Init /\ [][Next]_vars
----------------------------------------------------------------------------
(* Properties *)

\* An event Apply would reject never becomes durable: the whole log of every
\* session can be replayed (commitLocked, and the comment on upper.Check).
NeverPoisoned == poisoned = {}

\* Resume and branch never meet a record Apply rejects: whatever image they
\* started from, sequence numbers and preconditions fit (reconstruct).
ReplayAccepted ==
  \A p \in Procs :
    LET r == LogOf(proc[p].sid)[proc[p].cursor + 1] IN
    /\ proc[p].pc = "replay"
    /\ proc[p].cursor < proc[p].limit
    /\ r.key = proc[p].sid
    => Accepts(proc[p].upper, r)

\* The tag of a state image matches its content: the image at offset n is the
\* session after the record at n, whoever stored it (Checkpoint, Branch).
ImagesExact ==
  \A s \in SessionIds : \A i \in images[s] :
    /\ i.off < Len(LogOf(s))
    /\ i.upper = truth[s][i.off + 2]

\* An object that may commit or checkpoint.
Live(p) == proc[p].pc \in {"loaded", "open"} /\ ~proc[p].diverged

\* A loaded or serving object holds the state its lastOffset stands for, and
\* its next sequence number follows the ones in that state.
ObjectExact ==
  \A p \in Procs : Live(p) =>
    /\ proc[p].lastOffset < Len(LogOf(proc[p].sid))
    /\ proc[p].upper = truth[proc[p].sid][proc[p].lastOffset + 2]
    /\ proc[p].seq = proc[p].upper.seqLast

\* A mount shows every durable record of its session: nothing acknowledged,
\* and nothing that landed behind a lost acknowledgement, is missing after a
\* crash and a resume (OpenSession, ErrLogDiverged).
WriterCurrent ==
  \A p \in Procs :
    Live(p) /\ Mounting(p) => proc[p].upper = Current(proc[p].sid)

\* Nothing durable points at bytes that never landed (CommitWrite).
BlobsDurable ==
  \A q \in Partitions : \A n \in 1 .. Len(log[q]) :
    log[q][n].op \in Writes => log[q][n].op \in blobs

\* A child starts as its parent at the offset its lineage names, unless the
\* parent had no record and 0 stands for "before the first" (Branch).
LineageExact ==
  \A c \in SessionIds :
    LET l == lineage[c] IN
    l.parent # NoSession /\ l.at < Len(LogOf(l.parent)) =>
      \/ l.birth = truth[l.parent][l.at + 2]
      \/ l.at = 0 /\ l.birth = New

\* Whatever the environment does, an image never claims a record its state has
\* not applied: the newest sequence number in it is that of the record its
\* tag names.  Only a child's first image is tagged with its SessionStart,
\* which Branch does not apply (Checkpoint, commitLocked).
ImageTagged ==
  \A s \in SessionIds : \A i \in images[s] :
    LET r == LogOf(s)[i.off + 1] IN
    /\ i.off < Len(LogOf(s)) /\ r.key = s
    /\ IsBirth(r) \/ i.upper.seqLast = r.seq

\* A stored image is never replaced by other content, so a reader that has
\* listed an image may fetch it at any later time (LatestStateImage).
ImagesKept == [][\A s \in SessionIds : images[s] \subseteq images'[s]]_images
============================================================================
