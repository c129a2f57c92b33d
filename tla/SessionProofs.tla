--------------------------- MODULE SessionProofs ---------------------------
(***************************************************************************)
(* Machine-checked proofs about Session, for any number of sessions,       *)
(* processes, partitions and records, and any overlay semantics.           *)
(***************************************************************************)
EXTENDS SessionInv, TLAPS

----------------------------------------------------------------------------
(* The invariant that holds in every environment *)

\* A state of the overlay stays one when Apply accepts a record.
LEMMA ApplyType ==
  ASSUME NEW u \in Upper, NEW r \in Record, Accepts(u, r)
  PROVE  Apply(u, r) \in Upper
  BY Zenon, TreesClosed, ConstantsAssumption DEF Upper, Record, Accepts, Apply

\* The last element of truth[s] is a state.
LEMMA CurrentType ==
  ASSUME TypeOK, NEW s \in SessionIds
  PROVE  Current(s) \in Upper
  BY DEF TypeOK, Current

\* The record a process sends is one.
LEMMA PendingType ==
  ASSUME Sane, NEW p \in Procs, proc[p].pc \in {"append", "sent"}
  PROVE  Pending(p) \in Record
  BY Zenon, ConstantsAssumption DEF Sane, TypeOK, Proc, Shape, Bearing, Pending, Record

\* Persisting a record keeps the types of the log and its history.
LEMMA PersistType ==
  ASSUME TypeOK, NEW r \in Record, Persist(r)
  PROVE  /\ log' \in [Partitions -> Seq(Record)]
         /\ truth' \in [SessionIds -> {t \in Seq(Upper) : t # <<>>}]
         /\ poisoned' \in SUBSET SessionIds
         /\ \A q \in Partitions : Len(log[q]) <= Len(log'[q])
<1>1. r.key \in SessionIds /\ PartitionFor[r.key] \in Partitions
  BY Zenon, ConstantsAssumption DEF Record
<1>2. After(r) \in Upper
  <2>1. Current(r.key) \in Upper
    BY Zenon, <1>1, CurrentType
  <2>2. lineage[r.key].birth \in Upper
    BY Zenon, <1>1 DEF TypeOK, Lineage
  <2> QED BY Zenon, <2>1, <2>2, ApplyType DEF After
<1>3. log' \in [Partitions -> Seq(Record)]
  BY <1>1 DEF TypeOK, Persist
<1>4. truth' \in [SessionIds -> {t \in Seq(Upper) : t # <<>>}]
  <2> SUFFICES ASSUME NEW s \in SessionIds
               PROVE  truth'[s] \in {t \in Seq(Upper) : t # <<>>}
    BY Zenon DEF Persist
  <2>1. truth[s] \in Seq(Upper) /\ truth[s] # <<>>
    BY Zenon DEF TypeOK
  <2>2. Current(s) \in Upper
    BY Zenon, CurrentType
  <2>3. ASSUME NEW u \in Upper
        PROVE  Append(truth[s], u) \in Seq(Upper) /\ Append(truth[s], u) # <<>>
    BY <2>1
  <2> QED BY Zenon, <1>2, <2>1, <2>2, <2>3 DEF Persist
<1>5. poisoned' \in SUBSET SessionIds
  BY Zenon, <1>1 DEF TypeOK, Persist
<1>6. \A q \in Partitions : Len(log[q]) <= Len(log'[q])
  BY <1>1 DEF TypeOK, Persist
<1> QED BY Zenon, <1>3, <1>4, <1>5, <1>6

\* A step in which process p alone moves, to record w, and the broker and the
\* remote stores stay.
LEMMA SaneLocal ==
  ASSUME Sane, NEW p \in Procs, UNCHANGED <<broker, remote>>,
         NEW w \in Proc, Shape(w), Becomes(p, w)
  PROVE  Sane'
<1>1. TypeOK'
  BY Zenon DEF Sane, TypeOK, Becomes, broker, remote
<1>2. \A q \in Procs : Shape(proc[q])'
  BY DEF Sane, TypeOK, Shape, Becomes, broker, remote, LogOf
<1> QED BY Zenon, <1>1, <1>2 DEF Sane, BlobsDurable, broker, remote

\* The values every process starts from.
LEMMA IdleType ==
  /\ New \in Upper
  /\ Idle \in Proc
  /\ NoLineage \in Lineage
  /\ Shape(Idle)
  BY ConstantsAssumption
     DEF New, Upper, Idle, Proc, NoLineage, Lineage, MaybeSession, Shape, Bearing

\* The initial state: no process is busy and nothing is stored.
LEMMA SaneInit == Init => Sane
<1> SUFFICES ASSUME Init PROVE Sane
  BY Zenon
<1>1. TypeOK
  BY IdleType, ConstantsAssumption DEF Init, TypeOK
<1>2. \A p \in Procs : Shape(proc[p])
  BY Zenon, IdleType DEF Init
<1> QED BY <1>1, <1>2 DEF Sane, Init, BlobsDurable

\* The steps in which p only changes its own record.
LEMMA SaneMoves ==
  ASSUME Sane, NEW p \in Procs,
         \/ Retry(p) \/ AckStart(p) \/ AckChild(p) \/ ReadEnd(p)
         \/ Replay(p) \/ ReplayDone(p) \/ Exit(p) \/ AckCommit(p)
         \/ Snapshot(p) \/ SaveFails(p)
         \/ \E o \in Ops : Commit(p, o)
  PROVE  Sane'
<1> DEFINE v == proc[p]
<1>0. v \in Proc /\ Shape(v) /\ New \in Upper /\ Idle \in Proc /\ Shape(Idle)
  BY Zenon, IdleType DEF Sane, TypeOK
<1>n. /\ 0 \in Nat /\ 1 \in Nat /\ -1 \in Int /\ v.seq + 1 \in Nat
      /\ v.off \in Int /\ v.cursor \in Int /\ v.cursor + 1 \in Nat
  BY <1>0 DEF Proc
<1> HIDE DEF v
<1> USE DEF Proc
<1>1. CASE Retry(p)
  <2> DEFINE w == [v EXCEPT !.pc = "append", !.off = 0]
  <2>1. w \in Proc
    BY Zenon, <1>0, <1>1 DEF Retry, v
  <2>2. Shape(w)
    BY <1>0, <1>1 DEF Retry, v, Shape, Bearing
  <2> QED BY Zenon, <1>1, <2>1, <2>2, SaneLocal DEF Retry, v
<1>2. CASE AckStart(p)
  <2> DEFINE w == [v EXCEPT !.pc = "loaded", !.op = NoOp, !.seq = 1,
                            !.lastOffset = v.off, !.off = 0,
                            !.upper = Apply(v.upper, Pending(p))]
  <2>0. Apply(v.upper, Pending(p)) \in Upper
    BY Zenon, <1>0, <1>2 DEF AckStart, v, Apply, Pending, Upper
  <2>1. w \in Proc
    BY ZenonT(30), <1>0, <1>n, <2>0
  <2>2. Shape(w)
    BY ZenonT(30), <1>0, <1>2 DEF AckStart, v, Shape, Bearing
  <2> QED BY Zenon, <1>2, <2>1, <2>2, SaneLocal DEF AckStart, v
<1>3. CASE AckChild(p)
  <2> DEFINE w == [v EXCEPT !.pc = "image", !.op = NoOp]
  <2>1. w \in Proc
    BY Zenon, <1>0, <1>n DEF v
  <2>2. Shape(w)
    BY SMTT(30), <1>0, <1>3 DEF AckChild, v, Shape, Bearing
  <2> QED BY Zenon, <1>3, <2>1, <2>2, SaneLocal DEF AckChild, v
<1>4. CASE ReadEnd(p)
  <2> DEFINE hw == Len(LogOf(v.sid))
             head == oldest[PartitionFor[v.sid]]
             w == [v EXCEPT !.pc = "replay", !.cursor = IF head > @ THEN head ELSE @,
                            !.limit = IF v.to >= 0 /\ v.to < hw - 1
                                      THEN v.to + 1 ELSE hw]
  <2>0. hw \in Nat /\ head \in Nat
    BY <1>0, <1>4, ConstantsAssumption DEF ReadEnd, v, Shape, Sane, TypeOK, LogOf
  <2>1. Becomes(p, w) /\ UNCHANGED <<broker, remote>> /\ v.pc = "read"
    BY Zenon, <1>4 DEF ReadEnd, v
  <2> HIDE DEF head
  <2>2. w \in Proc
    <3> DEFINE c == IF head > v.cursor THEN head ELSE v.cursor
               l == IF v.to >= 0 /\ v.to < hw - 1 THEN v.to + 1 ELSE hw
    <3>0. v.cursor \in Nat /\ v.to \in Int
      BY Zenon, <1>0
    <3> HIDE DEF hw
    <3>1. c \in Nat /\ l \in Nat
      BY <2>0, <3>0
    <3> HIDE DEF c, l
    <3>2. [v EXCEPT !.pc = "replay", !.cursor = c, !.limit = l] \in Proc
      BY Zenon, <1>0, <3>1
    <3> QED BY Zenon, <3>2 DEF c, l, hw
  <2>3. Shape(w)
    <3>1. /\ w.pc = "replay" /\ w.role = v.role /\ w.sid = v.sid /\ w.to = v.to
          /\ w.op = v.op /\ w.diverged = v.diverged /\ w.ckptOff = v.ckptOff
      BY Zenon, <1>0
    <3> DEFINE l == IF v.to >= 0 /\ v.to < hw - 1 THEN v.to + 1 ELSE hw
    <3>2. w.limit <= hw
      <4>1. w.limit = l
        BY Zenon, <1>0
      <4>2. v.to \in Int
        BY Zenon, <1>0
      <4>3. l <= hw
        BY <2>0, <4>2
      <4> QED BY Zenon, <4>1, <4>3
    <3> HIDE DEF w
    <3> QED BY Zenon, <1>0, <2>1, <3>1, <3>2 DEF Shape, Bearing
  <2> HIDE DEF w
  <2> QED BY Zenon, <2>1, <2>2, <2>3, SaneLocal
<1>5. CASE Replay(p)
  <2> DEFINE r == LogOf(v.sid)[v.cursor + 1]
  <2>0. v.pc = "replay" /\ UNCHANGED <<broker, remote>>
    BY Zenon, <1>5 DEF Replay, v
  <2>1. r \in Record
    <3>1. v.sid \in SessionIds /\ v.limit <= Len(LogOf(v.sid))
      BY Zenon, <1>0, <2>0 DEF Shape
    <3>2. LogOf(v.sid) \in Seq(Record)
      BY Zenon, <3>1, ConstantsAssumption DEF Sane, TypeOK, LogOf
    <3>3. v.cursor < v.limit /\ v.cursor \in Nat /\ v.limit \in Nat
      BY Zenon, <1>0, <1>5 DEF Replay, v
    <3> QED BY <3>1, <3>2, <3>3
  <2>2. Accepts(v.upper, r) => Apply(v.upper, r) \in Upper
    BY Zenon, <1>0, <2>1, ApplyType
  <2>3. CASE Becomes(p, [v EXCEPT !.cursor = @ + 1])
    <3> DEFINE w == [v EXCEPT !.cursor = @ + 1]
    <3>1. w \in Proc
      BY Zenon, <1>0, <1>n
    <3>2. Shape(w)
      BY Zenon, <1>0, <2>0 DEF Shape, Bearing
    <3> QED BY Zenon, <2>0, <2>3, <3>1, <3>2, SaneLocal
  <2>4. CASE /\ Accepts(v.upper, r)
             /\ Becomes(p, [v EXCEPT !.cursor = @ + 1, !.lastOffset = v.cursor,
                                     !.upper = Apply(@, r)])
    <3> DEFINE w == [v EXCEPT !.cursor = @ + 1, !.lastOffset = v.cursor,
                              !.upper = Apply(@, r)]
    <3>1. w \in Proc
      BY Zenon, <1>0, <1>n, <2>2, <2>4
    <3>2. Shape(w)
      BY ZenonT(30), <1>0, <2>0 DEF Shape, Bearing
    <3> QED BY Zenon, <2>0, <2>4, <3>1, <3>2, SaneLocal
  <2>5. CASE Becomes(p, Idle)
    BY Zenon, <1>0, <2>0, <2>5, SaneLocal
  <2> QED BY Zenon, <1>5, <2>3, <2>4, <2>5 DEF Replay, v
<1>6. CASE ReplayDone(p)
  <2> DEFINE w == [v EXCEPT !.pc = IF v.role = "branch" THEN "replayed"
                                   ELSE "loaded",
                            !.seq = v.upper.seqLast, !.cursor = 0, !.limit = 0]
  <2>1. w \in Proc
    <3>1. v.upper.seqLast \in Nat
      BY Zenon, <1>0 DEF Upper
    <3> QED BY Zenon, <1>0, <1>n, <3>1
  <2>2. Shape(w)
    BY <1>0, <1>6 DEF ReplayDone, v, Shape, Bearing
  <2> QED BY ZenonT(30), <1>6, <2>1, <2>2, SaneLocal DEF ReplayDone, v
<1>7. CASE Exit(p)
  BY Zenon, <1>0, <1>7, SaneLocal DEF Exit
<1>8. CASE AckCommit(p)
  <2> DEFINE w == [v EXCEPT !.pc = "open", !.op = NoOp, !.lastOffset = v.off,
                            !.off = 0,
                            !.upper = IF Accepts(@, Pending(p))
                                      THEN Apply(@, Pending(p)) ELSE @]
  <2>0. Accepts(v.upper, Pending(p)) => Apply(v.upper, Pending(p)) \in Upper
    BY Zenon, <1>0, <1>8, PendingType, ApplyType DEF AckCommit, v
  <2>1. w \in Proc
    BY ZenonT(30), <1>0, <1>n, <2>0
  <2>2. Shape(w)
    BY <1>0, <1>8, ConstantsAssumption DEF AckCommit, v, Shape, Bearing
  <2> QED BY Zenon, <1>8, <2>1, <2>2, SaneLocal DEF AckCommit, v
<1>9. CASE Snapshot(p)
  <2> DEFINE w == [v EXCEPT !.ckptOff = v.lastOffset, !.ckptUpper = v.upper]
  <2>1. w \in Proc
    BY Zenon, <1>0, <1>n DEF v
  <2>2. Shape(w)
    BY ZenonT(30), <1>0, <1>9 DEF Snapshot, v, Shape, Bearing
  <2> QED BY Zenon, <1>9, <2>1, <2>2, SaneLocal DEF Snapshot, v
<1>10. CASE SaveFails(p)
  <2> DEFINE w == [v EXCEPT !.ckptOff = -1, !.ckptUpper = New]
  <2>0. v.pc # "idle"
    BY Zenon, <1>0, <1>10 DEF SaveFails, v, Shape, Idle
  <2>1. w \in Proc
    BY Zenon, <1>0, <1>n
  <2>2. Shape(w)
    BY <1>0, <2>0 DEF Shape, Bearing
  <2> QED BY Zenon, <1>10, <2>1, <2>2, SaneLocal DEF SaveFails, v
<1>11. ASSUME NEW o \in Ops, Commit(p, o) PROVE Sane'
  <2> DEFINE w == [v EXCEPT !.pc = "append", !.op = o, !.seq = @ + 1]
  <2>1. w \in Proc
    BY Zenon, <1>0, <1>n
  <2>2. Shape(w)
    BY ZenonT(30), <1>0, <1>11 DEF Commit, Fenced, v, Shape, Bearing
  <2> QED BY Zenon, <1>11, <2>1, <2>2, SaneLocal DEF Commit, v
<1> QED BY Zenon, <1>1, <1>2, <1>3, <1>4, <1>5, <1>6, <1>7, <1>8, <1>9, <1>10, <1>11

\* A shape survives steps that only add blobs and records.
LEMMA ShapeGrows ==
  ASSUME TypeOK, NEW v \in Proc, Shape(v),
         blobs \subseteq blobs',
         \A q \in Partitions : Len(log[q]) <= Len(log'[q]),
         log' \in [Partitions -> Seq(Record)]
  PROVE  Shape(v)'
<1>1. v.pc = "replay" => v.limit <= Len(LogOf(v.sid))'
  <2> SUFFICES ASSUME v.pc = "replay" PROVE v.limit <= Len(LogOf(v.sid))'
    BY Zenon
  <2>1. v.sid \in SessionIds /\ PartitionFor[v.sid] \in Partitions
    BY Zenon, ConstantsAssumption DEF Shape
  <2>2. v.limit <= Len(LogOf(v.sid)) /\ v.limit \in Nat
    BY Zenon DEF Shape, Proc
  <2> QED BY <2>1, <2>2 DEF LogOf, TypeOK
<1> QED BY Zenon, <1>1 DEF Shape

\* A step that adds no record to the log and takes no blob away.
LEMMA SaneQuiet ==
  ASSUME Sane, log' = log, truth' = truth, poisoned' = poisoned,
         oldest' \in [Partitions -> Nat],
         limbo' \subseteq limbo \cup {r \in Record : r.op \in Writes => r.op \in blobs},
         images' \in [SessionIds -> SUBSET Image],
         blobs \subseteq blobs', blobs' \in SUBSET Writes,
         listed' \in SUBSET SessionIds,
         lineage' \in [SessionIds -> Lineage],
         lease' \in [SessionIds -> Procs \cup {"free"}],
         proc' \in [Procs -> Proc], \A q \in Procs : Shape(proc'[q])
  PROVE  Sane'
<1>1. TypeOK'
  BY Zenon DEF Sane, TypeOK
<1>2. \A q \in Procs : Shape(proc[q])'
  <2> SUFFICES ASSUME NEW q \in Procs PROVE Shape(proc[q])'
    BY Zenon
  <2>1. PICK v \in Proc : v = proc'[q]
    BY Zenon
  <2>2. Shape(v)
    BY Zenon, <2>1
  <2>3. \A z \in Partitions : Len(log[z]) <= Len(log'[z])
    BY DEF Sane, TypeOK
  <2>4. log' \in [Partitions -> Seq(Record)] /\ TypeOK
    BY Zenon DEF Sane, TypeOK
  <2>5. Shape(v)'
    BY Zenon, <2>2, <2>3, <2>4, ShapeGrows
  <2> QED BY Zenon, <2>1, <2>5 DEF Shape
<1>3. \A r \in limbo' : r.op \in Writes => r.op \in blobs'
  BY Zenon DEF Sane
<1>4. BlobsDurable'
  BY Zenon DEF Sane, BlobsDurable
<1> QED BY Zenon, <1>1, <1>2, <1>3, <1>4 DEF Sane

\* All shapes are right when p moves to a record of the right shape.
LEMMA BecomesShape ==
  ASSUME Sane, NEW p \in Procs, NEW w \in Proc, Shape(w), Becomes(p, w)
  PROVE  proc' \in [Procs -> Proc] /\ \A q \in Procs : Shape(proc'[q])
  BY Zenon DEF Sane, TypeOK, Becomes

\* Storing an image keeps the type of the image store.
LEMMA PutImageType ==
  ASSUME TypeOK, NEW s \in SessionIds, NEW off \in Nat, NEW u \in Upper,
         PutImage(s, off, u)
  PROVE  images' \in [SessionIds -> SUBSET Image]
  BY DEF TypeOK, PutImage, Image

\* The steps that touch one remote store, or none.
LEMMA SaneRemote ==
  ASSUME Sane, NEW p \in Procs,
         \/ \E s \in SessionIds : NewSession(p, s)
         \/ \E c \in SessionIds : RegisterChild(p, c)
         \/ SaveBirth(p) \/ SaveImage(p)
         \/ Claim(p) \/ Renew(p) \/ Unmount(p)
         \/ \E s \in SessionIds : ExpireLease(s)
         \/ \E o \in Writes : PutBlob(p, o)
         \/ Crash(p) \/ CommitFails(p)
         \/ \E q \in Partitions : Trim(q)
  PROVE  Sane'
<1> DEFINE v == proc[p]
<1>0. v \in Proc /\ Shape(v) /\ New \in Upper /\ Idle \in Proc /\ Shape(Idle) /\ TypeOK
  BY Zenon, IdleType DEF Sane, TypeOK
<1>n. 0 \in Nat /\ 1 \in Nat /\ -1 \in Int
  OBVIOUS
<1>o. \A q \in Procs : proc[q] \in Proc /\ Shape(proc[q])
  BY Zenon DEF Sane, TypeOK
<1> HIDE DEF v
<1>1. ASSUME NEW s \in SessionIds, NewSession(p, s) PROVE Sane'
  <2> DEFINE w == [Idle EXCEPT !.pc = "append", !.role = "mount", !.sid = s,
                               !.op = Start]
  <2>1. w \in Proc
    BY ZenonT(30), <1>0 DEF Proc, MaybeSession
  <2>2. Shape(w)
    BY <1>0, ConstantsAssumption DEF Idle, Shape, Bearing
  <2>3. Becomes(p, w)
    BY Zenon, <1>1 DEF NewSession
  <2>4. proc' \in [Procs -> Proc] /\ \A q \in Procs : Shape(proc'[q])
    BY Zenon, <2>1, <2>2, <2>3, BecomesShape
  <2> QED BY Zenon, <1>0, <1>1, <2>4, SaneQuiet DEF NewSession, TypeOK, broker
<1>2. ASSUME NEW c \in SessionIds, RegisterChild(p, c) PROVE Sane'
  <2> DEFINE w == [v EXCEPT !.pc = "append", !.child = c, !.op = Start]
  <2>1. w \in Proc
    BY Zenon, <1>0 DEF Proc, MaybeSession
  <2>2. Shape(w)
    BY ZenonT(30), <1>0, <1>2, ConstantsAssumption DEF RegisterChild, v, Proc, Shape, Bearing
  <2>3. Becomes(p, w)
    BY Zenon, <1>2 DEF RegisterChild, v
  <2>4. proc' \in [Procs -> Proc] /\ \A q \in Procs : Shape(proc'[q])
    BY Zenon, <2>1, <2>2, <2>3, BecomesShape
  <2>5. BranchAt(p) \in Int /\ v.sid \in MaybeSession /\ v.upper \in Upper
    BY <1>0 DEF BranchAt, v, Proc
  <2>6. lineage' \in [SessionIds -> Lineage]
    BY Zenon, <1>0, <1>2, <2>5 DEF RegisterChild, v, TypeOK, Lineage
  <2> QED BY Zenon, <1>0, <1>2, <2>4, <2>6, SaneQuiet DEF RegisterChild, TypeOK, broker
<1>3. CASE SaveBirth(p)
  <2>1. v.child \in SessionIds /\ v.off \in Nat /\ v.upper \in Upper
    BY ZenonT(30), <1>0, <1>3 DEF SaveBirth, v, Shape, Bearing, Proc
  <2>2. images' \in [SessionIds -> SUBSET Image]
    BY ZenonT(30), <1>0, <1>3, <2>1, PutImageType DEF SaveBirth, v
  <2>3. proc' \in [Procs -> Proc] /\ \A q \in Procs : Shape(proc'[q])
    BY Zenon, <1>0, <1>3, BecomesShape DEF SaveBirth
  <2> QED BY Zenon, <1>0, <1>3, <2>2, <2>3, SaneQuiet DEF SaveBirth, TypeOK, broker
<1>4. CASE SaveImage(p)
  <2> DEFINE w == [v EXCEPT !.savedOffset = v.ckptOff, !.ckptOff = -1,
                            !.ckptUpper = New]
             x == [v EXCEPT !.ckptOff = -1, !.ckptUpper = New]
  <2>1. v.pc # "idle" /\ v.sid \in SessionIds
    BY Zenon, <1>0, <1>4 DEF SaveImage, v, Shape, Idle
  <2>2. v.ckptOff \in Nat /\ v.ckptUpper \in Upper
    BY <1>0, <1>4 DEF SaveImage, v, Proc
  <2>3. images' \in [SessionIds -> SUBSET Image]
    BY Zenon, <1>0, <1>4, <2>1, <2>2, PutImageType DEF SaveImage, v
  <2>4. w \in Proc /\ x \in Proc
    BY Zenon, <1>0, <1>n DEF Proc
  <2>5. Shape(w) /\ Shape(x)
    BY <1>0, <2>1 DEF Proc, Shape, Bearing
  <2>6. Becomes(p, w) \/ Becomes(p, x)
    BY Zenon, <1>4 DEF SaveImage, v
  <2>7. proc' \in [Procs -> Proc] /\ \A q \in Procs : Shape(proc'[q])
    BY Zenon, <2>4, <2>5, <2>6, BecomesShape
  <2> QED BY Zenon, <1>0, <1>4, <2>3, <2>7, SaneQuiet DEF SaveImage, TypeOK, broker
<1>5. CASE Claim(p)
  <2> DEFINE w == [v EXCEPT !.pc = "open"]
  <2>1. w \in Proc
    BY Zenon, <1>0 DEF Proc
  <2>2. Shape(w)
    BY Zenon, <1>0, <1>5 DEF Claim, Mounting, v, Proc, Shape, Bearing
  <2>3. proc' \in [Procs -> Proc] /\ \A q \in Procs : Shape(proc'[q])
    BY Zenon, <1>5, <2>1, <2>2, BecomesShape DEF Claim, v
  <2>4. lease' \in [SessionIds -> Procs \cup {"free"}]
    BY Zenon, <1>0, <1>5 DEF Claim, TypeOK
  <2> QED BY Zenon, <1>0, <1>5, <2>3, <2>4, SaneQuiet DEF Claim, TypeOK, broker
<1>6. CASE Renew(p)
  <2> DEFINE w == [v EXCEPT !.leaseLost = TRUE]
  <2>1. w \in Proc
    BY Zenon, <1>0 DEF Proc
  <2>2. Shape(w)
    BY <1>0, <1>6 DEF Renew, Serving, v, Proc, Shape, Bearing
  <2>3. proc' \in [Procs -> Proc] /\ \A q \in Procs : Shape(proc'[q])
    <3>1. CASE proc' = proc
      BY Zenon, <1>0, <1>o, <3>1 DEF TypeOK
    <3>2. CASE Becomes(p, w)
      BY Zenon, <2>1, <2>2, <3>2, BecomesShape
    <3> QED BY Zenon, <1>6, <3>1, <3>2 DEF Renew, v
  <2>4. lease' \in [SessionIds -> Procs \cup {"free"}]
    BY ZenonT(30), <1>0, <1>6 DEF Renew, TypeOK
  <2> QED BY Zenon, <1>0, <1>6, <2>3, <2>4, SaneQuiet DEF Renew, TypeOK, broker
<1>7. CASE Unmount(p)
  <2>1. proc' \in [Procs -> Proc] /\ \A q \in Procs : Shape(proc'[q])
    BY Zenon, <1>0, <1>7, BecomesShape DEF Unmount
  <2>2. lease' \in [SessionIds -> Procs \cup {"free"}]
    BY Zenon, <1>0, <1>7 DEF Unmount, TypeOK
  <2> QED BY Zenon, <1>0, <1>7, <2>1, <2>2, SaneQuiet DEF Unmount, TypeOK, broker
<1>8. ASSUME NEW s \in SessionIds, ExpireLease(s) PROVE Sane'
  <2>1. lease' \in [SessionIds -> Procs \cup {"free"}]
    BY Zenon, <1>0, <1>8 DEF ExpireLease, TypeOK
  <2> QED BY Zenon, <1>0, <1>o, <1>8, <2>1, SaneQuiet DEF ExpireLease, TypeOK, broker
<1>9. ASSUME NEW o \in Writes, PutBlob(p, o) PROVE Sane'
  BY Zenon, <1>0, <1>o, <1>9, SaneQuiet DEF PutBlob, TypeOK, broker
<1>10. ASSUME Leaves(p) PROVE limbo' \subseteq limbo \cup {r \in Record : r.op \in Writes => r.op \in blobs}
  <2>1. CASE limbo' = limbo
    BY Zenon, <2>1
  <2>2. CASE v.pc = "append" /\ limbo' = limbo \cup {Pending(p)}
    <3>1. Pending(p) \in Record
      BY Zenon, <2>2, PendingType DEF v
    <3>2. Pending(p).op \in Writes => Pending(p).op \in blobs
      BY ZenonT(30), <1>0, <2>2 DEF Pending, v, Shape
    <3> QED BY Zenon, <2>2, <3>1, <3>2
  <2> QED BY Zenon, <1>10, <2>1, <2>2 DEF Leaves, v
<1>11. CASE Crash(p)
  <2>1. proc' \in [Procs -> Proc] /\ \A q \in Procs : Shape(proc'[q])
    BY Zenon, <1>0, <1>11, BecomesShape DEF Crash
  <2> QED BY Zenon, <1>0, <1>10, <1>11, <2>1, SaneQuiet DEF Crash, TypeOK, remote
<1>12. CASE CommitFails(p)
  <2> DEFINE w == [v EXCEPT !.pc = "open", !.op = NoOp, !.off = 0,
                            !.diverged = TRUE, !.lastOffset = -1]
  <2>1. w \in Proc
    BY Zenon, <1>0, <1>n DEF Proc
  <2>2. Shape(w)
    BY ZenonT(30), <1>0, <1>12, ConstantsAssumption DEF CommitFails, v, Proc, Shape, Bearing
  <2>3. proc' \in [Procs -> Proc] /\ \A q \in Procs : Shape(proc'[q])
    BY Zenon, <1>12, <2>1, <2>2, BecomesShape DEF CommitFails, v
  <2> QED BY Zenon, <1>0, <1>10, <1>12, <2>3, SaneQuiet DEF CommitFails, TypeOK, remote
<1>13. ASSUME NEW q \in Partitions, Trim(q) PROVE Sane'
  <2>1. oldest' \in [Partitions -> Nat]
    BY <1>0, <1>13 DEF Trim, TypeOK
  <2> QED BY Zenon, <1>0, <1>o, <1>13, <2>1, SaneQuiet DEF Trim, TypeOK, remote
<1> QED BY Zenon, <1>1, <1>2, <1>3, <1>4, <1>5, <1>6, <1>7, <1>8, <1>9, <1>11, <1>12, <1>13

\* RestoreUpper leads to a record of the right shape.
LEMMA SaneRestore ==
  ASSUME Sane, NEW p \in Procs, NEW s \in SessionIds,
         NEW role \in {"mount", "tool", "branch"}, NEW to \in Int,
         role # "branch" => to = -1,
         Restore(p, s, role, to), UNCHANGED <<broker, remote>>
  PROVE  Sane'
<1> DEFINE From(u, n) == [Idle EXCEPT !.pc = "read", !.role = role, !.sid = s,
                            !.to = to, !.upper = u, !.cursor = n,
                            !.lastOffset = n - 1, !.savedOffset = n - 1]
<1>1. ASSUME NEW u \in Upper, NEW n \in Nat
      PROVE  From(u, n) \in Proc /\ Shape(From(u, n))
  <2>1. n - 1 \in Int /\ s \in MaybeSession
    BY DEF MaybeSession
  <2>2. From(u, n) \in Proc
    BY ZenonT(30), <2>1, IdleType DEF Proc
  <2>3. Shape(From(u, n))
    BY ConstantsAssumption DEF Idle, Shape, Bearing
  <2> QED BY Zenon, <2>2, <2>3
<1>2. CASE Becomes(p, From(New, 0))
  BY Zenon, <1>1, <1>2, IdleType, SaneLocal
<1>3. ASSUME NEW i \in images[s], Becomes(p, From(i.upper, i.off + 1)) PROVE Sane'
  <2>1. i.upper \in Upper /\ i.off + 1 \in Nat
    BY DEF Sane, TypeOK, Image
  <2> QED BY Zenon, <1>1, <1>3, <2>1, SaneLocal
<1> QED BY Zenon, <1>2, <1>3 DEF Restore

\* Persisting a record whose blob is there.
LEMMA SanePersist ==
  ASSUME Sane, NEW r \in Record, Persist(r), r.op \in Writes => r.op \in blobs,
         UNCHANGED <<oldest, remote>>, limbo' \subseteq limbo,
         proc' \in [Procs -> Proc], \A q \in Procs : Shape(proc'[q])
  PROVE  Sane'
<1>1. TypeOK
  BY Zenon DEF Sane
<1>2. /\ log' \in [Partitions -> Seq(Record)]
      /\ truth' \in [SessionIds -> {t \in Seq(Upper) : t # <<>>}]
      /\ poisoned' \in SUBSET SessionIds
      /\ \A q \in Partitions : Len(log[q]) <= Len(log'[q])
  BY Zenon, <1>1, PersistType
<1>3. TypeOK'
  BY Zenon, <1>1, <1>2 DEF TypeOK, remote
<1>4. \A q \in Procs : Shape(proc[q])'
  <2> SUFFICES ASSUME NEW q \in Procs PROVE Shape(proc[q])'
    BY Zenon
  <2>1. PICK v \in Proc : v = proc'[q]
    BY Zenon
  <2>2. Shape(v)'
    BY Zenon, <1>1, <1>2, <2>1, ShapeGrows DEF remote
  <2> QED BY <2>1, <2>2 DEF Shape
<1>5. BlobsDurable'
  <2> SUFFICES ASSUME NEW q \in Partitions, NEW n \in 1 .. Len(log'[q]),
                      log'[q][n].op \in Writes
               PROVE  log'[q][n].op \in blobs
    BY Zenon DEF BlobsDurable, remote
  <2>1. log[q] \in Seq(Record)
    BY Zenon, <1>1 DEF TypeOK
  <2>2. CASE log'[q] = log[q]
    BY Zenon, <2>2 DEF Sane, BlobsDurable
  <2>3. CASE log'[q] = Append(log[q], r)
    <3>1. n = Len(log[q]) + 1 \/ n \in 1 .. Len(log[q])
      BY <2>1, <2>3
    <3>2. CASE n = Len(log[q]) + 1
      BY <2>1, <2>3, <3>2
    <3>3. CASE n \in 1 .. Len(log[q])
      BY <2>1, <2>3, <3>3 DEF Sane, BlobsDurable
    <3> QED BY Zenon, <3>1, <3>2, <3>3
  <2> QED BY Zenon, <1>1, <2>2, <2>3 DEF Persist, TypeOK
<1> QED BY Zenon, <1>3, <1>4, <1>5 DEF Sane, remote

\* The steps that put a record into the log, of a process and of a late produce.
LEMMA SaneAppends ==
  ASSUME Sane, \/ \E p \in Procs : Produce(p)
               \/ \E r \in limbo : Land(r)
  PROVE  Sane'
<1>1. ASSUME NEW p \in Procs, Produce(p) PROVE Sane'
  <2> DEFINE v == proc[p]
             n == Len(LogOf(Pending(p).key))
             w == [v EXCEPT !.pc = "sent", !.off = n]
  <2>1. v \in Proc /\ Shape(v) /\ v.pc = "append"
    BY ZenonT(30), <1>1 DEF Sane, TypeOK, Produce
  <2>2. Pending(p) \in Record
    BY ZenonT(30), <1>1, PendingType DEF Produce
  <2>3. Pending(p).op \in Writes => Pending(p).op \in blobs
    BY Zenon, <2>1 DEF Pending, Shape
  <2>4. n \in Nat
    BY <2>2, ConstantsAssumption DEF Record, LogOf, Sane, TypeOK
  <2> HIDE DEF v, n
  <2>5. w \in Proc
    BY Zenon, <2>1, <2>4 DEF Proc
  <2>6. Shape(w)
    BY Zenon, <2>1 DEF Proc, Shape, Bearing
  <2>7. Becomes(p, w)
    BY Zenon, <1>1 DEF Produce, v, n
  <2>8. proc' \in [Procs -> Proc] /\ \A q \in Procs : Shape(proc'[q])
    BY Zenon, <2>5, <2>6, <2>7, BecomesShape
  <2> QED BY ZenonT(30), <1>1, <2>2, <2>3, <2>8, SanePersist DEF Produce
<1>2. ASSUME NEW r \in limbo, Land(r) PROVE Sane'
  <2>1. r \in Record /\ (r.op \in Writes => r.op \in blobs)
    BY Zenon DEF Sane, TypeOK
  <2>2. proc' \in [Procs -> Proc] /\ \A q \in Procs : Shape(proc'[q])
    BY Zenon, <1>2 DEF Land, Sane, TypeOK
  <2> QED BY Zenon, <1>2, <2>1, <2>2, SanePersist DEF Land
<1> QED BY Zenon, <1>1, <1>2

\* Every step of every process and of the environment keeps Sane.
LEMMA SaneNext == Sane /\ [Next]_vars => Sane'
<1> SUFFICES ASSUME Sane, [Next]_vars PROVE Sane'
  BY Zenon
<1>1. ASSUME NEW p \in Procs, Step(p) PROVE Sane'
  <2>1. ASSUME NEW s \in SessionIds, NEW role \in {"mount", "tool"},
               Open(p, s, role)
        PROVE  Sane'
    <3>1. Restore(p, s, role, -1) /\ UNCHANGED <<broker, remote>>
      BY Zenon, <2>1 DEF Open
    <3>2. role \in {"mount", "tool", "branch"} /\ role # "branch" /\ -1 \in Int
      OBVIOUS
    <3> QED BY Zenon, <3>1, <3>2, SaneRestore
  <2>2. ASSUME NEW s \in SessionIds, NEW to \in -1 .. MaxLog, Branch(p, s, to)
        PROVE  Sane'
    BY <2>2, SaneRestore, ConstantsAssumption DEF Branch
  <2> QED BY Zenon, <1>1, <2>1, <2>2, SaneMoves, SaneRemote, SaneAppends DEF Step
<1>2. CASE \E s \in SessionIds : ExpireLease(s)
  <2>1. CASE Procs = {}
    BY Zenon, <1>2, <2>1, SaneQuiet DEF ExpireLease, Sane, TypeOK, broker
  <2> QED BY Zenon, <1>2, <2>1, SaneRemote
<1>3. CASE \E r \in limbo : Land(r)
  BY Zenon, <1>3, SaneAppends
<1>4. CASE \E q \in Partitions : Trim(q)
  <2>1. CASE Procs = {}
    <3> PICK q \in Partitions : Trim(q)
      BY Zenon, <1>4
    <3>1. oldest' \in [Partitions -> Nat]
      BY DEF Trim, Sane, TypeOK
    <3> QED BY Zenon, <2>1, <3>1, SaneQuiet DEF Trim, Sane, TypeOK, remote
  <2> QED BY Zenon, <1>4, <2>1, SaneRemote
<1>5. CASE UNCHANGED vars
  BY ZenonT(30), <1>5 DEF vars, broker, remote, Sane, TypeOK, Shape, BlobsDurable, LogOf
<1> QED BY Zenon, <1>1, <1>2, <1>3, <1>4, <1>5 DEF Next

\* Every variable keeps its type, in every environment.
THEOREM TypeCorrect == Spec => []TypeOK
<1>1. Sane => TypeOK
  BY Zenon DEF Sane
<1> QED BY <1>1, SaneInit, SaneNext, PTL DEF Spec

\* A record that needs a blob is in the log only once its blob is stored, in
\* every environment: uploading before appending is enough, whatever is
\* retried, lost, delayed, fenced or crashes in between (CommitWrite).
THEOREM BlobBeforeLog == Spec => []BlobsDurable
<1>1. Sane => BlobsDurable
  BY Zenon DEF Sane
<1> QED BY <1>1, SaneInit, SaneNext, PTL DEF Spec
----------------------------------------------------------------------------
(* Frame lemmas for IInv: for the stores, for the other processes and for a *)
(* process that moves.                                                      *)

(* What a step that leaves the stores alone leaves true *)

\* A record that differs in the lease or an abandoned snapshot only.
LEMMA GoodSame ==
  ASSUME NEW v, NEW w, Good(v),
         w.pc = v.pc, w.role = v.role, w.sid = v.sid, w.child = v.child,
         w.to = v.to, w.upper = v.upper, w.seq = v.seq,
         w.lastOffset = v.lastOffset, w.cursor = v.cursor, w.limit = v.limit,
         w.op = v.op, w.off = v.off, w.diverged = v.diverged,
         \/ w.ckptOff = v.ckptOff /\ w.ckptUpper = v.ckptUpper
         \/ w.ckptOff = -1
  PROVE  Good(w)
<1>1. Holds(w)
  BY Zenon DEF Good, Holds
<1>2. Replays(w)
  BY Zenon DEF Good, Replays
<1>3. Owns(w)
  BY Zenon DEF Good, Owns, Sends
<1>4. Bears(w)
  BY Zenon DEF Good, Bears, Bearing
<1>5. Uploads(w)
  BY DEF Good, Uploads
<1> QED BY Zenon, <1>1, <1>2, <1>3, <1>4, <1>5 DEF Good

\* Facts about a record are facts about it in the next state, when what they
\* mention stays.
LEMMA GoodFrame ==
  ASSUME NEW v, Good(v), UNCHANGED <<log, truth, lineage, images, listed>>
  PROVE  Good(v)'
<1>1. Holds(v)'
  BY ZenonT(30) DEF Good, Holds, BornBy, BirthAt, IsBirth, LogOf
<1>2. Replays(v)'
  BY Zenon DEF Good, Replays, LogOf, Current
<1>3. Owns(v)'
  BY Zenon DEF Good, Owns, LogOf, Current
<1>4. Bears(v)'
  BY ZenonT(30) DEF Good, Bears, BirthAt, IsBirth, Silent, LogOf
<1>5. Uploads(v)'
  BY Zenon DEF Good, Uploads, BornBy, BirthAt, IsBirth, LogOf
<1> QED BY Zenon, <1>1, <1>2, <1>3, <1>4, <1>5 DEF Good

\* The same facts, about the process whose record it is.
LEMMA GoodAt ==
  ASSUME NEW q, NEW v, v = proc'[q], Good(v)'
  PROVE  Good(proc[q])'
<1>1. Holds(proc[q])'
  BY Zenon DEF Good, Holds
<1>2. Replays(proc[q])'
  BY Zenon DEF Good, Replays
<1>3. Owns(proc[q])'
  BY Zenon DEF Good, Owns, Sends
<1>4. Bears(proc[q])'
  BY Zenon DEF Good, Bears, Bearing
<1>5. Uploads(proc[q])'
  BY Zenon DEF Good, Uploads
<1> QED BY Zenon, <1>1, <1>2, <1>3, <1>4, <1>5 DEF Good

\* The replay stays when what it mentions does.
LEMMA ReplayFrame ==
  ASSUME TruthIsReplay, UNCHANGED <<log, truth, lineage>>
  PROVE  TruthIsReplay'
<1>1. ASSUME NEW s PROVE LogOf(s)' = LogOf(s)
  BY Zenon DEF LogOf
<1>2. ASSUME NEW s, NEW n
      PROVE  /\ BirthAt(s, n)' <=> BirthAt(s, n)
             /\ IsBirth(LogOf(s)[n])' <=> IsBirth(LogOf(s)[n])
  BY Zenon, <1>1 DEF BirthAt, IsBirth
<1> QED BY <1>1, <1>2 DEF TruthIsReplay

\* So do the lineages.
LEMMA LineageFrame ==
  ASSUME LineageSound, UNCHANGED <<log, truth, lineage, listed>>
  PROVE  LineageSound'
  BY Zenon DEF LineageSound, LogOf

\* What IInv says of the store alone stays when the store does.
LEMMA StoreFrame ==
  ASSUME IInv,
         UNCHANGED <<log, limbo, truth, poisoned, images, listed, lineage>>
  PROVE  Calm' /\ TruthIsReplay' /\ UnusedIds' /\ ImagesSound' /\ LineageSound'
<1>1. Calm'
  BY Zenon DEF IInv, Calm
<1>2. TruthIsReplay'
  BY Zenon, ReplayFrame DEF IInv
<1>3. UnusedIds'
  BY Zenon DEF IInv, UnusedIds, LogOf, Silent, Current
<1>4. ImagesSound'
  <2>1. ASSUME NEW s PROVE LogOf(s)' = LogOf(s)
    BY Zenon DEF LogOf
  <2>2. ASSUME NEW s, NEW n
        PROVE  (BirthAt(s, n)' <=> BirthAt(s, n)) /\ (BornBy(s, n)' <=> BornBy(s, n))
    BY Zenon, <2>1 DEF BirthAt, BornBy, IsBirth
  <2> QED BY Zenon, <2>1, <2>2 DEF IInv, ImagesSound
<1>5. LineageSound'
  BY Zenon, LineageFrame DEF IInv
<1> QED BY Zenon, <1>1, <1>2, <1>3, <1>4, <1>5

----------------------------------------------------------------------------
(* What a step may do to a session *)

\* The log of s and its history are extended at most.
Longer(s) ==
  /\ Len(LogOf(s)) <= Len(LogOf(s)')
  /\ \A n \in 1 .. Len(LogOf(s)) + 1 : truth'[s][n] = truth[s][n]

\* The lineage of s stays, and no birth of s is added.
NoNewBirth(s) ==
  /\ lineage'[s] = lineage[s]
  /\ \A n \in 1 .. Len(LogOf(s)') :
       BirthAt(s, n)' => n \in 1 .. Len(LogOf(s)) /\ BirthAt(s, n)

\* A Mild environment does nothing but drop what images cover.
LEMMA MildFaults ==
  ASSUME Mild
  PROVE  /\ "overlap" \notin Faults /\ "expire" \notin Faults
         /\ "retry" \notin Faults /\ "late" \notin Faults
         /\ "half" \notin Faults /\ "future" \notin Faults
  BY DEF Mild

\* Types of the pieces, for a session and for its log.
LEMMA SessionType ==
  ASSUME TypeOK, NEW s \in SessionIds
  PROVE  /\ PartitionFor[s] \in Partitions
         /\ LogOf(s) \in Seq(Record) /\ Len(LogOf(s)) \in Nat
         /\ truth[s] \in Seq(Upper) /\ Len(truth[s]) \in Nat \ {0}
         /\ images[s] \in SUBSET Image
         /\ lineage[s] \in Lineage
  BY ConstantsAssumption DEF TypeOK, LogOf

\* A busy process is about a session, and its log has a length.
LEMMA Located ==
  ASSUME IInv, NEW v, Shape(v), v.pc # "idle"
  PROVE  v.sid \in SessionIds /\ Len(LogOf(v.sid)) \in Nat
<1>1. TypeOK
  BY Zenon DEF IInv, Sane
<1>2. v.sid \in SessionIds
  BY Zenon DEF Shape
<1> QED BY Zenon, <1>1, <1>2, SessionType

\* So is a child that a process is making.
LEMMA LocatedChild ==
  ASSUME IInv, NEW v, Shape(v), Bearing(v)
  PROVE  v.child \in SessionIds /\ Len(LogOf(v.child)) \in Nat
<1>1. TypeOK
  BY Zenon DEF IInv, Sane
<1>2. v.child \in SessionIds
  BY Zenon DEF Shape
<1> QED BY Zenon, <1>1, <1>2, SessionType

\* A step of one process leaves the others where they are.
LEMMA Moved ==
  ASSUME IInv, NEW p \in Procs, NEW w, Becomes(p, w), NEW q \in Procs
  PROVE  proc'[q] = IF q = p THEN w ELSE proc[q]
<1>1. proc \in [Procs -> Proc]
  BY Zenon DEF IInv, Sane, TypeOK
<1> QED BY Zenon, <1>1 DEF Becomes

\* What Persist does to session s.
LEMMA PersistSession ==
  ASSUME TypeOK, NEW r \in Record, Persist(r), NEW s \in SessionIds,
         Len(truth[s]) = Len(LogOf(s)) + 1
  PROVE  /\ Longer(s)
         /\ \A n \in 1 .. Len(LogOf(s)) : LogOf(s)'[n] = LogOf(s)[n]
         /\ Len(LogOf(s)') \in Nat
         /\ Len(truth'[s]) = Len(LogOf(s)') + 1
         /\ \/ LogOf(s)' = LogOf(s) /\ truth'[s] = truth[s] /\ s # r.key
            \/ /\ Len(LogOf(s)') = Len(LogOf(s)) + 1
               /\ LogOf(s)'[Len(LogOf(s)) + 1] = r
               /\ truth'[s][Len(LogOf(s)) + 2] =
                    IF s = r.key THEN After(r) ELSE Current(s)
         /\ Current(s)' = IF s = r.key THEN After(r) ELSE Current(s)
<1> DEFINE L == LogOf(s)
           T == truth[s]
           q == PartitionFor[r.key]
           e == IF s = r.key THEN After(r) ELSE Current(s)
<1>1. L \in Seq(Record) /\ T \in Seq(Upper) /\ PartitionFor[s] \in Partitions
  BY Zenon, SessionType
<1>2. r.key \in SessionIds /\ q \in Partitions
  BY Zenon, ConstantsAssumption DEF Record
<1>3. CASE PartitionFor[s] # q
  <2>1. LogOf(s)' = L /\ truth'[s] = T
    BY Zenon, <1>1, <1>2, <1>3 DEF Persist, LogOf, TypeOK
  <2>2. s # r.key
    BY Zenon, <1>3
  <2>3. Current(s)' = Current(s)
    BY Zenon, <2>1 DEF Current
  <2> QED BY <1>1, <2>1, <2>2, <2>3 DEF Longer
<1>4. CASE PartitionFor[s] = q
  <2>1. LogOf(s)' = Append(L, r)
    BY Zenon, <1>1, <1>2, <1>4 DEF Persist, LogOf, TypeOK
  <2>2. truth'[s] = Append(T, e)
    BY Zenon, <1>4 DEF Persist
  <2>3. e \in Upper
    <3>1. truth' \in [SessionIds -> {t \in Seq(Upper) : t # <<>>}]
      BY Zenon, PersistType
    <3>2. Append(T, e) \in Seq(Upper)
      BY Zenon, <2>2, <3>1
    <3>3. Append(T, e)[Len(T) + 1] = e /\ Len(Append(T, e)) = Len(T) + 1
      BY <1>1
    <3> QED BY <1>1, <3>2, <3>3
  <2> HIDE DEF e
  <2>4. Current(s)' = e
    BY <1>1, <2>2, <2>3 DEF Current
  <2>5. Longer(s) /\ \A n \in 1 .. Len(L) : LogOf(s)'[n] = L[n]
    BY <1>1, <2>1, <2>2, <2>3 DEF Longer
  <2>6. Len(LogOf(s)') = Len(L) + 1 /\ LogOf(s)'[Len(L) + 1] = r
    BY <1>1, <2>1
  <2>7. truth'[s][Len(L) + 2] = e /\ Len(truth'[s]) = Len(L) + 2
    BY <1>1, <2>2, <2>3
  <2> QED BY <1>1, <2>4, <2>5, <2>6, <2>7 DEF e
<1> QED BY Zenon, <1>3, <1>4

\* A session that lost nothing and was not born again.
Grows(s) ==
  /\ listed \subseteq listed'
  /\ Longer(s) /\ NoNewBirth(s)
  /\ images[s] # {} => images'[s] # {}

\* What process record v relies on, apart from itself, is still there.
Supports(v) ==
  /\ Grows(v.sid)
  /\ v.role = "mount" => Current(v.sid)' = Current(v.sid)
  /\ Bearing(v) =>
       /\ Longer(v.child) /\ NoNewBirth(v.child)
       /\ images'[v.child] = images[v.child]
       /\ Silent(v.child) => Silent(v.child)'

\* What a process holds and uploads lies in the past of its session.
LEMMA HoldsKept ==
  ASSUME TypeOK, NEW v \in Proc, Shape(v), v.pc # "idle", Holds(v), Uploads(v),
         Grows(v.sid), Len(LogOf(v.sid)') \in Nat
  PROVE  Holds(v)' /\ Uploads(v)'
<1> DEFINE s == v.sid
<1>1. s \in SessionIds /\ Len(LogOf(s)) \in Nat
  BY Zenon, SessionType DEF Shape
<1>2. /\ v.lastOffset \in Int /\ v.cursor \in Nat /\ v.limit \in Nat
      /\ v.to \in Int /\ v.off \in Nat /\ v.ckptOff \in Int
  BY Zenon DEF Proc
<1>3. ASSUME NEW n \in Int, BornBy(s, n) PROVE BornBy(s, n)'
  BY Zenon, <1>3 DEF Grows, NoNewBirth, BornBy
<1>a. ASSUME NEW n \in Int, n >= -1, n < Len(LogOf(s))
      PROVE  n < Len(LogOf(s)') /\ truth'[s][n + 2] = truth[s][n + 2]
  <2>1. n + 2 \in 1 .. Len(LogOf(s)) + 1
    BY <1>1, <1>a
  <2> QED BY <1>1, <1>a, <2>1 DEF Grows, Longer
<1>4. Holds(v)'
  <2>1. v.sid \in listed'
    BY Zenon DEF Holds, Grows
  <2>2. lineage'[v.sid].parent = NoSession \/ images'[v.sid] # {}
    BY Zenon DEF Holds, Grows, NoNewBirth
  <2>3. v.role = "branch" => v.to >= -1 /\ v.to < Len(LogOf(s)')
    BY <1>1, <1>2 DEF Holds, Grows, Longer
  <2>4. ~v.diverged => /\ v.lastOffset >= -1 /\ v.lastOffset < Len(LogOf(s)')
                       /\ v.upper = truth'[s][v.lastOffset + 2]
    <3>1. ~v.diverged => /\ v.lastOffset >= -1 /\ v.lastOffset < Len(LogOf(s))
                         /\ v.upper = truth[s][v.lastOffset + 2]
      BY Zenon DEF Holds
    <3> QED BY Zenon, <1>2, <1>a, <3>1
  <2>5. ~v.diverged => \/ BornBy(s, v.lastOffset + 1)'
                       \/ v.to >= 0 /\ \A m \in 1 .. v.to + 1 : ~BirthAt(s, m)'
    <3> SUFFICES ASSUME ~v.diverged
                 PROVE  \/ BornBy(s, v.lastOffset + 1)'
                        \/ v.to >= 0 /\ \A m \in 1 .. v.to + 1 : ~BirthAt(s, m)'
      BY Zenon
    <3>1. CASE BornBy(s, v.lastOffset + 1)
      BY SMTT(30), <1>2, <1>3, <3>1
    <3>2. CASE v.to >= 0 /\ \A m \in 1 .. v.to + 1 : ~BirthAt(s, m)
      <4>1. v.to + 1 <= Len(LogOf(s)')
        BY SMTT(30), <1>1, <1>2, <2>3, <3>2 DEF Shape
      <4> QED BY SMTT(30), <1>1, <1>2, <3>2, <4>1 DEF Grows, NoNewBirth
    <3> QED BY Zenon, <3>1, <3>2 DEF Holds
  <2> QED BY Zenon, <2>1, <2>2, <2>3, <2>4, <2>5 DEF Holds
<1>5. Uploads(v)'
  <2> SUFFICES ASSUME v.ckptOff >= 0
               PROVE  /\ v.ckptOff < Len(LogOf(s)')
                      /\ v.ckptUpper = truth'[s][v.ckptOff + 2]
                      /\ BornBy(s, v.ckptOff + 1)'
    BY Zenon DEF Uploads
  <2>1. /\ v.ckptOff < Len(LogOf(s))
        /\ v.ckptUpper = truth[s][v.ckptOff + 2]
        /\ BornBy(s, v.ckptOff + 1)
    BY Zenon DEF Uploads
  <2> QED BY SMTT(30), <1>2, <1>3, <1>a, <2>1
<1> QED BY Zenon, <1>4, <1>5

\* A process stays sound while every session it is about only grows, and no
\* record of a session it is mounting is added.
LEMMA GoodKept ==
  ASSUME TypeOK, NEW v \in Proc, Shape(v), v.pc # "idle", Good(v), Supports(v),
         Len(LogOf(v.sid)') \in Nat, Bearing(v) => Len(LogOf(v.child)') \in Nat
  PROVE  Good(v)'
<1> DEFINE s == v.sid
<1>1. s \in SessionIds /\ Len(LogOf(s)) \in Nat
  BY Zenon, SessionType DEF Shape
<1>2. /\ v.lastOffset \in Int /\ v.cursor \in Nat /\ v.limit \in Nat
      /\ v.to \in Int /\ v.off \in Nat /\ v.ckptOff \in Int
  BY Zenon DEF Proc
<1>a. ASSUME NEW n \in Int, n >= -1, n < Len(LogOf(s))
      PROVE  n < Len(LogOf(s)') /\ truth'[s][n + 2] = truth[s][n + 2]
  <2>1. n + 2 \in 1 .. Len(LogOf(s)) + 1
    BY <1>1, <1>a
  <2> QED BY <1>1, <1>a, <2>1 DEF Supports, Grows, Longer
<1>b. Longer(s) /\ lineage'[s] = lineage[s]
  BY Zenon DEF Supports, Grows, NoNewBirth
<1>c. v.role = "mount" => Current(s)' = Current(s)
  BY Zenon DEF Supports
<1>4. Holds(v)' /\ Uploads(v)'
  BY Zenon, HoldsKept DEF Good, Supports
<1>5. Replays(v)'
  <2>1. v.pc \in {"read", "replay"} =>
          /\ v.lastOffset < v.cursor /\ v.cursor <= Len(LogOf(s)')
          /\ v.upper = truth'[s][v.cursor + 1]
    <3> SUFFICES ASSUME v.pc \in {"read", "replay"}
                 PROVE  /\ v.lastOffset < v.cursor /\ v.cursor <= Len(LogOf(s)')
                        /\ v.upper = truth'[s][v.cursor + 1]
      BY Zenon
    <3>1. /\ v.lastOffset < v.cursor /\ v.cursor <= Len(LogOf(s))
          /\ v.upper = truth[s][v.cursor + 1]
      BY Zenon DEF Good, Replays
    <3>2. v.cursor + 1 \in 1 .. Len(LogOf(s)) + 1
      BY SMTT(30), <1>1, <1>2, <3>1
    <3> QED BY SMTT(30), <1>1, <1>2, <1>b, <3>1, <3>2 DEF Longer
  <2>2. v.pc = "replay" =>
          /\ v.cursor <= v.limit /\ v.limit <= Len(LogOf(s)')
          /\ v.to >= 0 => v.limit = v.to + 1
          /\ v.role = "mount" => truth'[s][v.limit + 1] = Current(s)'
    <3> SUFFICES ASSUME v.pc = "replay"
                 PROVE  /\ v.cursor <= v.limit /\ v.limit <= Len(LogOf(s)')
                        /\ v.to >= 0 => v.limit = v.to + 1
                        /\ v.role = "mount" =>
                             truth'[s][v.limit + 1] = Current(s)'
      BY Zenon
    <3>1. /\ v.cursor <= v.limit /\ v.limit <= Len(LogOf(s))
          /\ v.to >= 0 => v.limit = v.to + 1
          /\ v.role = "mount" => truth[s][v.limit + 1] = Current(s)
      BY Zenon DEF Good, Replays
    <3>2. v.limit + 1 \in 1 .. Len(LogOf(s)) + 1
      BY SMTT(30), <1>1, <1>2, <3>1
    <3>3. truth'[s][v.limit + 1] = truth[s][v.limit + 1]
      BY Zenon, <1>b, <3>2 DEF Longer
    <3>4. v.limit <= Len(LogOf(s)')
      BY <1>1, <1>2, <1>b, <3>1 DEF Longer
    <3> QED BY Zenon, <1>c, <3>1, <3>3, <3>4
  <2>3. v.pc = "replayed" /\ v.to >= 0 => v.upper = truth'[s][v.to + 2]
    <3> SUFFICES ASSUME v.pc = "replayed", v.to >= 0
                 PROVE  v.upper = truth'[s][v.to + 2]
      BY Zenon
    <3>1. v.role = "branch"
      BY Zenon DEF Shape
    <3>2. v.to < Len(LogOf(s))
      BY Zenon, <3>1 DEF Good, Holds
    <3>3. v.upper = truth[s][v.to + 2]
      BY Zenon DEF Good, Replays
    <3>4. v.to >= -1
      BY <1>2
    <3>5. truth'[s][v.to + 2] = truth[s][v.to + 2]
      BY Zenon, <1>2, <1>a, <3>2, <3>4
    <3> QED BY Zenon, <3>3, <3>5
  <2> QED BY Zenon, <2>1, <2>2, <2>3 DEF Good, Replays
<1>6. Owns(v)'
  <2>1. v.pc = "sent" /\ v.role = "mount" =>
          /\ v.lastOffset < v.off /\ v.off < Len(LogOf(s)')
          /\ truth'[s][v.off + 2] = Apply(v.upper, Sends(v))
          /\ Current(s)' = Apply(v.upper, Sends(v))
    <3> SUFFICES ASSUME v.pc = "sent", v.role = "mount"
                 PROVE  /\ v.lastOffset < v.off /\ v.off < Len(LogOf(s)')
                        /\ truth'[s][v.off + 2] = Apply(v.upper, Sends(v))
                        /\ Current(s)' = Apply(v.upper, Sends(v))
      BY SMTT(30)
    <3>1. /\ v.lastOffset < v.off /\ v.off < Len(LogOf(s))
          /\ truth[s][v.off + 2] = Apply(v.upper, Sends(v))
          /\ Current(s) = Apply(v.upper, Sends(v))
      BY Zenon DEF Good, Owns
    <3>2. v.off >= -1
      BY SMTT(30), <1>2
    <3>3. v.off < Len(LogOf(s)') /\ truth'[s][v.off + 2] = truth[s][v.off + 2]
      BY SMTT(30), <1>2, <1>a, <3>1, <3>2
    <3> QED BY Zenon, <1>c, <3>1, <3>3
  <2>2. Owns(v)
    BY Zenon DEF Good
  <2> HIDE DEF s
  <2> QED BY Zenon, <1>b, <1>c, <2>1, <2>2 DEF Owns, s
<1>7. Bears(v)'
  <2> SUFFICES ASSUME Bearing(v) PROVE Bears(v)'
    BY Zenon DEF Bears
  <2>1. v.child \in SessionIds /\ Len(LogOf(v.child)) \in Nat
    BY Zenon, SessionType DEF Shape
  <2>2. v.pc # "append" =>
          /\ v.off < Len(LogOf(v.child)')
          /\ truth'[v.child][v.off + 2] = v.upper
    <3> SUFFICES ASSUME v.pc # "append"
                 PROVE  /\ v.off < Len(LogOf(v.child)')
                        /\ truth'[v.child][v.off + 2] = v.upper
      BY Zenon
    <3>1. v.off < Len(LogOf(v.child)) /\ truth[v.child][v.off + 2] = v.upper
      BY Zenon DEF Good, Bears
    <3>2. Longer(v.child)
      BY Zenon DEF Supports
    <3>3. v.off + 2 \in 1 .. Len(LogOf(v.child)) + 1
      BY SMTT(30), <1>2, <2>1, <3>1
    <3> QED BY SMTT(30), <1>2, <2>1, <3>1, <3>2, <3>3 DEF Longer
  <2>3. v.pc # "append" =>
          \A m \in 1 .. Len(LogOf(v.child)') : BirthAt(v.child, m)' => m = v.off + 1
    BY Zenon, <2>1 DEF Good, Bears, Supports, Grows, NoNewBirth
  <2> QED BY Zenon, <2>2, <2>3 DEF Good, Bears, Supports, Grows, NoNewBirth
<1> QED BY Zenon, <1>4, <1>5, <1>6, <1>7 DEF Good

----------------------------------------------------------------------------
(* Steps that change nothing but the record of one process *)

\* No other process mounts what w mounts or bears what w bears.
Alone(p, w) ==
  \A q \in Procs \ {p} :
    /\ ~(w.role = "mount" /\ Mounting(q) /\ w.sid = proc[q].sid)
    /\ ~(Bearing(w) /\ Bearing(proc[q]) /\ w.child = proc[q].child)

\* Exclusion survives a step after which the mover is alone.
LEMMA ExclusiveKept ==
  ASSUME Sane, Exclusive, NEW p \in Procs, NEW w \in Proc, Becomes(p, w),
         Alone(p, w)
  PROVE  Exclusive'
<1>1. proc'[p] = w /\ \A q \in Procs \ {p} : proc'[q] = proc[q]
  BY Zenon DEF Sane, TypeOK, Becomes
<1> SUFFICES ASSUME NEW a \in Procs, NEW b \in Procs, a # b
             PROVE  /\ ~(proc'[a].role = "mount" /\ proc'[b].role = "mount"
                           /\ proc'[a].sid = proc'[b].sid)
                    /\ ~(Bearing(proc'[a]) /\ Bearing(proc'[b])
                           /\ proc'[a].child = proc'[b].child)
  BY Zenon DEF Exclusive, Mounting, Bearing
<1>2. CASE a = p
  BY Zenon, <1>1, <1>2 DEF Alone, Mounting
<1>3. CASE b = p
  BY Zenon, <1>1, <1>3 DEF Alone, Mounting
<1>4. CASE a # p /\ b # p
  BY Zenon, <1>1, <1>4 DEF Exclusive, Mounting
<1> QED BY Zenon, <1>2, <1>3, <1>4

\* A mover that keeps role, session and child, and does not begin to bear,
\* is alone where it was.
LEMMA AloneKept ==
  ASSUME Exclusive, NEW p \in Procs, NEW w \in Proc,
         w.role = proc[p].role, w.sid = proc[p].sid, w.child = proc[p].child,
         Bearing(w) => Bearing(proc[p])
  PROVE  Alone(p, w)
  BY Zenon DEF Exclusive, Alone, Mounting

\* An idle process is alone.
LEMMA AloneIdle ==
  ASSUME NEW p \in Procs
  PROVE  Alone(p, Idle)
  BY Zenon DEF Alone, Idle, Bearing

\* A step on the lease or the blobs alone.
LEMMA IInvStill ==
  ASSUME IInv, Sane',
         UNCHANGED <<log, limbo, truth, poisoned, images, listed, lineage,
                     proc>>
  PROVE  IInv'
<1>1. Calm' /\ TruthIsReplay' /\ UnusedIds' /\ ImagesSound' /\ LineageSound'
  BY Zenon, StoreFrame
<1>2. Exclusive'
  BY Zenon DEF IInv, Exclusive, Mounting, Bearing
<1>3. ProcSound'
  <2> SUFFICES ASSUME NEW q \in Procs, proc'[q].pc # "idle"
               PROVE  Good(proc[q])'
    BY Zenon DEF ProcSound
  <2>1. PICK v \in Proc : v = proc'[q]
    BY Zenon DEF Sane, TypeOK
  <2>2. Good(v)
    BY Zenon, <2>1 DEF IInv, ProcSound
  <2>3. Good(v)'
    BY Zenon, <2>2, GoodFrame
  <2> QED BY Zenon, <2>1, <2>3, GoodAt
<1> QED BY Zenon, <1>1, <1>2, <1>3 DEF IInv

\* A step of one process that is sound and alone in its new record.
LEMMA IInvLocal ==
  ASSUME IInv, Sane', NEW p \in Procs, NEW w \in Proc, Becomes(p, w),
         UNCHANGED <<log, limbo, truth, poisoned, images, listed, lineage>>,
         w.pc # "idle" => Good(w), Alone(p, w)
  PROVE  IInv'
<1>1. Calm' /\ TruthIsReplay' /\ UnusedIds' /\ ImagesSound' /\ LineageSound'
  BY Zenon, StoreFrame
<1>2. Exclusive'
  BY Zenon, ExclusiveKept DEF IInv
<1>3. ProcSound'
  <2> SUFFICES ASSUME NEW q \in Procs, proc'[q].pc # "idle"
               PROVE  Good(proc[q])'
    BY Zenon DEF ProcSound
  <2>1. PICK v \in Proc : v = proc'[q]
    BY Zenon DEF Sane, TypeOK
  <2>2. Good(v)
    BY Zenon, <2>1 DEF IInv, Sane, TypeOK, Becomes, ProcSound
  <2>3. Good(v)'
    BY Zenon, <2>2, GoodFrame
  <2> QED BY Zenon, <2>1, <2>3, GoodAt
<1> QED BY Zenon, <1>1, <1>2, <1>3 DEF IInv

\* The record of a process, before and after it moves.
LEMMA MoveType ==
  ASSUME IInv, Sane', NEW p \in Procs, NEW w, Becomes(p, w)
  PROVE  /\ proc[p] \in Proc /\ Shape(proc[p])
         /\ w \in Proc
         /\ proc[p].pc # "idle" => Good(proc[p])
         /\ w.pc # "idle" => Shape(w)'
<1>1. proc \in [Procs -> Proc] /\ proc' \in [Procs -> Proc] /\ proc'[p] = w
  BY Zenon DEF IInv, Sane, TypeOK, Becomes
<1>2. Shape(proc[p]) /\ (proc[p].pc # "idle" => Good(proc[p]))
  BY Zenon DEF IInv, Sane, ProcSound
<1>3. Shape(proc[p])'
  BY Zenon DEF Sane
<1>4. Shape(w)'
  BY Zenon, <1>1, <1>3 DEF Shape, Bearing
<1> QED BY Zenon, <1>1, <1>2, <1>4

\* Types of the fields the arithmetic below uses.
LEMMA FieldType ==
  ASSUME NEW v \in Proc
  PROVE  /\ v.lastOffset \in Int /\ v.cursor \in Nat /\ v.limit \in Nat
         /\ v.to \in Int /\ v.off \in Nat /\ v.ckptOff \in Int /\ v.seq \in Nat
         /\ v.upper \in Upper
  BY Zenon DEF Proc

\* A step that leaves alone what Holds reads of a process record.
LEMMA SameHolds ==
  ASSUME NEW v, NEW w, Holds(v), w.sid = v.sid, w.role = v.role, w.to = v.to,
         w.diverged = v.diverged, w.lastOffset = v.lastOffset, w.upper = v.upper
  PROVE  Holds(w)
  BY Zenon DEF Holds

\* A step that fences the object: nothing is left to say of its state.
LEMMA FencedHolds ==
  ASSUME NEW v, NEW w, Holds(v), w.sid = v.sid, w.role = v.role, w.to = v.to,
         w.diverged = TRUE
  PROVE  Holds(w)
  BY Zenon DEF Holds

\* A step that leaves the snapshot being uploaded alone.
LEMMA SameUploads ==
  ASSUME NEW v, NEW w, Uploads(v), w.sid = v.sid, w.ckptOff = v.ckptOff,
         w.ckptUpper = v.ckptUpper
  PROVE  Uploads(w)
  BY Zenon DEF Uploads

\* A process that is not replaying, and one that bears no child.
LEMMA NoReplay ==
  ASSUME NEW w, w.pc \notin {"read", "replay", "replayed"}
  PROVE  Replays(w)
  BY Zenon DEF Replays

LEMMA NoBirth ==
  ASSUME NEW w, w.pc \notin {"append", "sent", "image"}
  PROVE  Bears(w)
  BY Zenon DEF Bears, Bearing
-----------------------------------------------------------------------------
(***************************************************************************)
(* The tag of a state image, in every environment: with overlapping        *)
(* mounts, lost leases, resent and late records, half-made children and    *)
(* trimmed logs, an image never claims a record its state has not applied. *)
(* IInv is of no use here, it needs the absence of all of these.  What     *)
(* remains is what a single session object knows of its own steps.         *)
(***************************************************************************)

\* Offset off of session s holds a record of s, and u has applied it or it is
\* the SessionStart of a child.
Tagged(s, off, u) ==
  /\ off < Len(LogOf(s)) /\ LogOf(s)[off + 1].key = s
  /\ IsBirth(LogOf(s)[off + 1]) \/ u.seqLast = LogOf(s)[off + 1].seq

\* The session process record v appends to, and what it appends.
Target(v) == IF v.role = "branch" THEN v.child ELSE v.sid

Appends(v) ==
  [key |-> Target(v), seq |-> IF v.op = Start THEN 1 ELSE v.seq, op |-> v.op]

\* That record is in the log at the offset the broker answered with.
Durable(v) ==
  /\ v.off < Len(LogOf(Target(v)))
  /\ LogOf(Target(v))[v.off + 1] = Appends(v)

\* What process record v knows of the record its offsets stand for: the state
\* has applied it, the next number follows it, and Apply cannot reject what
\* is being appended.
Tags(v) ==
  /\ v.lastOffset >= 0 => Tagged(v.sid, v.lastOffset, v.upper)
  /\ v.ckptOff >= 0 => Tagged(v.sid, v.ckptOff, v.ckptUpper)
  /\ v.pc \in {"loaded", "open"} /\ ~v.diverged => v.seq = v.upper.seqLast
  /\ v.pc \in {"append", "sent"} /\ v.op \in Ops =>
       v.seq = v.upper.seqLast + 1 /\ Check(v.upper.tree, v.op)
  /\ v.pc = "sent" => Durable(v)
  /\ Bearing(v) => lineage[v.child].parent # NoSession
  /\ v.pc = "image" => Tagged(v.child, v.off, v.upper)

\* The inductive invariant.
TagInv == Sane /\ ImageTagged /\ \A p \in Procs : Tags(proc[p])
----------------------------------------------------------------------------
(* What a step that only adds records and lineages leaves true *)

Grown ==
  /\ \A q \in Partitions :
       /\ Len(log[q]) <= Len(log'[q])
       /\ \A n \in 1 .. Len(log[q]) : log'[q][n] = log[q][n]
  /\ \A s \in SessionIds :
       lineage[s].parent # NoSession => lineage'[s].parent # NoSession

\* The log of a session keeps what it has.
LEMMA LogGrown ==
  ASSUME TypeOK, TypeOK', Grown, NEW s \in SessionIds
  PROVE  /\ Len(LogOf(s)) \in Nat /\ Len(LogOf(s)') \in Nat
         /\ Len(LogOf(s)) <= Len(LogOf(s)')
         /\ \A n \in 1 .. Len(LogOf(s)) : LogOf(s)'[n] = LogOf(s)[n]
<1>1. PartitionFor[s] \in Partitions
  BY Zenon, ConstantsAssumption
<1>2. log \in [Partitions -> Seq(Record)] /\ log' \in [Partitions -> Seq(Record)]
  BY Zenon DEF TypeOK
<1>3. LogOf(s) \in Seq(Record) /\ LogOf(s)' \in Seq(Record)
  BY Zenon, <1>1, <1>2 DEF LogOf
<1>4. Len(LogOf(s)) \in Nat /\ Len(LogOf(s)') \in Nat
  BY <1>3
<1> QED BY Zenon, <1>1, <1>4 DEF Grown, LogOf

\* A tag stays right: the record stays where it is, and stays a birth.
LEMMA TaggedGrown ==
  ASSUME TypeOK, TypeOK', Grown, NEW s \in SessionIds, NEW off \in Nat, NEW u,
         Tagged(s, off, u)
  PROVE  Tagged(s, off, u)'
<1>2. /\ Len(LogOf(s)) \in Nat /\ Len(LogOf(s)') \in Nat
      /\ Len(LogOf(s)) <= Len(LogOf(s)')
      /\ \A n \in 1 .. Len(LogOf(s)) : LogOf(s)'[n] = LogOf(s)[n]
  BY Zenon, LogGrown
<1>3. off + 1 \in 1 .. Len(LogOf(s)) /\ off < Len(LogOf(s)')
  BY <1>2 DEF Tagged
<1>4. LogOf(s)'[off + 1] = LogOf(s)[off + 1]
  BY Zenon, <1>2, <1>3
<1>5. IsBirth(LogOf(s)[off + 1]) => IsBirth(LogOf(s)[off + 1])'
  BY Zenon, <1>4 DEF IsBirth, Grown, Tagged
<1> QED BY Zenon, <1>3, <1>4, <1>5 DEF Tagged

\* So does what a process record knows.
LEMMA TagsGrown ==
  ASSUME TypeOK, TypeOK', Grown, NEW v \in Proc, Shape(v), Tags(v)
  PROVE  Tags(v)'
<1>0. /\ v.lastOffset \in Int /\ v.ckptOff \in Int /\ v.off \in Nat
  BY ZenonT(30) DEF Proc
<1>1. CASE v.pc = "idle"
  BY <1>1 DEF Shape, Idle, Tags, Bearing
<1>2. CASE v.pc # "idle"
  <2>1. v.sid \in SessionIds
    BY ZenonT(30), <1>2 DEF Shape
  <2>2. v.lastOffset >= 0 => Tagged(v.sid, v.lastOffset, v.upper)'
    BY SMTT(30), <1>0, <2>1, TaggedGrown DEF Tags
  <2>3. v.ckptOff >= 0 => Tagged(v.sid, v.ckptOff, v.ckptUpper)'
    BY <1>0, <2>1, TaggedGrown DEF Tags
  <2>4. Bearing(v) => v.child \in SessionIds
    BY Zenon DEF Shape
  <2>5. v.pc = "image" => Tagged(v.child, v.off, v.upper)'
    <3>1. v.pc = "image" => v.child \in SessionIds
      BY Zenon, <2>4 DEF Shape, Bearing
    <3> QED BY Zenon, <1>0, <3>1, TaggedGrown DEF Tags
  <2>6. v.pc = "sent" => Durable(v)'
    <3> SUFFICES ASSUME v.pc = "sent" PROVE Durable(v)'
      BY Zenon
    <3>1. Target(v) \in SessionIds
      BY Zenon, <2>1, <2>4 DEF Target, Bearing
    <3>2. PICK s \in SessionIds : s = Target(v)
      BY Zenon, <3>1
    <3>4. /\ Len(LogOf(s)) \in Nat /\ Len(LogOf(s)') \in Nat
          /\ Len(LogOf(s)) <= Len(LogOf(s)')
          /\ \A n \in 1 .. Len(LogOf(s)) : LogOf(s)'[n] = LogOf(s)[n]
      BY Zenon, LogGrown
    <3>5. v.off < Len(LogOf(s)) /\ LogOf(s)[v.off + 1] = Appends(v)
      BY Zenon, <3>2 DEF Tags, Durable
    <3>6. v.off + 1 \in 1 .. Len(LogOf(s)) /\ v.off < Len(LogOf(s)')
      BY <1>0, <3>4, <3>5
    <3>7. LogOf(s)'[v.off + 1] = Appends(v)
      BY Zenon, <3>4, <3>5, <3>6
    <3> QED BY Zenon, <3>2, <3>6, <3>7 DEF Durable
  <2>7. Bearing(v) => lineage'[v.child].parent # NoSession
    BY Zenon, <2>4 DEF Tags, Grown
  <2> QED BY Zenon, <2>2, <2>3, <2>5, <2>6, <2>7 DEF Tags
<1> QED BY Zenon, <1>1, <1>2

\* The images of a step that stores none, or one whose tag is right.
LEMMA ImagesGrown ==
  ASSUME TypeOK, TypeOK', Grown, ImageTagged,
         \/ images' = images
         \/ \E s \in SessionIds, off \in Nat, u \in Upper :
              PutImage(s, off, u) /\ Tagged(s, off, u)
  PROVE  ImageTagged'
<1> SUFFICES ASSUME NEW s \in SessionIds, NEW i \in images'[s]
             PROVE  Tagged(s, i.off, i.upper)'
  BY Zenon DEF ImageTagged, Tagged
<1>1. i.off \in Nat
  BY DEF TypeOK, Image
<1>2. Tagged(s, i.off, i.upper)
  <2>1. CASE i \in images[s]
    BY Zenon, <2>1 DEF ImageTagged, Tagged
  <2>2. CASE \E off \in Nat, u \in Upper :
               Tagged(s, off, u) /\ i = [off |-> off, upper |-> u]
    BY <2>2
  <2>3. i \in images[s] \/ \E off \in Nat, u \in Upper :
               Tagged(s, off, u) /\ i = [off |-> off, upper |-> u]
    <3>1. CASE images' = images
      BY Zenon, <3>1
    <3>2. ASSUME NEW t \in SessionIds, NEW off \in Nat, NEW u \in Upper,
                 PutImage(t, off, u), Tagged(t, off, u)
          PROVE  \/ i \in images[s]
                 \/ s = t /\ i = [off |-> off, upper |-> u]
      BY Zenon, <3>2 DEF PutImage, TypeOK
    <3> QED BY Zenon, <3>1, <3>2
  <2> QED BY Zenon, <2>1, <2>2, <2>3
<1> QED BY Zenon, <1>1, <1>2, TaggedGrown

\* A step in which p moves to record w.
LEMMA TagsStep ==
  ASSUME TagInv, Sane', Grown, NEW p \in Procs, NEW w, Becomes(p, w), Tags(w)',
         \/ images' = images
         \/ \E s \in SessionIds, off \in Nat, u \in Upper :
              PutImage(s, off, u) /\ Tagged(s, off, u)
  PROVE  TagInv'
<1>1. TypeOK /\ TypeOK' /\ ImageTagged
  BY Zenon DEF TagInv, Sane
<1>2. ImageTagged'
  BY Zenon, <1>1, ImagesGrown
<1>3. \A q \in Procs : Tags(proc[q])'
  <2> SUFFICES ASSUME NEW q \in Procs PROVE Tags(proc[q])'
    BY Zenon
  <2>1. CASE q = p
    <3>1. proc'[q] = w
      BY Zenon, <1>1, <2>1 DEF Becomes, TypeOK
    <3> QED BY Zenon, <3>1 DEF Tags, Durable, Appends, Target, Bearing
  <2>2. CASE q # p
    <3>1. PICK v \in Proc : v = proc[q] /\ v = proc'[q] /\ Shape(v) /\ Tags(v)
      BY Zenon, <1>1, <2>2 DEF Becomes, TypeOK, TagInv, Sane
    <3>2. Tags(v)'
      BY Zenon, <1>1, <3>1, TagsGrown
    <3> QED BY Zenon, <3>1, <3>2 DEF Tags, Durable, Appends, Target, Bearing
  <2> QED BY Zenon, <2>1, <2>2
<1> QED BY Zenon, <1>2, <1>3 DEF TagInv

\* A step in which no process moves.
LEMMA TagsRest ==
  ASSUME TagInv, Sane', Grown, images' = images, proc' = proc
  PROVE  TagInv'
<1>1. TypeOK /\ TypeOK' /\ ImageTagged
  BY Zenon DEF TagInv, Sane
<1>2. ImageTagged'
  BY Zenon, <1>1, ImagesGrown
<1>3. \A q \in Procs : Tags(proc[q])'
  <2> SUFFICES ASSUME NEW q \in Procs PROVE Tags(proc[q])'
    BY Zenon
  <2>1. PICK v \in Proc : v = proc[q] /\ v = proc'[q] /\ Shape(v) /\ Tags(v)
    BY Zenon, <1>1 DEF TypeOK, TagInv, Sane
  <2>2. Tags(v)'
    BY Zenon, <1>1, <2>1, TagsGrown
  <2> QED BY Zenon, <2>1, <2>2 DEF Tags, Durable, Appends, Target, Bearing
<1> QED BY Zenon, <1>2, <1>3 DEF TagInv

\* Nothing moves in the log or the lineages.
LEMMA StillGrown ==
  ASSUME TypeOK, UNCHANGED <<log, lineage>>
  PROVE  Grown
  BY DEF TypeOK, Grown

\* A process moves to a record whose tags are right, and nothing else moves.
LEMMA TagsLocal ==
  ASSUME TagInv, Sane', NEW p \in Procs, NEW w, Becomes(p, w), Tags(w),
         UNCHANGED <<log, lineage, images>>
  PROVE  TagInv'
<1>1. TypeOK /\ TypeOK' /\ Grown
  BY Zenon, StillGrown DEF TagInv, Sane
<1>2. Tags(w)'
  BY Zenon DEF Tags, Tagged, Durable, IsBirth, LogOf
<1> QED BY Zenon, <1>1, <1>2, TagsStep

\* The broker adds a record, at the end of its partition.
LEMMA PersistGrown ==
  ASSUME TypeOK, NEW r \in Record, Persist(r), lineage' = lineage
  PROVE  /\ Grown
         /\ Len(LogOf(r.key)) \in Nat
         /\ Len(LogOf(r.key)') = Len(LogOf(r.key)) + 1
         /\ LogOf(r.key)'[Len(LogOf(r.key)) + 1] = r
<1>1. r.key \in SessionIds /\ PartitionFor[r.key] \in Partitions
  BY Zenon, ConstantsAssumption DEF Record
<1>2. \A q \in Partitions : log[q] \in Seq(Record)
  BY Zenon DEF TypeOK
<1>3. log' = [log EXCEPT ![PartitionFor[r.key]] = Append(@, r)]
  BY Zenon DEF Persist
<1>4. \A q \in Partitions :
        log'[q] = IF q = PartitionFor[r.key] THEN Append(log[q], r) ELSE log[q]
  BY Zenon, <1>1, <1>3 DEF TypeOK
<1>5. \A q \in Partitions :
        /\ Len(log[q]) <= Len(log'[q])
        /\ \A n \in 1 .. Len(log[q]) : log'[q][n] = log[q][n]
  <2> SUFFICES ASSUME NEW q \in Partitions
               PROVE  /\ Len(log[q]) <= Len(log'[q])
                      /\ \A n \in 1 .. Len(log[q]) : log'[q][n] = log[q][n]
    BY Zenon
  <2>1. log[q] \in Seq(Record)
    BY Zenon, <1>2
  <2>2. CASE log'[q] = log[q]
    BY <2>1, <2>2
  <2>3. CASE log'[q] = Append(log[q], r)
    BY <2>1, <2>3
  <2> QED BY Zenon, <1>4, <2>2, <2>3
<1>6. Grown
  BY Zenon, <1>5 DEF Grown
<1>7. LogOf(r.key)' = Append(LogOf(r.key), r) /\ LogOf(r.key) \in Seq(Record)
  BY Zenon, <1>1, <1>2, <1>4 DEF LogOf
<1> QED BY <1>6, <1>7
----------------------------------------------------------------------------
(* The actions *)

\* The types of a process record and of what its offsets are compared with.
LEMMA TagFields ==
  ASSUME TagInv, NEW p \in Procs
  PROVE  /\ proc[p] \in Proc /\ Shape(proc[p]) /\ Tags(proc[p]) /\ TypeOK
         /\ proc[p].upper \in Upper /\ proc[p].seq \in Nat
         /\ proc[p].lastOffset \in Int /\ proc[p].ckptOff \in Int
         /\ proc[p].off \in Nat /\ proc[p].cursor \in Nat
         /\ proc[p].limit \in Nat
<1>1. proc[p] \in Proc /\ Shape(proc[p]) /\ Tags(proc[p]) /\ TypeOK
  BY Zenon DEF TagInv, Sane, TypeOK
<1> QED BY Zenon, <1>1 DEF Proc

\* A record that differs in the lease, the cursor or an abandoned snapshot
\* only.
LEMMA SameTags ==
  ASSUME NEW v, NEW w, Tags(v),
         w.pc = v.pc, w.role = v.role, w.sid = v.sid, w.child = v.child,
         w.upper = v.upper, w.seq = v.seq, w.lastOffset = v.lastOffset,
         w.op = v.op, w.off = v.off, w.diverged = v.diverged,
         \/ w.ckptOff = v.ckptOff /\ w.ckptUpper = v.ckptUpper
         \/ w.ckptOff = -1
  PROVE  Tags(w)
<1>1. w.ckptOff >= 0 => w.ckptOff = v.ckptOff /\ w.ckptUpper = v.ckptUpper
  OBVIOUS
<1>2. Durable(v) => Durable(w)
  BY ZenonT(30) DEF Durable, Appends, Target
<1>3. Bearing(w) => Bearing(v)
  BY Zenon DEF Bearing
<1> QED BY Zenon, <1>1, <1>2, <1>3 DEF Tags

\* A process that stops knows nothing.
LEMMA IdleTags == Tags(Idle)
  BY DEF Tags, Idle, Bearing

\* The steps that neither append, nor store an image, nor take a new offset.
LEMMA TagsQuiet ==
  ASSUME TagInv, Sane', NEW p \in Procs,
         \/ \E s \in SessionIds : NewSession(p, s)
         \/ Retry(p) \/ ReadEnd(p) \/ ReplayDone(p) \/ Exit(p)
         \/ Claim(p) \/ Renew(p) \/ Unmount(p) \/ Crash(p) \/ CommitFails(p)
         \/ SaveFails(p) \/ \E o \in Ops : Commit(p, o)
  PROVE  TagInv'
<1> DEFINE v == proc[p]
<1>0. /\ v \in Proc /\ Shape(v) /\ Tags(v) /\ TypeOK /\ v.upper \in Upper
      /\ v.seq \in Nat
  BY Zenon, TagFields
<1> HIDE DEF v
<1>1. ASSUME NEW s \in SessionIds, NewSession(p, s) PROVE TagInv'
  <2> DEFINE w == [Idle EXCEPT !.pc = "append", !.role = "mount", !.sid = s,
                               !.op = Start]
  <2>1. Tags(w)
    BY ConstantsAssumption DEF Tags, Idle, Bearing
  <2> QED BY Zenon, <1>1, TagsLocal, <2>1 DEF NewSession, broker
<1>2. CASE Retry(p)
  <2> DEFINE w == [v EXCEPT !.pc = "append", !.off = 0]
  <2>1. Tags(w)
    BY ZenonT(30), <1>0, <1>2 DEF Retry, v, Tags, Bearing, Proc
  <2> QED BY Zenon, <1>2, TagsLocal, <2>1 DEF Retry, v, broker, remote
<1>3. CASE ReadEnd(p)
  <2>1. PICK c, l : Becomes(p, [v EXCEPT !.pc = "replay", !.cursor = c,
                                         !.limit = l])
    BY Zenon, <1>3 DEF ReadEnd, v
  <2> DEFINE w == [v EXCEPT !.pc = "replay", !.cursor = c, !.limit = l]
  <2>2. Tags(w)
    BY Zenon, <1>0, <1>3 DEF ReadEnd, v, Tags, Bearing, Proc
  <2> QED BY Zenon, <1>3, TagsLocal, <2>1, <2>2 DEF ReadEnd, broker, remote
<1>4. CASE ReplayDone(p)
  <2>1. PICK c \in {"replayed", "loaded"} :
          Becomes(p, [v EXCEPT !.pc = c, !.seq = v.upper.seqLast,
                               !.cursor = 0, !.limit = 0])
    BY Zenon, <1>4 DEF ReplayDone, v
  <2> DEFINE w == [v EXCEPT !.pc = c, !.seq = v.upper.seqLast,
                            !.cursor = 0, !.limit = 0]
  <2>2. Tags(w)
    BY ZenonT(30), <1>0, <1>4 DEF ReplayDone, v, Tags, Bearing, Proc
  <2> QED BY Zenon, <1>4, TagsLocal, <2>1, <2>2 DEF ReplayDone, broker, remote
<1>5. CASE Exit(p) \/ Unmount(p) \/ Crash(p)
  BY Zenon, <1>5, TagsLocal, IdleTags DEF Exit, Unmount, Crash, broker, remote
<1>6. CASE Claim(p)
  <2> DEFINE w == [v EXCEPT !.pc = "open"]
  <2>1. Tags(w)
    BY Zenon, <1>0, <1>6 DEF Claim, v, Tags, Bearing, Proc
  <2> QED BY Zenon, <1>6, TagsLocal, <2>1 DEF Claim, v, broker
<1>7. CASE Renew(p)
  <2> DEFINE w == [v EXCEPT !.leaseLost = TRUE]
  <2>1. Tags(w)
    BY Zenon, <1>0, SameTags DEF Proc
  <2>2. CASE Becomes(p, w)
    BY Zenon, <1>7, TagsLocal, <2>1, <2>2 DEF Renew, broker
  <2>3. CASE proc' = proc
    BY Zenon, <1>0, <1>7, <2>3, StillGrown, TagsRest DEF Renew, broker
  <2> QED BY Zenon, <1>7, <2>2, <2>3 DEF Renew, v
<1>8. CASE CommitFails(p)
  <2> DEFINE w == [v EXCEPT !.pc = "open", !.op = NoOp, !.off = 0,
                            !.diverged = TRUE, !.lastOffset = -1]
  <2>1. Tags(w)
    BY <1>0 DEF Tags, Bearing, Proc
  <2> QED BY Zenon, <1>8, TagsLocal, <2>1 DEF CommitFails, v, remote
<1>9. CASE SaveFails(p)
  <2> DEFINE w == [v EXCEPT !.ckptOff = -1, !.ckptUpper = New]
  <2>1. Tags(w)
    BY Zenon, <1>0, SameTags DEF Proc
  <2> QED BY Zenon, <1>9, TagsLocal, <2>1 DEF SaveFails, v, broker, remote
<1>10. ASSUME NEW o \in Ops, Commit(p, o) PROVE TagInv'
  <2> DEFINE w == [v EXCEPT !.pc = "append", !.op = o, !.seq = @ + 1]
  <2>0. v.pc = "open" /\ ~v.diverged /\ Check(v.upper.tree, o)
    BY Zenon, <1>10 DEF Commit, Fenced, v
  <2>1. Tags(w)
    BY Zenon, <1>0, <2>0 DEF Tags, Bearing, Shape, Proc
  <2> QED BY Zenon, <1>10, TagsLocal, <2>1 DEF Commit, v, broker, remote
<1> QED BY Zenon, <1>1, <1>2, <1>3, <1>4, <1>5, <1>6, <1>7, <1>8, <1>9, <1>10

\* The steps that take a new offset: the record there is the one applied.
LEMMA TagsOffset ==
  ASSUME TagInv, Sane', NEW p \in Procs,
         \/ AckStart(p) \/ AckCommit(p) \/ AckChild(p) \/ Replay(p)
         \/ Snapshot(p)
  PROVE  TagInv'
<1> DEFINE v == proc[p]
<1>0. /\ v \in Proc /\ Shape(v) /\ Tags(v) /\ TypeOK /\ v.upper \in Upper
      /\ v.seq \in Nat /\ v.cursor \in Nat /\ v.limit \in Nat /\ v.off \in Nat
  BY Zenon, TagFields
<1>g. UNCHANGED <<log, lineage, images>>
  BY Zenon DEF AckStart, AckCommit, AckChild, Replay, Snapshot, broker, remote
<1>d. ASSUME v.pc = "sent"
      PROVE  /\ v.off < Len(LogOf(Target(v)))
             /\ LogOf(Target(v))[v.off + 1] = Appends(v)
             /\ Appends(v) = Pending(p)
  BY Zenon, <1>0, <1>d DEF Tags, Durable, Appends, Pending, Target, v
<1> HIDE DEF v
<1>1. CASE AckStart(p)
  <2>0. v.pc = "sent" /\ v.op = Start /\ v.role = "mount"
    BY Zenon, <1>1 DEF AckStart, v
  <2> DEFINE u == Apply(v.upper, Pending(p))
             w == [v EXCEPT !.pc = "loaded", !.op = NoOp, !.seq = 1,
                            !.lastOffset = v.off, !.off = 0, !.upper = u]
  <2>1. u.seqLast = 1 /\ Appends(v).seq = 1 /\ Appends(v).key = v.sid
        /\ Target(v) = v.sid
    BY <1>d, <2>0 DEF Apply, Appends, Target
  <2>2. Tagged(v.sid, v.off, u)
    BY Zenon, <1>d, <2>0, <2>1 DEF Tagged
  <2>3. Becomes(p, w)
    BY Zenon, <1>1 DEF AckStart, v
  <2> HIDE DEF u
  <2>4. Tags(w)
    BY Zenon, <1>0, <2>0, <2>1, <2>2 DEF Tags, Bearing, Proc
  <2> QED BY Zenon, <1>g, TagsLocal, <2>3, <2>4
<1>2. CASE AckCommit(p)
  <2>0. v.pc = "sent" /\ v.op \in Ops /\ v.role = "mount" /\ v.op # Start
    BY ZenonT(30), <1>0, <1>2, ConstantsAssumption DEF AckCommit, v, Shape
  <2> DEFINE u == Apply(v.upper, Pending(p))
             w == [v EXCEPT !.pc = "open", !.op = NoOp, !.lastOffset = v.off,
                            !.off = 0, !.upper = u]
  <2>1. /\ u.seqLast = v.seq /\ Appends(v).seq = v.seq
        /\ Appends(v).key = v.sid /\ Target(v) = v.sid
    BY <1>d, <2>0 DEF Apply, Appends, Target
  <2>2. Tagged(v.sid, v.off, u)
    BY Zenon, <1>d, <2>0, <2>1 DEF Tagged
  <2>3. Accepts(v.upper, Pending(p))
    <3>1. v.seq = v.upper.seqLast + 1 /\ Check(v.upper.tree, v.op)
      BY Zenon, <1>0, <2>0 DEF Tags
    <3>2. v.seq > v.upper.seqLast
      BY <1>0, <3>1 DEF Upper
    <3>3. Pending(p).seq = v.seq /\ Pending(p).op = v.op
      BY Zenon, <2>0 DEF Pending, v
    <3> QED BY Zenon, <3>1, <3>2, <3>3 DEF Accepts
  <2>4. Becomes(p, w)
    BY Zenon, <1>2, <2>3 DEF AckCommit, v
  <2> HIDE DEF u
  <2>5. Tags(w)
    BY Zenon, <1>0, <2>0, <2>1, <2>2 DEF Tags, Bearing, Proc
  <2> QED BY Zenon, <1>g, TagsLocal, <2>4, <2>5
<1>3. CASE AckChild(p)
  <2>0. v.pc = "sent" /\ v.op = Start /\ v.role = "branch" /\ Bearing(v)
    BY Zenon, <1>3 DEF AckChild, v, Bearing
  <2> DEFINE w == [v EXCEPT !.pc = "image", !.op = NoOp]
  <2>1. Target(v) = v.child /\ Appends(v).key = v.child /\ Appends(v).op = Start
    BY Zenon, <2>0 DEF Appends, Target
  <2>2. IsBirth(Appends(v))
    BY Zenon, <1>0, <2>0, <2>1 DEF IsBirth, Tags
  <2>3. Tagged(v.child, v.off, v.upper)
    BY Zenon, <1>d, <2>0, <2>1, <2>2 DEF Tagged
  <2>4. Becomes(p, w)
    BY Zenon, <1>3 DEF AckChild, v
  <2>5. Tags(w)
    BY Zenon, <1>0, <2>0, <2>3 DEF Tags, Bearing, Proc
  <2> QED BY Zenon, <1>g, TagsLocal, <2>4, <2>5
<1>4. CASE Replay(p)
  <2> DEFINE r == LogOf(v.sid)[v.cursor + 1]
             u == Apply(v.upper, r)
             x == [v EXCEPT !.cursor = @ + 1]
             w == [v EXCEPT !.cursor = @ + 1, !.lastOffset = v.cursor,
                            !.upper = u]
  <2>0. v.pc = "replay" /\ v.cursor < v.limit /\ v.limit <= Len(LogOf(v.sid))
        /\ v.sid \in SessionIds
    BY Zenon, <1>0, <1>4 DEF Replay, v, Shape
  <2>1. CASE Becomes(p, x)
    <3>1. Tags(x)
      BY Zenon, <1>0, SameTags DEF Proc
    <3> QED BY Zenon, <1>g, TagsLocal, <2>1, <3>1
  <2>2. CASE r.key = v.sid /\ Becomes(p, w)
    <3>1. u.seqLast = r.seq
      BY Zenon DEF Apply
    <3>2. v.cursor < Len(LogOf(v.sid))
      <4>1. Len(LogOf(v.sid)) \in Nat
        BY <1>0, <2>0, ConstantsAssumption DEF TypeOK, LogOf
      <4> QED BY SMTT(30), <1>0, <2>0, <4>1
    <3>3. Tagged(v.sid, v.cursor, u)
      BY Zenon, <2>2, <3>1, <3>2 DEF Tagged
    <3> HIDE DEF u
    <3>4. Tags(w)
      BY Zenon, <1>0, <2>0, <3>3 DEF Tags, Bearing, Proc
    <3> QED BY Zenon, <1>g, TagsLocal, <2>2, <3>4
  <2>3. CASE Becomes(p, Idle)
    BY Zenon, <1>g, TagsLocal, <2>3, IdleTags
  <2> QED BY Zenon, <1>4, <2>1, <2>2, <2>3 DEF Replay, v
<1>5. CASE Snapshot(p)
  <2> DEFINE w == [v EXCEPT !.ckptOff = v.lastOffset, !.ckptUpper = v.upper]
  <2>1. Becomes(p, w)
    BY Zenon, <1>5 DEF Snapshot, v
  <2>2. Durable(v) => Durable(w)
    BY Zenon, <1>0 DEF Durable, Appends, Target, Proc
  <2>3. Tags(w)
    BY Zenon, <1>0, <2>2 DEF Tags, Bearing, Proc
  <2> QED BY Zenon, <1>g, TagsLocal, <2>1, <2>3
<1> QED BY Zenon, <1>1, <1>2, <1>3, <1>4, <1>5

\* RestoreUpper starts from an image whose tag is right, or from nothing.
LEMMA TagsRestore ==
  ASSUME TagInv, Sane', NEW p \in Procs, NEW s \in SessionIds, NEW role, NEW to,
         Restore(p, s, role, to), UNCHANGED <<broker, remote>>
  PROVE  TagInv'
<1> DEFINE From(u, n) == [Idle EXCEPT !.pc = "read", !.role = role, !.sid = s,
                            !.to = to, !.upper = u, !.cursor = n,
                            !.lastOffset = n - 1, !.savedOffset = n - 1]
<1>g. UNCHANGED <<log, lineage, images>>
  BY ZenonT(30) DEF broker, remote
<1>1. ASSUME NEW u, NEW n \in Nat, n > 0 => Tagged(s, n - 1, u)
      PROVE  Tags(From(u, n))
  <2>1. n - 1 >= 0 => n > 0
    OBVIOUS
  <2>2. /\ From(u, n).pc = "read" /\ From(u, n).sid = s
        /\ From(u, n).upper = u /\ From(u, n).lastOffset = n - 1
        /\ From(u, n).ckptOff = -1
    BY Zenon DEF Idle
  <2> HIDE DEF From
  <2>3. ~(-1 >= 0)
    OBVIOUS
  <2> QED BY ZenonT(30), <1>1, <2>1, <2>2, <2>3 DEF Tags, Bearing
<1>2. CASE Becomes(p, From(New, 0))
  <2>1. 0 \in Nat /\ ~(0 > 0)
    OBVIOUS
  <2>2. Tags(From(New, 0))
    BY Zenon, <1>1, <2>1
  <2> QED BY Zenon, <1>g, TagsLocal, <1>2, <2>2
<1>3. ASSUME NEW i \in images[s], Becomes(p, From(i.upper, i.off + 1))
      PROVE  TagInv'
  <2>1. i.off \in Nat
    BY DEF TagInv, Sane, TypeOK, Image
  <2>2. i.off + 1 \in Nat /\ (i.off + 1) - 1 = i.off
    BY <2>1
  <2>3. Tagged(s, i.off, i.upper)
    BY Zenon DEF TagInv, ImageTagged, Tagged
  <2>4. Tags(From(i.upper, i.off + 1))
    BY Zenon, <1>1, <2>2, <2>3
  <2> QED BY Zenon, <1>g, TagsLocal, <1>3, <2>4
<1> QED BY Zenon, <1>2, <1>3 DEF Restore

\* The broker persists the record of p: it is at the offset p is told.
LEMMA TagsProduce ==
  ASSUME TagInv, Sane', NEW p \in Procs, Produce(p)
  PROVE  TagInv'
<1>0. PICK v \in Proc : v = proc[p] /\ Shape(v) /\ Tags(v) /\ v.pc = "append"
  BY Zenon, TagFields DEF Produce
<1>t. TypeOK /\ TypeOK'
  BY Zenon DEF TagInv, Sane
<1>1. PICK r \in Record : r = Pending(p)
  BY Zenon, <1>0, PendingType DEF TagInv
<1>2. PICK n : n = Len(LogOf(r.key))
  BY Zenon
<1>3. Grown /\ n \in Nat /\ Len(LogOf(r.key)') = n + 1 /\ LogOf(r.key)'[n + 1] = r
  <2>1. Persist(r) /\ lineage' = lineage
    BY Zenon, <1>1 DEF Produce, remote
  <2> QED BY Zenon, <1>t, <1>2, <2>1, PersistGrown
<1>4. r = Appends(v) /\ r.key = Target(v)
  BY Zenon, <1>0, <1>1 DEF Pending, Appends, Target
<1>5. PICK w : w = [v EXCEPT !.pc = "sent", !.off = n]
  BY Zenon
<1>6. Becomes(p, w) /\ images' = images
  BY Zenon, <1>0, <1>1, <1>2, <1>5 DEF Produce, remote
<1>7. /\ w.pc = "sent" /\ w.off = n /\ w.role = v.role /\ w.sid = v.sid
      /\ w.child = v.child /\ w.op = v.op /\ w.seq = v.seq /\ w.upper = v.upper
      /\ w.lastOffset = v.lastOffset /\ w.ckptOff = v.ckptOff
      /\ w.ckptUpper = v.ckptUpper
  BY Zenon, <1>5 DEF Proc
<1>8. Tags(v)'
  BY Zenon, <1>0, <1>t, <1>3, TagsGrown
<1>9. Durable(w)'
  <2>1. Appends(w) = r /\ Target(w) = r.key
    BY Zenon, <1>4, <1>7 DEF Appends, Target
  <2>2. w.off < Len(LogOf(r.key)') /\ LogOf(r.key)'[w.off + 1] = r
    BY <1>3, <1>7
  <2> QED BY Zenon, <2>1, <2>2 DEF Durable
<1>10. Tags(w)'
  BY Zenon, <1>0, <1>7, <1>8, <1>9 DEF Tags, Bearing
<1> QED BY Zenon, <1>3, <1>6, <1>10, TagsStep

\* Branch registers the child before it appends for it.
LEMMA TagsRegister ==
  ASSUME TagInv, Sane', NEW p \in Procs, NEW c \in SessionIds,
         RegisterChild(p, c)
  PROVE  TagInv'
<1>0. PICK v \in Proc : v = proc[p] /\ Shape(v) /\ Tags(v) /\ v.pc = "replayed"
  BY Zenon, TagFields DEF RegisterChild
<1>t. TypeOK /\ TypeOK'
  BY Zenon DEF TagInv, Sane
<1>1. v.sid # NoSession
  BY Zenon, <1>0, ConstantsAssumption DEF Shape
<1>2. /\ lineage'[c].parent = v.sid
      /\ \A s \in SessionIds : s # c => lineage'[s] = lineage[s]
  BY Zenon, <1>0, <1>t DEF RegisterChild, TypeOK
<1>3. PICK w : w = [v EXCEPT !.pc = "append", !.child = c, !.op = Start]
  BY Zenon
<1>4. log' = log /\ images' = images /\ Becomes(p, w)
  BY Zenon, <1>0, <1>3 DEF RegisterChild, broker
<1>5. Grown
  <2>1. \A q \in Partitions : Len(log[q]) <= Len(log'[q])
    BY <1>t, <1>4 DEF TypeOK
  <2> QED BY Zenon, <1>1, <1>2, <1>4, <2>1 DEF Grown
<1>6. Tags(v)'
  BY Zenon, <1>0, <1>t, <1>5, TagsGrown
<1>7. /\ w.pc = "append" /\ w.op = Start /\ w.child = c /\ w.sid = v.sid
      /\ w.upper = v.upper /\ w.lastOffset = v.lastOffset
      /\ w.ckptOff = v.ckptOff /\ w.ckptUpper = v.ckptUpper
  BY Zenon, <1>3 DEF Proc
<1>8. Tags(w)'
  <2>1. w.op \notin Ops
    BY Zenon, <1>7, ConstantsAssumption
  <2>2. Tagged(w.sid, w.lastOffset, w.upper)' \/ ~(w.lastOffset >= 0)
    BY Zenon, <1>6, <1>7 DEF Tags, Tagged
  <2>3. Tagged(w.sid, w.ckptOff, w.ckptUpper)' \/ ~(w.ckptOff >= 0)
    BY Zenon, <1>6, <1>7 DEF Tags, Tagged
  <2> QED BY Zenon, <1>1, <1>2, <1>7, <2>1, <2>2, <2>3 DEF Tags
<1> QED BY Zenon, <1>4, <1>5, <1>8, TagsStep

\* An offset that is not the -1 of "none" is a natural number.
LEMMA OffsetNat == \A k \in Int : k >= 0 => k \in Nat
  OBVIOUS

\* The uploads: the image carries the tag its process vouches for.
LEMMA TagsSave ==
  ASSUME TagInv, Sane', NEW p \in Procs, SaveBirth(p) \/ SaveImage(p)
  PROVE  TagInv'
<1> DEFINE v == proc[p]
<1>0. /\ v \in Proc /\ Shape(v) /\ Tags(v) /\ TypeOK /\ v.upper \in Upper
      /\ v.off \in Nat /\ v.ckptOff \in Int /\ v.ckptUpper \in Upper
  BY Zenon, TagFields DEF Proc
<1>1. UNCHANGED <<log, lineage>> /\ Grown
  BY Zenon, <1>0, StillGrown DEF SaveBirth, SaveImage, broker
<1>2. ASSUME NEW x, Tags(x) PROVE Tags(x)' \/ ~UNCHANGED <<log, lineage>>
  BY Zenon, <1>2 DEF Tags, Tagged, Durable, IsBirth, LogOf
<1> HIDE DEF v
<1>3. CASE SaveBirth(p)
  <2>1. v.pc = "image" /\ PutImage(v.child, v.off, v.upper) /\ Becomes(p, Idle)
    BY Zenon, <1>3 DEF SaveBirth, v
  <2>2. v.child \in SessionIds /\ Tagged(v.child, v.off, v.upper)
    BY Zenon, <1>0, <2>1 DEF Shape, Bearing, Tags
  <2>3. Tags(Idle)'
    BY Zenon, <1>1, <1>2, IdleTags
  <2> QED BY Zenon, <1>0, <1>1, <2>1, <2>2, <2>3, TagsStep
<1>4. CASE SaveImage(p)
  <2>0. PICK w, x : /\ w = [v EXCEPT !.savedOffset = v.ckptOff, !.ckptOff = -1,
                                      !.ckptUpper = New]
                    /\ x = [v EXCEPT !.ckptOff = -1, !.ckptUpper = New]
    BY Zenon
  <2>1. v.ckptOff >= 0 /\ PutImage(v.sid, v.ckptOff, v.ckptUpper)
    BY ZenonT(30), <1>4 DEF SaveImage, v
  <2>2. v.sid \in SessionIds /\ Tagged(v.sid, v.ckptOff, v.ckptUpper)
    <3>1. v.role \in {"mount", "tool"}
      BY Zenon, <1>0, <2>1 DEF Shape
    <3>2. v # Idle
      <4>1. Idle.role = "none"
        BY Zenon DEF Idle
      <4> QED BY Zenon, <3>1, <4>1
    <3> QED BY Zenon, <1>0, <2>1, <3>2 DEF Shape, Tags
  <2>3. Tags(w) /\ Tags(x)
    BY Zenon, <1>0, <2>0, SameTags DEF Proc
  <2>4. Becomes(p, w) \/ Becomes(p, x)
    BY Zenon, <1>4, <2>0 DEF SaveImage, v
  <2>5. v.ckptOff \in Nat
    BY Zenon, <1>0, <2>1, OffsetNat
  <2>6. Tags(w)' /\ Tags(x)'
    BY Zenon, <1>1, <1>2, <2>3
  <2> QED BY Zenon, <1>0, <1>1, <2>1, <2>2, <2>4, <2>5, <2>6, TagsStep
<1> QED BY Zenon, <1>3, <1>4

\* Every step of every process and of the environment keeps TagInv.
LEMMA TagsNext == TagInv /\ [Next]_vars => TagInv'
<1> SUFFICES ASSUME TagInv, [Next]_vars PROVE TagInv'
  BY Zenon
<1>0. Sane' /\ TypeOK
  BY Zenon, SaneNext DEF TagInv, Sane
<1>1. ASSUME NEW p \in Procs, Step(p) PROVE TagInv'
  <2>1. ASSUME NEW s \in SessionIds, NEW role \in {"mount", "tool"},
               Open(p, s, role)
        PROVE  TagInv'
    BY Zenon, <1>0, <2>1, TagsRestore DEF Open
  <2>2. ASSUME NEW s \in SessionIds, NEW to \in -1 .. MaxLog, Branch(p, s, to)
        PROVE  TagInv'
    BY Zenon, <1>0, <2>2, TagsRestore DEF Branch
  <2>3. ASSUME NEW o \in Writes, PutBlob(p, o) PROVE TagInv'
    BY Zenon, <1>0, <2>3, StillGrown, TagsRest DEF PutBlob, broker
  <2>4. ASSUME NEW c \in SessionIds, RegisterChild(p, c) PROVE TagInv'
    BY Zenon, <1>0, <2>4, TagsRegister
  <2>5. CASE Produce(p) \/ SaveBirth(p) \/ SaveImage(p)
    BY Zenon, <1>0, <2>5, TagsProduce, TagsSave
  <2>6. CASE \/ AckStart(p) \/ AckCommit(p) \/ AckChild(p) \/ Replay(p)
             \/ Snapshot(p)
    BY Zenon, <1>0, <2>6, TagsOffset
  <2>7. CASE \/ \E s \in SessionIds : NewSession(p, s)
             \/ Retry(p) \/ ReadEnd(p) \/ ReplayDone(p) \/ Exit(p)
             \/ Claim(p) \/ Renew(p) \/ Unmount(p) \/ Crash(p)
             \/ CommitFails(p) \/ SaveFails(p)
             \/ \E o \in Ops : Commit(p, o)
    BY Zenon, <1>0, <2>7, TagsQuiet
  <2> QED BY Zenon, <1>1, <2>1, <2>2, <2>3, <2>4, <2>5, <2>6, <2>7 DEF Step
<1>2. ASSUME NEW s \in SessionIds, ExpireLease(s) PROVE TagInv'
  BY Zenon, <1>0, <1>2, StillGrown, TagsRest DEF ExpireLease, broker
<1>3. ASSUME NEW r \in limbo, Land(r) PROVE TagInv'
  <2>1. r \in Record
    BY Zenon, <1>0 DEF TypeOK
  <2> QED BY Zenon, <1>0, <1>3, <2>1, PersistGrown, TagsRest DEF Land, remote
<1>4. ASSUME NEW q \in Partitions, Trim(q) PROVE TagInv'
  BY Zenon, <1>0, <1>4, StillGrown, TagsRest DEF Trim, remote
<1>5. CASE UNCHANGED vars
  BY Zenon, <1>0, <1>5, StillGrown, TagsRest DEF vars, broker, remote
<1> QED BY Zenon, <1>1, <1>2, <1>3, <1>4, <1>5 DEF Next

\* Nothing is stored and every process is idle.
LEMMA TagsInit == Init => TagInv
<1> SUFFICES ASSUME Init PROVE TagInv
  BY Zenon
<1>1. Sane
  BY Zenon, SaneInit
<1>2. ImageTagged
  BY Zenon DEF Init, ImageTagged
<1>3. ASSUME NEW p \in Procs PROVE Tags(proc[p])
  BY Zenon, IdleTags DEF Init
<1> QED BY Zenon, <1>1, <1>2, <1>3 DEF TagInv

\* Whatever the environment does, a state image never claims a record its
\* state has not applied, so a resume from it skips nothing it lacks
\* (Checkpoint takes offset and state together, commitLocked covers an offset
\* only with the state it acknowledged, Branch).
THEOREM ImagesTagged == Spec => []ImageTagged
<1>1. TagInv => ImageTagged
  BY Zenon DEF TagInv
<1> QED BY <1>1, TagsInit, TagsNext, PTL DEF Spec
============================================================================
