--------------------------- MODULE SessionMoves ----------------------------
(***************************************************************************)
(* IInv survives the steps that append no record: those that take an       *)
(* unused id, those in which a process changes nothing but its own record  *)
(* and the lease, those that rebuild a session object, from the image it   *)
(* starts from and record by record, and those that store such an image.   *)
(***************************************************************************)
EXTENDS SessionProofs

(* Steps that take an unused id *)

\* No process is about an id that no session has.
LEMMA BusyIsListed ==
  ASSUME IInv, NEW q \in Procs
  PROVE  /\ proc[q].pc # "idle" => proc[q].sid \in listed
         /\ Mounting(q) => proc[q].sid \in listed
         /\ Bearing(proc[q]) => proc[q].child \in listed
<1>1. proc[q].pc = "idle" => proc[q] = Idle
  BY Zenon DEF IInv, Sane, Shape
<1>2. Idle.role = "none" /\ Idle.pc = "idle"
  BY Zenon DEF Idle
<1>3. proc[q].pc # "idle" => Good(proc[q])
  BY Zenon DEF IInv, ProcSound
<1> QED BY Zenon, <1>1, <1>2, <1>3 DEF Good, Holds, Bears, Mounting, Bearing

\* A process stays sound when an id it is not about is taken.
LEMMA GoodAdopt ==
  ASSUME IInv, NEW v \in Proc, Shape(v), v.pc # "idle", Good(v), NEW c,
         c \in SessionIds \ listed, listed' = listed \cup {c},
         \A s \in SessionIds \ {c} : lineage'[s] = lineage[s],
         UNCHANGED <<log, truth, images>>
  PROVE  Good(v)'
<1>1. v.sid \in SessionIds \ {c} /\ Len(LogOf(v.sid)) \in Nat
  BY Zenon, Located DEF Good, Holds
<1>2. Bearing(v) => v.child \in SessionIds \ {c} /\ Len(LogOf(v.child)) \in Nat
  BY Zenon, LocatedChild DEF Good, Bears
<1>3. ASSUME NEW s \in SessionIds \ {c}, Len(LogOf(s)) \in Nat
      PROVE  Longer(s) /\ NoNewBirth(s)
  BY <1>3 DEF Longer, NoNewBirth, BirthAt, IsBirth, LogOf
<1>4. Supports(v)
  BY Zenon, <1>1, <1>2, <1>3 DEF Supports, Grows, Current, Silent, LogOf
<1>5. LogOf(v.sid)' = LogOf(v.sid) /\ LogOf(v.child)' = LogOf(v.child)
  BY Zenon DEF LogOf
<1> QED BY Zenon, <1>1, <1>2, <1>4, <1>5, GoodKept DEF IInv, Sane

\* A step that lists an id nobody used.
LEMMA IInvAdopt ==
  ASSUME IInv, Sane', NEW p \in Procs, NEW w \in Proc, Becomes(p, w), NEW c,
         c \in SessionIds \ listed, listed' = listed \cup {c},
         \A s \in SessionIds \ {c} : lineage'[s] = lineage[s],
         UNCHANGED <<log, oldest, limbo, truth, poisoned, images>>,
         Good(w)', LineageSound', Alone(p, w)
  PROVE  IInv'
<1>1. images[c] = {} /\ Silent(c)
  BY Zenon DEF IInv, UnusedIds
<1>2. \A s \in SessionIds : LogOf(s)' = LogOf(s)
  BY Zenon DEF LogOf
<1>3. ASSUME NEW s \in SessionIds \ {c}, NEW n
      PROVE  /\ BirthAt(s, n)' <=> BirthAt(s, n)
             /\ LogOf(s)[n].key = s => (IsBirth(LogOf(s)[n])' <=> IsBirth(LogOf(s)[n]))
  BY Zenon DEF BirthAt, IsBirth, LogOf
<1>4. Calm'
  BY Zenon DEF IInv, Calm
<1>5. TruthIsReplay'
  <2> SUFFICES ASSUME NEW s \in SessionIds
               PROVE  /\ Len(truth[s]) = Len(LogOf(s)) + 1
                      /\ truth[s][1] = New
                      /\ \A n \in 1 .. Len(LogOf(s)) :
                           LET r == LogOf(s)[n] IN
                           /\ r.key # s => truth[s][n + 1] = truth[s][n]
                           /\ BirthAt(s, n)' => truth[s][n + 1] = lineage'[s].birth
                           /\ r.key = s /\ ~IsBirth(r)' =>
                                /\ Accepts(truth[s][n], r)
                                /\ truth[s][n + 1] = Apply(truth[s][n], r)
    BY SMTT(30), <1>2 DEF TruthIsReplay
  <2>1. CASE s # c
    BY SMTT(30), <1>3, <2>1 DEF IInv, TruthIsReplay, LogOf
  <2>2. CASE s = c
    BY SMTT(30), <1>1, <1>2, <2>2 DEF IInv, TruthIsReplay, Silent, BirthAt
  <2> QED BY Zenon, <2>1, <2>2
<1>6. UnusedIds'
  <2> SUFFICES ASSUME NEW s \in SessionIds \ listed'
               PROVE  /\ images'[s] = {} /\ lineage'[s] = NoLineage
                      /\ Silent(s)' /\ Current(s)' = New
    BY Zenon DEF UnusedIds
  <2>1. s \in SessionIds \ listed /\ s # c
    BY Zenon
  <2> QED BY Zenon, <2>1 DEF IInv, UnusedIds, Silent, Current, LogOf
<1>7. ImagesSound'
  <2> SUFFICES ASSUME NEW s \in SessionIds
               PROVE  /\ \A i \in images[s] :
                           /\ i.off < Len(LogOf(s))
                           /\ i.upper = truth[s][i.off + 2]
                           /\ BornBy(s, i.off + 1)'
                      /\ \A m \in 1 .. Len(LogOf(s)) :
                           BirthAt(s, m)' /\ images[s] # {} =>
                             \E i \in images[s] : i.off + 1 = m
    BY Zenon, <1>2 DEF ImagesSound
  <2>1. CASE s # c
    <3>1. ASSUME NEW n PROVE BornBy(s, n) => BornBy(s, n)'
      BY Zenon, <1>2, <1>3, <2>1 DEF BornBy
    <3> QED BY Zenon, <1>3, <2>1, <3>1 DEF IInv, ImagesSound
  <2>2. CASE s = c
    BY Zenon, <1>1, <2>2
  <2> QED BY Zenon, <2>1, <2>2
<1>8. Exclusive'
  BY Zenon, ExclusiveKept DEF IInv
<1>9. ProcSound'
  <2> SUFFICES ASSUME NEW q \in Procs, proc'[q].pc # "idle"
               PROVE  Good(proc[q])'
    BY Zenon DEF ProcSound
  <2>1. PICK v \in Proc : v = proc'[q]
    BY Zenon DEF Sane, TypeOK
  <2>2. CASE q = p
    <3>1. v = w
      BY Zenon, <2>1, <2>2, Moved
    <3> QED BY Zenon, <2>1, <3>1, GoodAt
  <2>3. CASE q # p
    <3>1. v = proc[q]
      BY Zenon, <2>1, <2>3, Moved
    <3>2. Good(v)'
      BY Zenon, <2>1, <3>1, GoodAdopt DEF IInv, Sane, ProcSound
    <3> QED BY Zenon, <2>1, <3>2, GoodAt
  <2> QED BY Zenon, <2>2, <2>3
<1> QED BY Zenon, <1>4, <1>5, <1>6, <1>7, <1>8, <1>9 DEF IInv

\* NewSession lists an unused id.
LEMMA IInvNewSession ==
  ASSUME IInv, Sane', NEW p \in Procs, NEW s \in SessionIds, NewSession(p, s)
  PROVE  IInv'
<1> DEFINE w == [Idle EXCEPT !.pc = "append", !.role = "mount", !.sid = s,
                             !.op = Start]
<1>1. Becomes(p, w) /\ s \notin listed /\ listed' = listed \cup {s}
  BY Zenon DEF NewSession
<1>2. UNCHANGED <<log, oldest, limbo, truth, poisoned, images, lineage>>
  BY Zenon DEF NewSession, broker
<1>3. w \in Proc
  BY Zenon, <1>1, MoveType
<1>4. /\ w.pc = "append" /\ w.role = "mount" /\ w.sid = s /\ w.op = Start
      /\ w.upper = New /\ w.lastOffset = -1 /\ w.to = -1
      /\ w.diverged = FALSE /\ w.ckptOff = -1
  BY Zenon DEF Idle
<1> HIDE DEF w
<1>5. /\ Len(LogOf(s)) \in Nat /\ truth[s][1] = New /\ Current(s) = New
      /\ lineage[s].parent = NoSession
  BY <1>1, SessionType DEF IInv, Sane, TruthIsReplay, UnusedIds, NoLineage
<1>6. LogOf(s)' = LogOf(s) /\ Current(s)' = New
  BY Zenon, <1>2, <1>5 DEF LogOf, Current
<1>7. Holds(w)'
  <2>1. BornBy(s, 0)'
    BY Zenon, <1>2, <1>5 DEF BornBy, BirthAt, IsBirth
  <2>2. -1 < Len(LogOf(s)) /\ -1 + 2 = 1 /\ -1 + 1 = 0 /\ -1 >= -1
    BY <1>5
  <2> QED BY Zenon, <1>1, <1>2, <1>4, <1>5, <1>6, <2>1, <2>2 DEF Holds
<1>8. Replays(w)' /\ Bears(w)' /\ Uploads(w)'
  BY <1>4 DEF Replays, Bears, Bearing, Uploads
<1>9. Owns(w)'
  BY Zenon, <1>2, <1>4, <1>5, <1>6, ConstantsAssumption DEF Owns
<1>10. Alone(p, w)
  BY Zenon, <1>1, <1>4, BusyIsListed DEF Alone, Bearing
<1>11. LineageSound'
  BY Zenon, <1>1, <1>2 DEF IInv, LineageSound, LogOf
<1> QED BY Zenon, <1>1, <1>2, <1>3, <1>7, <1>8, <1>9, <1>10, <1>11, IInvAdopt DEF Good

\* Branch lists an unused id as a child and records its lineage.
LEMMA IInvRegisterChild ==
  ASSUME IInv, Sane', NEW p \in Procs, NEW c \in SessionIds, RegisterChild(p, c)
  PROVE  IInv'
<1>0. PICK v \in Proc : v = proc[p]
  BY Zenon DEF IInv, Sane, TypeOK
<1> DEFINE l == [parent |-> v.sid, at |-> BranchAt(p), birth |-> v.upper]
           s == v.sid
<1>w. PICK w : w = [v EXCEPT !.pc = "append", !.child = c, !.op = Start]
  BY Zenon
<1>1. /\ Becomes(p, w) /\ v.pc = "replayed" /\ c \notin listed
      /\ listed' = listed \cup {c}
      /\ lineage' = [lineage EXCEPT ![c] = l]
  BY Zenon, <1>0, <1>w DEF RegisterChild
<1>2. UNCHANGED <<log, oldest, limbo, truth, poisoned, images>>
  BY Zenon DEF RegisterChild, broker
<1>3. v \in Proc /\ Shape(v) /\ Good(v) /\ w \in Proc
  BY Zenon, <1>0, <1>1, MoveType
<1>4. /\ lineage'[c] = l
      /\ \A d \in SessionIds \ {c} : lineage'[d] = lineage[d]
  BY Zenon, <1>1 DEF IInv, Sane, TypeOK
<1>5. BranchAt(p) = IF v.to >= 0 THEN v.to
                    ELSE IF v.lastOffset >= 0 THEN v.lastOffset ELSE 0
  BY Zenon, <1>0 DEF BranchAt
<1>6. /\ w.pc = "append" /\ w.role = v.role /\ w.sid = v.sid
      /\ w.child = c /\ w.to = v.to /\ w.upper = v.upper
      /\ w.lastOffset = v.lastOffset /\ w.op = Start
      /\ w.diverged = v.diverged /\ w.ckptOff = v.ckptOff
      /\ w.ckptUpper = v.ckptUpper
  BY <1>w, <1>3 DEF Proc
<1>7. /\ s \in SessionIds /\ s \in listed /\ s # NoSession
      /\ v.role = "branch" /\ ~v.diverged /\ Len(LogOf(s)) \in Nat
  <2>1. s \in SessionIds /\ Len(LogOf(s)) \in Nat
    BY Zenon, <1>1, <1>3, Located
  <2>2. s \in listed
    BY Zenon, <1>3 DEF Good, Holds
  <2>3. v.role = "branch" /\ ~v.diverged
    BY Zenon, <1>1, <1>3 DEF Shape
  <2> QED BY Zenon, <2>1, <2>2, <2>3, ConstantsAssumption
<1>8. Good(v)'
  BY Zenon, <1>1, <1>2, <1>3, <1>4, GoodAdopt
<1>9. Holds(w)'
  BY Zenon, <1>6, <1>8 DEF Good, Holds
<1>10. Replays(w)' /\ Owns(w)'
  BY Zenon, <1>6, <1>7 DEF Replays, Owns
<1>11. Uploads(w)'
  BY ZenonT(30), <1>6, <1>8 DEF Good, Uploads
<1>12. Bears(w)'
  <2>1. images'[c] = {} /\ Silent(c)'
    BY Zenon, <1>1, <1>2 DEF IInv, UnusedIds, Silent, LogOf
  <2>2. c \in listed' /\ lineage'[c].parent # NoSession /\ lineage'[c].birth = v.upper
    BY <1>1, <1>4, <1>7
  <2> QED BY ZenonT(30), <1>6, <2>1, <2>2 DEF Bears
<1>13. LineageSound'
  <2> SUFFICES ASSUME NEW d \in SessionIds, lineage'[d].parent # NoSession
               PROVE  LET k == lineage'[d] IN
                      /\ k.parent \in listed'
                      /\ \/ k.at = 0 /\ k.birth = New
                         \/ /\ k.at >= 0 /\ k.at < Len(LogOf(k.parent))
                            /\ k.birth = truth[k.parent][k.at + 2]
    BY Zenon, <1>2 DEF LineageSound, LogOf
  <2>1. CASE d # c
    BY <1>1, <1>4, <2>1 DEF IInv, LineageSound
  <2>2. CASE d = c
    <3>1. /\ v.to \in Int /\ v.lastOffset \in Int
          /\ v.to >= 0 => v.to < Len(LogOf(s)) /\ v.upper = truth[s][v.to + 2]
      BY Zenon, <1>1, <1>3, <1>7, FieldType DEF Good, Holds, Replays
    <3>2. /\ v.lastOffset >= -1 /\ v.lastOffset < Len(LogOf(s))
          /\ v.upper = truth[s][v.lastOffset + 2]
      BY Zenon, <1>3, <1>7 DEF Good, Holds
    <3>3. truth[s][1] = New
      BY Zenon, <1>7 DEF IInv, TruthIsReplay
    <3>4. v.lastOffset < 0 => v.upper = New
      BY SMTT(30), <3>1, <3>2, <3>3
    <3>5. \/ l.at = 0 /\ v.upper = New
          \/ l.at >= 0 /\ l.at < Len(LogOf(s)) /\ v.upper = truth[s][l.at + 2]
      BY <1>5, <3>1, <3>2, <3>4
    <3> QED BY <1>1, <1>4, <1>7, <2>2, <3>5
  <2> QED BY Zenon, <2>1, <2>2
<1>14. Alone(p, w)
  BY Zenon, <1>1, <1>6, <1>7, BusyIsListed DEF Alone
<1> QED BY Zenon, <1>1, <1>2, <1>3, <1>4, <1>9, <1>10, <1>11, <1>12, <1>13, <1>14, IInvAdopt
       DEF Good

----------------------------------------------------------------------------
(* Steps of one process on its own record *)

\* The acknowledgement of a SessionStart (Start).
LEMMA IInvAckStart ==
  ASSUME IInv, Sane', NEW p \in Procs, AckStart(p)
  PROVE  IInv'
<1> DEFINE v == proc[p]
           s == v.sid
<1>0. PICK w : w = [v EXCEPT !.pc = "loaded", !.op = NoOp, !.seq = 1,
                             !.lastOffset = v.off, !.off = 0,
                             !.upper = Apply(v.upper, Pending(p))]
  BY Zenon
<1>1. Becomes(p, w) /\ v.pc = "sent" /\ v.op = Start /\ v.role = "mount"
  BY Zenon, <1>0 DEF AckStart
<1>2. v \in Proc /\ Shape(v) /\ Good(v) /\ w \in Proc
  BY Zenon, <1>1, MoveType
<1>3. Pending(p) = Sends(v)
  BY Zenon, <1>1 DEF Pending, Sends
<1> HIDE DEF v
<1>4. /\ w.pc = "loaded" /\ w.role = v.role /\ w.sid = v.sid
      /\ w.child = v.child /\ w.to = v.to
      /\ w.upper = Apply(v.upper, Sends(v)) /\ w.seq = 1
      /\ w.lastOffset = v.off /\ w.cursor = v.cursor
      /\ w.limit = v.limit /\ w.op = NoOp /\ w.off = 0
      /\ w.diverged = v.diverged /\ w.ckptOff = v.ckptOff
      /\ w.ckptUpper = v.ckptUpper
  BY <1>0, <1>2, <1>3 DEF Proc
<1>5. s \in SessionIds /\ Len(LogOf(s)) \in Nat
  BY Zenon, <1>1, <1>2, Located
<1>6. /\ v.lastOffset < v.off /\ v.off < Len(LogOf(s))
      /\ truth[s][v.off + 2] = Apply(v.upper, Sends(v))
      /\ Current(s) = Apply(v.upper, Sends(v))
  BY Zenon, <1>1, <1>2 DEF Good, Owns
<1>7. Holds(w)
  <2>1. BornBy(s, v.off + 1)
    <3>1. v.to = -1 /\ ~v.diverged
      BY Zenon, <1>1, <1>2 DEF Shape
    <3>2. BornBy(s, v.lastOffset + 1)
      BY <1>2, <3>1, FieldType DEF Good, Holds
    <3>3. v.lastOffset \in Int /\ v.off \in Int
      BY <1>2, FieldType
    <3>4. v.lastOffset + 1 <= v.off + 1
      BY <1>6, <3>3
    <3> QED BY <3>2, <3>3, <3>4 DEF BornBy
  <2>2. v.sid \in listed /\ (lineage[s].parent = NoSession \/ images[s] # {})
    BY Zenon, <1>2 DEF Good, Holds
  <2>3. v.off >= -1
    BY <1>2, FieldType
  <2> QED BY Zenon, <1>1, <1>4, <1>6, <2>1, <2>2, <2>3 DEF Holds
<1>8. Replays(w) /\ Bears(w)
  BY Zenon, <1>1, <1>4 DEF Replays, Bears, Bearing
<1>9. Owns(w)
  <2>1. Apply(v.upper, Sends(v)).seqLast = 1
    BY Zenon, <1>1 DEF Apply, Sends
  <2> QED BY Zenon, <1>4, <1>6, <2>1 DEF Owns
<1>10. Uploads(w)
  BY Zenon, <1>2, <1>4, SameUploads DEF Good
<1>11. Alone(p, w)
  BY Zenon, <1>1, <1>2, <1>4, AloneKept DEF v, IInv, Bearing
<1> QED BY Zenon, <1>1, <1>2, <1>7, <1>8, <1>9, <1>10, <1>11, IInvLocal
       DEF Good, AckStart, broker, remote

\* The acknowledgement of a child's SessionStart (Branch).
LEMMA IInvAckChild ==
  ASSUME IInv, Sane', NEW p \in Procs, AckChild(p)
  PROVE  IInv'
<1> DEFINE v == proc[p]
<1>0. PICK w : w = [v EXCEPT !.pc = "image", !.op = NoOp]
  BY Zenon
<1>1. Becomes(p, w) /\ v.pc = "sent" /\ v.role = "branch"
  BY Zenon, <1>0 DEF AckChild
<1>2. v \in Proc /\ Shape(v) /\ Good(v) /\ w \in Proc
  BY Zenon, <1>1, MoveType
<1> HIDE DEF v
<1>3. /\ w.pc = "image" /\ w.role = v.role /\ w.sid = v.sid
      /\ w.child = v.child /\ w.to = v.to /\ w.upper = v.upper
      /\ w.seq = v.seq /\ w.lastOffset = v.lastOffset
      /\ w.cursor = v.cursor /\ w.limit = v.limit /\ w.op = NoOp
      /\ w.off = v.off /\ w.diverged = v.diverged
      /\ w.ckptOff = v.ckptOff /\ w.ckptUpper = v.ckptUpper
  BY <1>0, <1>2 DEF Proc
<1>4. Holds(w)
  BY Zenon, <1>2, <1>3, SameHolds DEF Good
<1>5. Replays(w) /\ Owns(w)
  BY Zenon, <1>1, <1>3 DEF Replays, Owns
<1>6. Bears(w)
  BY Zenon, <1>1, <1>2, <1>3 DEF Good, Bears, Bearing
<1>7. Uploads(w)
  BY Zenon, <1>2, <1>3, SameUploads DEF Good
<1>8. Alone(p, w)
  BY Zenon, <1>1, <1>2, <1>3, AloneKept DEF v, IInv, Bearing
<1> QED BY Zenon, <1>1, <1>2, <1>4, <1>5, <1>6, <1>7, <1>8, IInvLocal
       DEF Good, AckChild, broker, remote

\* The steps of a writer.
LEMMA IInvClaim ==
  ASSUME IInv, Sane', NEW p \in Procs, Claim(p)
  PROVE  IInv'
<1> DEFINE v == proc[p]
           s == v.sid
<1>0. PICK w : w = [v EXCEPT !.pc = "open"]
  BY Zenon
<1>1. Becomes(p, w) /\ v.pc = "loaded" /\ v.role = "mount"
  BY Zenon, <1>0 DEF Claim, Mounting
<1>2. v \in Proc /\ Shape(v) /\ Good(v) /\ w \in Proc
  BY Zenon, <1>1, MoveType
<1> HIDE DEF v
<1>4. /\ w.pc = "open" /\ w.role = v.role /\ w.sid = v.sid
      /\ w.child = v.child /\ w.to = v.to /\ w.upper = v.upper
      /\ w.seq = v.seq /\ w.lastOffset = v.lastOffset
      /\ w.cursor = v.cursor /\ w.limit = v.limit /\ w.op = v.op
      /\ w.off = v.off /\ w.diverged = v.diverged
      /\ w.ckptOff = v.ckptOff /\ w.ckptUpper = v.ckptUpper
  BY <1>0, <1>2 DEF Proc
<1>6. Holds(w)
  BY Zenon, <1>2, <1>4, SameHolds DEF Good
<1>7. Replays(w)
  BY Zenon, <1>4, NoReplay
<1>8. Owns(w)
  BY Zenon, <1>1, <1>2, <1>4 DEF Good, Owns
<1>9. Bears(w)
  BY Zenon, <1>4, NoBirth
<1>10. Uploads(w)
  BY Zenon, <1>2, <1>4, SameUploads DEF Good
<1>11. Alone(p, w)
  BY Zenon, <1>1, <1>2, <1>4, AloneKept DEF v, IInv, Bearing
<1> QED BY Zenon, <1>1, <1>2, <1>6, <1>7, <1>8, <1>9, <1>10, <1>11, IInvLocal
       DEF Good, Claim, broker

\* A process that stops.
LEMMA IInvIdle ==
  ASSUME IInv, Sane', NEW p \in Procs, Becomes(p, Idle),
         UNCHANGED <<log, oldest, limbo, truth, poisoned, images, listed, lineage>>
  PROVE  IInv'
<1>1. Idle \in Proc /\ Idle.pc = "idle"
  BY Zenon, IdleType DEF Idle
<1>2. Alone(p, Idle)
  BY Zenon, AloneIdle
<1> QED BY Zenon, <1>1, <1>2, IInvLocal

\* Exit, Unmount and Crash.
LEMMA IInvStops ==
  ASSUME IInv, Sane', Mild, NEW p \in Procs,
         Exit(p) \/ Unmount(p) \/ Crash(p)
  PROVE  IInv'
<1>1. CASE Exit(p)
  <2>1. /\ Becomes(p, Idle)
        /\ UNCHANGED <<log, oldest, limbo, truth, poisoned, images, listed, lineage>>
    BY Zenon, <1>1 DEF Exit, broker, remote
  <2> QED BY Zenon, <2>1, IInvIdle
<1>2. CASE Unmount(p)
  <2>1. /\ Becomes(p, Idle)
        /\ UNCHANGED <<log, oldest, limbo, truth, poisoned, images, listed, lineage>>
    BY Zenon, <1>2 DEF Unmount, broker
  <2> QED BY Zenon, <2>1, IInvIdle
<1>3. CASE Crash(p)
  <2>1. limbo' = limbo
    BY Zenon, <1>3, MildFaults DEF Crash, Leaves
  <2>2. /\ Becomes(p, Idle)
        /\ UNCHANGED <<log, oldest, limbo, truth, poisoned, images, listed, lineage>>
    BY Zenon, <1>3, <2>1 DEF Crash, remote
  <2> QED BY Zenon, <2>2, IInvIdle
<1> QED BY Zenon, <1>1, <1>2, <1>3

\* A failed renewal marks the lease lost.
LEMMA IInvRenew ==
  ASSUME IInv, Sane', NEW p \in Procs, Renew(p)
  PROVE  IInv'
<1> DEFINE v == proc[p]
<1>0. PICK w : w = [v EXCEPT !.leaseLost = TRUE]
  BY Zenon
<1>1. CASE UNCHANGED proc
  BY Zenon, <1>1, IInvStill DEF Renew, broker
<1>2. CASE Becomes(p, w)
  <2>1. v \in Proc /\ Shape(v) /\ Good(v) /\ w \in Proc
    BY Zenon, <1>2, MoveType DEF Renew, Serving
  <2> HIDE DEF v
  <2>2. /\ w.pc = v.pc /\ w.role = v.role /\ w.sid = v.sid
        /\ w.child = v.child /\ w.to = v.to /\ w.upper = v.upper
        /\ w.seq = v.seq /\ w.lastOffset = v.lastOffset
        /\ w.cursor = v.cursor /\ w.limit = v.limit /\ w.op = v.op
        /\ w.off = v.off /\ w.diverged = v.diverged
        /\ w.ckptOff = v.ckptOff /\ w.ckptUpper = v.ckptUpper
    BY <1>0, <2>1 DEF Proc
  <2>3. Good(w)
    BY Zenon, <2>1, <2>2, GoodSame
  <2>4. Alone(p, w)
    BY Zenon, <2>1, <2>2, AloneKept DEF v, IInv, Bearing
  <2> QED BY Zenon, <1>2, <2>1, <2>3, <2>4, IInvLocal DEF Renew, broker
<1> QED BY Zenon, <1>0, <1>1, <1>2 DEF Renew

\* ReadSessionTo fixes the range to replay: where the head of the log is gone,
\* nothing of the session is skipped.
LEMMA IInvReadEnd ==
  ASSUME IInv, Retains, Sane', NEW p \in Procs, ReadEnd(p)
  PROVE  IInv'
<1> DEFINE v == proc[p]
           head == oldest[PartitionFor[v.sid]]
           hw == Len(LogOf(v.sid))
           s == v.sid
<1>0. PICK w : w = [v EXCEPT !.pc = "replay",
                             !.cursor = IF head > v.cursor THEN head ELSE v.cursor,
                             !.limit = IF v.to >= 0 /\ v.to < hw - 1 THEN v.to + 1 ELSE hw]
  BY Zenon
<1>1. Becomes(p, w) /\ v.pc = "read"
  BY Zenon, <1>0 DEF ReadEnd
<1>2. v \in Proc /\ Shape(v) /\ Good(v) /\ w \in Proc
  BY Zenon, <1>1, MoveType
<1>3. PICK c : c = IF head > v.cursor THEN head ELSE v.cursor
  BY Zenon
<1> HIDE DEF v
<1>4. /\ w.pc = "replay" /\ w.role = v.role /\ w.sid = v.sid
      /\ w.child = v.child /\ w.to = v.to /\ w.upper = v.upper
      /\ w.seq = v.seq /\ w.lastOffset = v.lastOffset
      /\ w.cursor = c
      /\ w.limit = IF v.to >= 0 /\ v.to < hw - 1 THEN v.to + 1 ELSE hw
      /\ w.op = v.op /\ w.off = v.off /\ w.diverged = v.diverged
      /\ w.ckptOff = v.ckptOff /\ w.ckptUpper = v.ckptUpper
  BY <1>0, <1>2, <1>3 DEF Proc
<1>5. s \in SessionIds /\ Len(LogOf(s)) \in Nat
  BY Zenon, <1>1, <1>2, Located
<1>a. v.cursor <= hw /\ (v.to >= 0 => v.cursor <= v.to + 1 /\ v.to < hw)
  <2>1. Replays(v) /\ Holds(v)
    BY Zenon, <1>2 DEF Good
  <2>2. v.cursor <= hw /\ (v.to >= 0 => v.cursor <= v.to + 1)
    BY Zenon, <1>1, <2>1 DEF Replays
  <2>3. v.to >= 0 => v.to < hw
    BY SMTT(30), <1>2, <2>1 DEF Holds, Shape
  <2> QED BY Zenon, <2>2, <2>3
<1>d. /\ v.cursor <= c /\ c <= hw /\ truth[s][c + 1] = truth[s][v.cursor + 1]
      /\ v.to >= 0 => c = v.cursor
  <2>1. v.cursor \in Nat /\ head \in Nat
    BY Zenon, <1>2, <1>5, FieldType, ConstantsAssumption DEF IInv, Sane, TypeOK
  <2>2. CASE head <= v.cursor
    BY SMTT(30), <1>3, <1>a, <2>1, <2>2
  <2>3. CASE head > v.cursor
    <3>1. "trim" \in Faults
      <4>1. ~(0 > v.cursor)
        BY <2>1
      <4> QED BY Zenon, <1>5, <2>3, <4>1, ConstantsAssumption DEF Retains
    <3>2. Covered(s) /\ Newest(v)
      BY Zenon, <1>5, <3>1 DEF Retains, v
    <3>3. c = head /\ v.cursor \in 0 .. head
      BY <1>3, <2>1, <2>3
    <3>4. head <= hw /\ truth[s][head + 1] = truth[s][v.cursor + 1]
      BY Zenon, <1>1, <3>2, <3>3 DEF Covered, Newest
    <3>5. v.to = -1
      BY Zenon, <1>2, <3>2 DEF Newest, Shape
    <3> QED BY <2>3, <3>3, <3>4, <3>5
  <2> QED BY <2>1, <2>2, <2>3
<1>b. /\ w.cursor <= w.limit /\ w.limit <= hw /\ (v.to >= 0 => w.limit = v.to + 1)
      /\ v.lastOffset < v.cursor => v.lastOffset < w.cursor
  <2>1. v.to \in Int /\ v.cursor \in Nat /\ v.lastOffset \in Int /\ c \in Int
    BY SMTT(30), <1>2, <1>3, <1>5, FieldType, ConstantsAssumption DEF IInv, Sane, TypeOK
  <2> QED BY SMTT(30), <1>4, <1>5, <1>a, <1>d, <2>1
<1>c. v.role = "mount" => truth[s][w.limit + 1] = Current(s)
  <2> SUFFICES ASSUME v.role = "mount" PROVE truth[s][w.limit + 1] = Current(s)
    BY Zenon
  <2>1. v.to = -1
    BY Zenon, <1>1, <1>2 DEF Shape
  <2>2. w.limit = hw
    BY <1>4, <2>1
  <2>3. Len(truth[s]) = hw + 1
    BY Zenon, <1>5 DEF IInv, TruthIsReplay
  <2> QED BY Zenon, <2>2, <2>3 DEF Current
<1>6. Holds(w)
  BY Zenon, <1>2, <1>4, SameHolds DEF Good
<1>7. Replays(w)
  BY Zenon, <1>1, <1>2, <1>4, <1>b, <1>c, <1>d DEF Good, Replays
<1>8. Owns(w)
  BY Zenon, <1>1, <1>4 DEF Owns
<1>9. Bears(w)
  BY Zenon, <1>1, <1>4, NoBirth
<1>10. Uploads(w)
  BY Zenon, <1>2, <1>4, SameUploads DEF Good
<1>11. Alone(p, w)
  BY Zenon, <1>1, <1>2, <1>4, AloneKept DEF v, IInv, Bearing
<1> QED BY Zenon, <1>1, <1>2, <1>6, <1>7, <1>8, <1>9, <1>10, <1>11, IInvLocal
       DEF Good, ReadEnd, broker, remote

\* Checkpoint takes offset and state together.
LEMMA IInvSnapshot ==
  ASSUME IInv, Sane', NEW p \in Procs, Snapshot(p)
  PROVE  IInv'
<1> DEFINE v == proc[p]
           s == v.sid
<1>0. PICK w : w = [v EXCEPT !.ckptOff = v.lastOffset,
                             !.ckptUpper = v.upper]
  BY Zenon
<1>1. Becomes(p, w) /\ v.pc \in {"loaded", "open"} /\ v.lastOffset >= 0 /\ ~v.diverged
  BY Zenon, <1>0 DEF Snapshot
<1>2. v \in Proc /\ Shape(v) /\ Good(v) /\ w \in Proc
  BY Zenon, <1>1, MoveType
<1> HIDE DEF v
<1>4. /\ w.pc = v.pc /\ w.role = v.role /\ w.sid = v.sid
      /\ w.child = v.child /\ w.to = v.to /\ w.upper = v.upper
      /\ w.seq = v.seq /\ w.lastOffset = v.lastOffset
      /\ w.cursor = v.cursor /\ w.limit = v.limit /\ w.op = v.op
      /\ w.off = v.off /\ w.diverged = v.diverged
      /\ w.ckptOff = v.lastOffset /\ w.ckptUpper = v.upper
  BY <1>0, <1>2 DEF Proc
<1>6. Holds(w)
  BY Zenon, <1>2, <1>4, SameHolds DEF Good
<1>7. Replays(w)
  BY Zenon, <1>1, <1>4, NoReplay
<1>8. Owns(w)
  BY Zenon, <1>1, <1>2, <1>4 DEF Good, Owns
<1>9. Bears(w)
  BY Zenon, <1>1, <1>4, NoBirth
<1>10. Uploads(w)
  <2>1. v.to = -1
    BY Zenon, <1>1, <1>2 DEF Shape
  <2> QED BY SMTT(30), <1>1, <1>2, <1>4, <2>1 DEF Good, Holds, Uploads
<1>11. Alone(p, w)
  BY Zenon, <1>1, <1>2, <1>4, AloneKept DEF v, IInv, Bearing
<1> QED BY Zenon, <1>1, <1>2, <1>6, <1>7, <1>8, <1>9, <1>10, <1>11, IInvLocal
       DEF Good, Snapshot, broker, remote

\* An upload that fails leaves no trace.
LEMMA IInvSaveFails ==
  ASSUME IInv, Sane', NEW p \in Procs, SaveFails(p)
  PROVE  IInv'
<1> DEFINE v == proc[p]
           s == v.sid
<1>0. PICK w : w = [v EXCEPT !.ckptOff = -1, !.ckptUpper = New]
  BY Zenon
<1>1. Becomes(p, w) /\ v.ckptOff >= 0
  BY Zenon, <1>0 DEF SaveFails
<1>a. v # Idle
  BY <1>1 DEF Idle
<1>b. v.pc # "idle"
  BY Zenon, <1>1, <1>a, MoveType DEF Shape
<1>2. v \in Proc /\ Shape(v) /\ Good(v) /\ w \in Proc
  BY Zenon, <1>1, <1>b, MoveType
<1> HIDE DEF v
<1>4. /\ w.pc = v.pc /\ w.role = v.role /\ w.sid = v.sid
      /\ w.child = v.child /\ w.to = v.to /\ w.upper = v.upper
      /\ w.seq = v.seq /\ w.lastOffset = v.lastOffset
      /\ w.cursor = v.cursor /\ w.limit = v.limit /\ w.op = v.op
      /\ w.off = v.off /\ w.diverged = v.diverged /\ w.ckptOff = -1
      /\ w.ckptUpper = New
  BY <1>0, <1>2 DEF Proc
<1>6. Good(w)
  BY Zenon, <1>2, <1>4, GoodSame
<1>7. Alone(p, w)
  BY Zenon, <1>1, <1>2, <1>4, AloneKept DEF v, IInv, Bearing
<1> QED BY Zenon, <1>1, <1>2, <1>6, <1>7, IInvLocal DEF SaveFails, broker, remote

(* Steps that rebuild a session object *)

\* The next record of a replay is no birth, and its session takes it.
LEMMA ReplayFits ==
  ASSUME IInv, NEW p \in Procs, proc[p].pc = "replay",
         proc[p].cursor < proc[p].limit
  PROVE  LET v == proc[p]
             s == v.sid
             n == v.cursor + 1
             r == LogOf(s)[n]
         IN
         /\ v.lastOffset < v.cursor /\ v.limit <= Len(LogOf(s))
         /\ n \in 1 .. Len(LogOf(s))
         /\ r.key # s => truth[s][n + 1] = v.upper
         /\ r.key = s => /\ Accepts(v.upper, r)
                         /\ truth[s][n + 1] = Apply(v.upper, r)
<1> DEFINE v == proc[p]
           s == v.sid
           n == v.cursor + 1
           r == LogOf(s)[n]
<1>1. v.pc = "replay" /\ v.cursor < v.limit
  BY Zenon
<1>2. v \in Proc /\ Shape(v) /\ Good(v)
  BY Zenon, <1>1 DEF IInv, Sane, TypeOK, ProcSound
<1>3. s \in SessionIds /\ Len(LogOf(s)) \in Nat
  BY Zenon, <1>1, <1>2, Located
<1>4. /\ v.lastOffset < v.cursor /\ v.limit <= Len(LogOf(s))
      /\ v.upper = truth[s][n]
      /\ v.to >= 0 => v.limit = v.to + 1
  BY Zenon, <1>1, <1>2 DEF Good, Replays
<1>5. v.lastOffset \in Int /\ v.cursor \in Nat /\ v.limit \in Nat /\ v.to \in Int
  BY Zenon, <1>2, FieldType
<1>6. n \in 1 .. Len(LogOf(s))
  BY <1>1, <1>3, <1>4, <1>5
<1>7. r.key = s => ~IsBirth(r)
  <2> SUFFICES ASSUME BirthAt(s, n) PROVE FALSE
    BY Zenon DEF BirthAt
  <2>1. \/ BornBy(s, v.lastOffset + 1)
        \/ v.to >= 0 /\ \A m \in 1 .. v.to + 1 : ~BirthAt(s, m)
    BY Zenon, <1>1, <1>2 DEF Good, Holds, Shape
  <2>2. CASE BornBy(s, v.lastOffset + 1)
    BY SMTT(30), <1>4, <1>5, <1>6, <2>2 DEF BornBy
  <2>3. CASE v.to >= 0 /\ \A m \in 1 .. v.to + 1 : ~BirthAt(s, m)
    <3>1. n \in 1 .. v.to + 1
      BY <1>1, <1>4, <1>5, <2>3
    <3> QED BY Zenon, <2>3, <3>1
  <2> QED BY Zenon, <2>1, <2>2, <2>3
<1>8. /\ r.key # s => truth[s][n + 1] = v.upper
      /\ r.key = s => /\ Accepts(v.upper, r)
                      /\ truth[s][n + 1] = Apply(v.upper, r)
  BY ZenonT(30), <1>3, <1>4, <1>6, <1>7 DEF IInv, TruthIsReplay
<1> QED BY Zenon, <1>4, <1>6, <1>8

\* One record of a replay.
LEMMA IInvReplay ==
  ASSUME IInv, Sane', NEW p \in Procs, Replay(p)
  PROVE  IInv'
<1> DEFINE v == proc[p]
           s == v.sid
           n == v.cursor + 1
           r == LogOf(s)[n]
<1>1. v.pc = "replay" /\ v.cursor < v.limit
  BY Zenon DEF Replay
<1>2. v \in Proc /\ Shape(v) /\ Good(v)
  BY Zenon, <1>1 DEF IInv, Sane, TypeOK, ProcSound
<1>3. s \in SessionIds /\ Len(LogOf(s)) \in Nat
  BY Zenon, <1>1, <1>2, Located
<1>4. /\ v.lastOffset < v.cursor /\ v.limit <= Len(LogOf(s))
      /\ n \in 1 .. Len(LogOf(s))
      /\ r.key # s => truth[s][n + 1] = v.upper
      /\ r.key = s => /\ Accepts(v.upper, r)
                      /\ truth[s][n + 1] = Apply(v.upper, r)
  BY Zenon, <1>1, ReplayFits
<1>5. v.lastOffset \in Int /\ v.cursor \in Nat /\ v.limit \in Nat /\ v.to \in Int
  BY Zenon, <1>2, FieldType
<1>6. ASSUME NEW w, Becomes(p, w), w.pc = v.pc, w.role = v.role, w.sid = v.sid,
             w.child = v.child, w.to = v.to, w.limit = v.limit, w.op = v.op,
             w.diverged = v.diverged, w.ckptOff = v.ckptOff,
             w.ckptUpper = v.ckptUpper, w.cursor = n,
             \/ w.upper = v.upper /\ w.lastOffset = v.lastOffset
             \/ w.lastOffset = v.cursor,
             w.upper = truth[s][n + 1]
      PROVE  IInv'
  <2> HIDE DEF n, r
  <2>1. w \in Proc
    BY Zenon, <1>6, MoveType
  <2>2. Holds(w)
    <3>1. CASE w.upper = v.upper /\ w.lastOffset = v.lastOffset
      BY Zenon, <1>2, <1>6, <3>1, SameHolds DEF Good
    <3>2. CASE w.lastOffset = v.cursor
      <4>1. /\ w.lastOffset >= -1 /\ w.lastOffset < Len(LogOf(s))
            /\ w.lastOffset + 2 = n + 1
        BY SMTT(30), <1>3, <1>4, <1>5, <3>2 DEF n
      <4>2. BornBy(s, v.lastOffset + 1) => BornBy(s, w.lastOffset + 1)
        BY SMTT(30), <1>3, <1>4, <1>5, <3>2 DEF BornBy
      <4>3. \/ BornBy(s, v.lastOffset + 1)
            \/ v.to >= 0 /\ \A m \in 1 .. v.to + 1 : ~BirthAt(s, m)
        BY Zenon, <1>1, <1>2 DEF Good, Holds, Shape
      <4>4. w.upper = truth[s][w.lastOffset + 2]
        BY Zenon, <1>6, <4>1
      <4> QED BY Zenon, <1>2, <1>6, <4>1, <4>2, <4>3, <4>4 DEF Good, Holds
    <3> QED BY Zenon, <1>6, <3>1, <3>2
  <2>3. Replays(w)
    <3>1. w.lastOffset < n /\ n <= w.limit /\ n <= Len(LogOf(s))
      BY SMTT(30), <1>1, <1>3, <1>4, <1>5, <1>6 DEF n
    <3> QED BY Zenon, <1>1, <1>2, <1>6, <3>1 DEF Good, Replays
  <2>4. Owns(w) /\ Bears(w)
    BY Zenon, <1>1, <1>6 DEF Owns, Bears, Bearing
  <2>5. Uploads(w)
    BY Zenon, <1>2, <1>6, SameUploads DEF Good
  <2>6. Alone(p, w)
    BY Zenon, <1>1, <1>6, <2>1, AloneKept DEF IInv, Bearing
  <2> QED BY Zenon, <1>6, <2>1, <2>2, <2>3, <2>4, <2>5, <2>6, IInvLocal
         DEF Good, Replay, broker, remote
<1>7. CASE r.key # s
  <2> DEFINE w == [v EXCEPT !.cursor = @ + 1]
  <2>1. Becomes(p, w)
    BY Zenon, <1>7 DEF Replay
  <2> HIDE DEF v
  <2>2. w.pc = v.pc /\ w.role = v.role /\ w.sid = v.sid /\ w.child = v.child
        /\ w.to = v.to /\ w.limit = v.limit /\ w.op = v.op
        /\ w.diverged = v.diverged /\ w.ckptOff = v.ckptOff
        /\ w.ckptUpper = v.ckptUpper /\ w.cursor = n
        /\ w.upper = v.upper /\ w.lastOffset = v.lastOffset
    BY Zenon, <1>2 DEF Proc
  <2> HIDE DEF w
  <2> QED BY Zenon, <1>4, <1>6, <1>7, <2>1, <2>2
<1>8. CASE r.key = s
  <2> DEFINE w == [v EXCEPT !.cursor = @ + 1, !.lastOffset = v.cursor,
                            !.upper = Apply(@, r)]
  <2>1. Becomes(p, w)
    BY Zenon, <1>4, <1>8 DEF Replay
  <2> HIDE DEF v, r
  <2>2. w.pc = v.pc /\ w.role = v.role /\ w.sid = v.sid /\ w.child = v.child
        /\ w.to = v.to /\ w.limit = v.limit /\ w.op = v.op
        /\ w.diverged = v.diverged /\ w.ckptOff = v.ckptOff
        /\ w.ckptUpper = v.ckptUpper /\ w.cursor = n
        /\ w.upper = Apply(v.upper, r) /\ w.lastOffset = v.cursor
    BY Zenon, <1>2 DEF Proc
  <2> HIDE DEF w
  <2> QED BY Zenon, <1>4, <1>6, <1>8, <2>1, <2>2
<1> QED BY Zenon, <1>7, <1>8

\* The end of a replay.
LEMMA IInvReplayDone ==
  ASSUME IInv, Sane', NEW p \in Procs, ReplayDone(p)
  PROVE  IInv'
<1> DEFINE v == proc[p]
           s == v.sid
<1>0. PICK w : w = [v EXCEPT !.pc = IF v.role = "branch" THEN "replayed" ELSE "loaded",
                             !.seq = v.upper.seqLast, !.cursor = 0,
                             !.limit = 0]
  BY Zenon
<1>1. Becomes(p, w) /\ v.pc = "replay" /\ v.cursor >= v.limit
  BY Zenon, <1>0 DEF ReplayDone
<1>2. v \in Proc /\ Shape(v) /\ Good(v) /\ w \in Proc
  BY Zenon, <1>1, MoveType
<1> HIDE DEF v
<1>4. /\ w.pc = IF v.role = "branch" THEN "replayed" ELSE "loaded"
      /\ w.role = v.role /\ w.sid = v.sid /\ w.child = v.child
      /\ w.to = v.to /\ w.upper = v.upper /\ w.seq = v.upper.seqLast
      /\ w.lastOffset = v.lastOffset /\ w.cursor = 0 /\ w.limit = 0
      /\ w.op = v.op /\ w.off = v.off /\ w.diverged = v.diverged
      /\ w.ckptOff = v.ckptOff /\ w.ckptUpper = v.ckptUpper
  BY SMTT(30), <1>0, <1>2 DEF Proc
<1>a. v.cursor = v.limit /\ v.upper = truth[s][v.limit + 1]
  BY <1>1, <1>2, FieldType DEF Good, Replays
<1>6. Holds(w)
  BY Zenon, <1>2, <1>4, SameHolds DEF Good
<1>7. Replays(w)
  <2>1. v.to >= 0 => v.upper = truth[s][v.to + 2]
    <3>1. v.to >= 0 => v.limit = v.to + 1
      BY Zenon, <1>1, <1>2 DEF Good, Replays
    <3> QED BY <1>2, <1>a, <3>1, FieldType
  <2> QED BY Zenon, <1>1, <1>4, <2>1 DEF Replays
<1>8. Owns(w)
  BY Zenon, <1>1, <1>2, <1>4, <1>a DEF Good, Replays, Owns
<1>9. Bears(w)
  BY Zenon, <1>1, <1>4, NoBirth
<1>10. Uploads(w)
  BY Zenon, <1>2, <1>4, SameUploads DEF Good
<1>11. Alone(p, w)
  BY Zenon, <1>1, <1>2, <1>4, AloneKept DEF v, IInv, Bearing
<1> QED BY Zenon, <1>1, <1>2, <1>6, <1>7, <1>8, <1>9, <1>10, <1>11, IInvLocal
       DEF Good, ReplayDone, broker, remote

\* RestoreUpper leaves the state its tag stands for, and no birth ahead.
LEMMA IInvRestore ==
  ASSUME IInv, Sane', NEW p \in Procs, NEW s \in SessionIds,
         NEW role \in {"mount", "tool", "branch"}, NEW to \in Int,
         s \in listed, lineage[s].parent = NoSession \/ images[s] # {},
         to >= -1, to < Len(LogOf(s)),
         role = "mount" => \A q \in Procs : ~(Mounting(q) /\ proc[q].sid = s),
         Restore(p, s, role, to), UNCHANGED <<broker, remote>>
  PROVE  IInv'
<1> DEFINE usable == {i \in images[s] : to < 0 \/ i.off <= to}
           From(u, n) == [Idle EXCEPT !.pc = "read", !.role = role, !.sid = s,
                            !.to = to, !.upper = u, !.cursor = n,
                            !.lastOffset = n - 1, !.savedOffset = n - 1]
<1>1. Len(LogOf(s)) \in Nat /\ images[s] \in SUBSET Image
  BY Zenon, SessionType DEF IInv, Sane
<1>2. ASSUME NEW u \in Upper, NEW n \in Nat, Becomes(p, From(u, n)),
             n <= Len(LogOf(s)), u = truth[s][n + 1], to >= 0 => n <= to + 1,
             \/ BornBy(s, n)
             \/ to >= 0 /\ \A m \in 1 .. to + 1 : ~BirthAt(s, m)
      PROVE  IInv'
  <2> DEFINE w == From(u, n)
  <2>1. Becomes(p, w) /\ w \in Proc
    BY Zenon, <1>2, MoveType
  <2>2. /\ w.pc = "read" /\ w.role = role /\ w.sid = s /\ w.to = to
        /\ w.upper = u /\ w.cursor = n /\ w.lastOffset = n - 1
        /\ w.diverged = FALSE /\ w.ckptOff = -1
    BY Zenon DEF Idle
  <2> HIDE DEF w
  <2>3. n - 1 >= -1 /\ n - 1 < Len(LogOf(s)) /\ n - 1 + 2 = n + 1 /\ n - 1 + 1 = n
    BY <1>1, <1>2
  <2>4. Holds(w)
    BY Zenon, <1>2, <2>2, <2>3 DEF Holds
  <2>5. Replays(w)
    BY SMTT(30), <1>2, <2>2 DEF Replays
  <2>6. Owns(w) /\ Bears(w) /\ Uploads(w)
    BY <2>2 DEF Owns, Bears, Bearing, Uploads
  <2>7. Alone(p, w)
    BY Zenon, <2>2 DEF Alone, Bearing
  <2> QED BY ZenonT(30), <2>1, <2>4, <2>5, <2>6, <2>7, IInvLocal DEF Good, broker, remote
<1>3. CASE usable = {} /\ Becomes(p, From(New, 0))
  <2>1. New \in Upper
    BY Zenon, ConstantsAssumption DEF New, Upper
  <2>2. truth[s][1] = New
    BY Zenon DEF IInv, TruthIsReplay
  <2>3. \/ BornBy(s, 0)
        \/ to >= 0 /\ \A m \in 1 .. to + 1 : ~BirthAt(s, m)
    <3>1. CASE lineage[s].parent = NoSession
      BY Zenon, <3>1 DEF BornBy, BirthAt, IsBirth
    <3>2. CASE images[s] # {}
      <4>1. to >= 0
        BY <1>1, <1>3, <3>2
      <4>2. ASSUME NEW m \in 1 .. to + 1, BirthAt(s, m) PROVE FALSE
        <5>1. m \in 1 .. Len(LogOf(s))
          BY <1>1
        <5>2. PICK i \in images[s] : i.off + 1 = m
          BY Zenon, <3>2, <4>2, <5>1 DEF IInv, ImagesSound
        <5>3. i.off \in Nat
          BY Zenon, <1>1 DEF Image
        <5>4. i \in usable
          BY <5>2, <5>3
        <5> QED BY Zenon, <1>3, <5>4
      <4> QED BY Zenon, <4>1, <4>2
    <3> QED BY Zenon, <3>1, <3>2
  <2> HIDE DEF From, usable
  <2> QED BY SMTT(30), <1>1, <1>2, <1>3, <2>1, <2>2, <2>3
<1>4. ASSUME NEW i \in usable, Becomes(p, From(i.upper, i.off + 1))
      PROVE  IInv'
  <2>1. i \in images[s] /\ i.off \in Nat /\ i.upper \in Upper
    BY Zenon, <1>1 DEF Image
  <2>2. /\ i.off < Len(LogOf(s)) /\ i.upper = truth[s][i.off + 2]
        /\ BornBy(s, i.off + 1)
    BY Zenon, <2>1 DEF IInv, ImagesSound
  <2>3. to >= 0 => i.off + 1 <= to + 1
    BY <2>1
  <2>4. i.off + 1 \in Nat /\ i.off + 1 <= Len(LogOf(s)) /\ i.off + 1 + 1 = i.off + 2
    BY <1>1, <2>1, <2>2
  <2> HIDE DEF From, usable
  <2> QED BY Zenon, <1>2, <1>4, <2>1, <2>2, <2>3, <2>4
<1> QED BY ZenonT(30), <1>3, <1>4 DEF Restore

\* OpenSession and Branch begin with it.
LEMMA IInvOpens ==
  ASSUME IInv, Sane', Mild, NEW p \in Procs, NEW s \in SessionIds
  PROVE  /\ \A role \in {"mount", "tool"} : Open(p, s, role) => IInv'
         /\ \A to \in -1 .. MaxLog : Branch(p, s, to) => IInv'
<1>1. Len(LogOf(s)) \in Nat
  BY Zenon, SessionType DEF IInv, Sane
<1>2. ASSUME NEW role \in {"mount", "tool"}, Open(p, s, role) PROVE IInv'
  <2>1. s \in listed /\ (lineage[s].parent = NoSession \/ images[s] # {})
    BY Zenon, <1>2, MildFaults DEF Open, Nameable
  <2>2. role = "mount" => \A q \in Procs : ~(Mounting(q) /\ proc[q].sid = s)
    BY Zenon, <1>2, MildFaults DEF Open
  <2>3. Restore(p, s, role, -1) /\ UNCHANGED <<broker, remote>>
    BY Zenon, <1>2 DEF Open
  <2>4. -1 \in Int /\ -1 >= -1 /\ -1 < Len(LogOf(s))
    BY <1>1
  <2> QED BY Zenon, <2>1, <2>2, <2>3, <2>4, IInvRestore
<1>3. ASSUME NEW to \in -1 .. MaxLog, Branch(p, s, to) PROVE IInv'
  <2>1. s \in listed /\ (lineage[s].parent = NoSession \/ images[s] # {})
    BY Zenon, <1>3, MildFaults DEF Branch, Nameable
  <2>2. Restore(p, s, "branch", to) /\ UNCHANGED <<broker, remote>>
    BY Zenon, <1>3 DEF Branch
  <2>3. to \in Int /\ to >= -1 /\ to < Len(LogOf(s))
    BY <1>3, MildFaults, ConstantsAssumption DEF Branch
  <2> QED BY Zenon, <2>1, <2>2, <2>3, IInvRestore
<1> QED BY Zenon, <1>2, <1>3

----------------------------------------------------------------------------
(* Steps that store an image *)

\* A process stays sound when an image of c is stored that it does not make.
LEMMA GoodStore ==
  ASSUME IInv, NEW v \in Proc, Shape(v), v.pc # "idle", Good(v),
         NEW c \in SessionIds, images'[c] # {},
         \A s \in SessionIds \ {c} : images'[s] = images[s],
         Bearing(v) => v.child # c,
         UNCHANGED <<log, truth, listed, lineage>>
  PROVE  Good(v)'
<1>1. v.sid \in SessionIds /\ Len(LogOf(v.sid)) \in Nat
  BY Zenon, Located
<1>2. Bearing(v) => v.child \in SessionIds /\ Len(LogOf(v.child)) \in Nat
  BY Zenon, LocatedChild
<1>3. ASSUME NEW s \in SessionIds
      PROVE  Longer(s) /\ NoNewBirth(s)
  <2>1. Len(LogOf(s)) \in Nat
    BY Zenon, SessionType DEF IInv, Sane
  <2> QED BY <2>1 DEF Longer, NoNewBirth, BirthAt, IsBirth, LogOf
<1>4. Supports(v)
  BY Zenon, <1>1, <1>2, <1>3 DEF Supports, Grows, Current, Silent, LogOf
<1>5. LogOf(v.sid)' = LogOf(v.sid) /\ LogOf(v.child)' = LogOf(v.child)
  BY Zenon DEF LogOf
<1> QED BY Zenon, <1>1, <1>2, <1>4, <1>5, GoodKept DEF IInv, Sane

\* A step that stores an exact image.
LEMMA IInvStore ==
  ASSUME IInv, Sane', NEW p \in Procs, NEW w \in Proc, Becomes(p, w),
         NEW c \in SessionIds, NEW off \in Nat, NEW u, PutImage(c, off, u),
         c \in listed, off < Len(LogOf(c)), u = truth[c][off + 2],
         BornBy(c, off + 1),
         \A m \in 1 .. Len(LogOf(c)) :
           BirthAt(c, m) => m = off + 1 \/ images[c] # {},
         UNCHANGED <<log, oldest, limbo, truth, poisoned, listed, lineage>>,
         w.pc # "idle" => Good(w)',
         \A q \in Procs \ {p} : ~(Bearing(proc[q]) /\ proc[q].child = c),
         Alone(p, w)
  PROVE  IInv'
<1> DEFINE new == [off |-> off, upper |-> u]
<1>1. /\ images'[c] = {i \in images[c] : i.off # off} \cup {new}
      /\ \A s \in SessionIds \ {c} : images'[s] = images[s]
  BY Zenon DEF PutImage, IInv, Sane, TypeOK
<1>2. \A s \in SessionIds : LogOf(s)' = LogOf(s)
  BY Zenon DEF LogOf
<1>3. ASSUME NEW s \in SessionIds, NEW n
      PROVE  /\ BirthAt(s, n)' <=> BirthAt(s, n)
             /\ BornBy(s, n)' <=> BornBy(s, n)
  BY Zenon DEF BirthAt, BornBy, IsBirth, LogOf
<1>4. Calm' /\ LineageSound' /\ TruthIsReplay'
  <2>1. Calm'
    BY Zenon DEF IInv, Calm
  <2>2. LineageSound'
    BY Zenon, LineageFrame DEF IInv
  <2>3. TruthIsReplay'
    BY Zenon, ReplayFrame DEF IInv
  <2> QED BY Zenon, <2>1, <2>2, <2>3
<1>5. UnusedIds'
  BY ZenonT(30), <1>1 DEF IInv, UnusedIds, LogOf, Silent, Current
<1>6. ImagesSound'
  <2> SUFFICES ASSUME NEW s \in SessionIds
               PROVE  /\ \A i \in images'[s] :
                           /\ i.off < Len(LogOf(s))
                           /\ i.upper = truth[s][i.off + 2]
                           /\ BornBy(s, i.off + 1)
                      /\ \A m \in 1 .. Len(LogOf(s)) :
                           BirthAt(s, m) /\ images'[s] # {} =>
                             \E i \in images'[s] : i.off + 1 = m
    BY Zenon, <1>2, <1>3 DEF ImagesSound
  <2>1. CASE s # c
    BY Zenon, <1>1, <2>1 DEF IInv, ImagesSound
  <2>2. CASE s = c
    <3>1. ASSUME NEW i \in images'[c]
          PROVE  /\ i.off < Len(LogOf(c)) /\ i.upper = truth[c][i.off + 2]
                 /\ BornBy(c, i.off + 1)
      <4>1. CASE i \in images[c]
        BY Zenon, <4>1 DEF IInv, ImagesSound
      <4>2. CASE i = new
        BY Zenon, <4>2
      <4> QED BY Zenon, <1>1, <4>1, <4>2
    <3>2. ASSUME NEW m \in 1 .. Len(LogOf(c)), BirthAt(c, m)
          PROVE  \E i \in images'[c] : i.off + 1 = m
      <4>1. CASE m = off + 1
        <5>1. new \in images'[c] /\ new.off = off
          BY Zenon, <1>1
        <5> QED BY Zenon, <4>1, <5>1
      <4>2. CASE m # off + 1
        <5>1. PICK i \in images[c] : i.off + 1 = m
          BY Zenon, <3>2, <4>2 DEF IInv, ImagesSound
        <5>2. i.off # off
          BY Zenon, <4>2, <5>1
        <5> QED BY Zenon, <1>1, <5>1, <5>2
      <4> QED BY Zenon, <4>1, <4>2
    <3> QED BY Zenon, <2>2, <3>1, <3>2
  <2> QED BY Zenon, <2>1, <2>2
<1>7. Exclusive'
  BY Zenon, ExclusiveKept DEF IInv
<1>8. ProcSound'
  <2> SUFFICES ASSUME NEW q \in Procs, proc'[q].pc # "idle"
               PROVE  Good(proc[q])'
    BY Zenon DEF ProcSound
  <2>1. PICK v \in Proc : v = proc'[q]
    BY Zenon DEF Sane, TypeOK
  <2>2. CASE q = p
    <3>1. v = w
      BY Zenon, <2>1, <2>2, Moved
    <3> QED BY Zenon, <2>1, <3>1, GoodAt
  <2>3. CASE q # p
    <3>1. v = proc[q]
      BY Zenon, <2>1, <2>3, Moved
    <3>2. Shape(v) /\ Good(v) /\ v.pc # "idle" /\ (Bearing(v) => v.child # c)
      BY Zenon, <2>1, <2>3, <3>1 DEF IInv, Sane, ProcSound
    <3>3. images'[c] # {}
      BY ZenonT(30), <1>1
    <3>4. Good(v)'
      BY ZenonT(30), <1>1, <3>2, <3>3, GoodStore
    <3> QED BY ZenonT(30), <2>1, <3>4, GoodAt
  <2> QED BY Zenon, <2>2, <2>3
<1> QED BY Zenon, <1>4, <1>5, <1>6, <1>7, <1>8 DEF IInv

\* Branch stores the first image of the child.
LEMMA IInvSaveBirth ==
  ASSUME IInv, Sane', NEW p \in Procs, SaveBirth(p)
  PROVE  IInv'
<1>0. PICK v \in Proc : v = proc[p]
  BY Zenon DEF IInv, Sane, TypeOK
<1> DEFINE c == v.child
<1>1. /\ v.pc = "image" /\ Becomes(p, Idle) /\ PutImage(c, v.off, v.upper)
      /\ UNCHANGED <<log, oldest, limbo, truth, poisoned, listed, lineage>>
  BY Zenon, <1>0 DEF SaveBirth, broker
<1>2. Shape(v) /\ Good(v) /\ Bearing(v)
  BY ZenonT(30), <1>0, <1>1 DEF IInv, Sane, ProcSound, Shape, Bearing
<1>3. /\ c \in SessionIds /\ c \in listed /\ v.off \in Nat
      /\ v.off < Len(LogOf(c)) /\ v.upper = truth[c][v.off + 2]
      /\ \A m \in 1 .. Len(LogOf(c)) : BirthAt(c, m) => m = v.off + 1
  <2>1. c \in SessionIds
    BY Zenon, <1>2 DEF Shape
  <2>2. v.off \in Nat
    BY Zenon, FieldType
  <2> QED BY Zenon, <1>1, <1>2, <2>1, <2>2 DEF Good, Bears
<1>4. BornBy(c, v.off + 1)
  BY <1>3 DEF BornBy
<1>5. \A q \in Procs \ {p} : ~(Bearing(proc[q]) /\ proc[q].child = c)
  BY Zenon, <1>0, <1>2 DEF IInv, Exclusive
<1>6. Idle \in Proc /\ Idle.pc = "idle" /\ Alone(p, Idle)
  BY Zenon, IdleType, AloneIdle DEF Idle
<1>7. \A m \in 1 .. Len(LogOf(c)) :
        BirthAt(c, m) => m = v.off + 1 \/ images[c] # {}
  BY Zenon, <1>3
<1> HIDE DEF c
<1>8. c \in SessionIds /\ c \in listed /\ v.off \in Nat
      /\ v.off < Len(LogOf(c)) /\ v.upper = truth[c][v.off + 2]
  BY Zenon, <1>3
<1> QED BY Zenon, <1>1, <1>4, <1>5, <1>6, <1>7, <1>8, IInvStore

\* Checkpoint stores the snapshot it took.
LEMMA IInvSaveImage ==
  ASSUME IInv, Sane', NEW p \in Procs, SaveImage(p)
  PROVE  IInv'
<1>0. PICK v \in Proc : v = proc[p]
  BY Zenon DEF IInv, Sane, TypeOK
<1> DEFINE s == v.sid
<1>1. /\ v.ckptOff >= 0 /\ PutImage(s, v.ckptOff, v.ckptUpper)
      /\ UNCHANGED <<log, oldest, limbo, truth, poisoned, listed, lineage>>
  BY Zenon, <1>0 DEF SaveImage, broker
<1>2. Shape(v) /\ v.pc # "idle"
  <2>1. Shape(v)
    BY Zenon, <1>0 DEF IInv, Sane
  <2>2. v # Idle
    BY <1>1 DEF Idle
  <2> QED BY Zenon, <2>1, <2>2 DEF Shape
<1>3. Good(v) /\ ~Bearing(v)
  BY Zenon, <1>0, <1>1, <1>2 DEF IInv, ProcSound, Shape, Bearing
<1>4. /\ s \in SessionIds /\ s \in listed /\ v.ckptOff \in Nat
      /\ v.ckptOff < Len(LogOf(s)) /\ v.ckptUpper = truth[s][v.ckptOff + 2]
      /\ BornBy(s, v.ckptOff + 1)
      /\ lineage[s].parent = NoSession \/ images[s] # {}
  <2>1. s \in SessionIds
    BY Zenon, <1>2 DEF Shape
  <2>2. v.ckptOff \in Nat
    BY <1>1, FieldType
  <2>3. /\ s \in listed
        /\ lineage[s].parent = NoSession \/ images[s] # {}
    BY Zenon, <1>3 DEF Good, Holds
  <2> QED BY Zenon, <1>1, <1>3, <2>1, <2>2, <2>3 DEF Good, Uploads
<1>5. \A m \in 1 .. Len(LogOf(s)) :
        BirthAt(s, m) => m = v.ckptOff + 1 \/ images[s] # {}
  BY Zenon, <1>4 DEF BirthAt, IsBirth
<1>6. \A q \in Procs \ {p} : ~(Bearing(proc[q]) /\ proc[q].child = s)
  BY Zenon, <1>4 DEF IInv, ProcSound, Good, Bears, Bearing
<1>7. /\ images'[s] # {}
      /\ \A d \in SessionIds \ {s} : images'[d] = images[d]
  BY ZenonT(30), <1>1, <1>4 DEF PutImage, IInv, Sane, TypeOK
<1>9. ASSUME NEW w \in Proc, Becomes(p, w),
             w.pc = v.pc, w.role = v.role, w.sid = v.sid, w.child = v.child,
             w.to = v.to, w.upper = v.upper, w.seq = v.seq,
             w.lastOffset = v.lastOffset, w.cursor = v.cursor,
             w.limit = v.limit, w.op = v.op, w.off = v.off,
             w.diverged = v.diverged, w.ckptOff = -1
      PROVE  IInv'
  <2>1. Good(w)
    BY Zenon, <1>3, <1>9, GoodSame
  <2>2. Shape(w)
    BY <1>2, <1>9 DEF Shape, Bearing
  <2>3. w.pc # "idle" /\ ~Bearing(w)
    BY Zenon, <1>2, <1>3, <1>9 DEF Bearing
  <2>5. Alone(p, w)
    BY Zenon, <1>0, <1>3, <1>9, AloneKept DEF IInv, Bearing
  <2>6. Good(w)'
    BY Zenon, <1>1, <1>4, <1>7, <2>1, <2>2, <2>3, GoodStore
  <2> HIDE DEF s
  <2> QED BY Zenon, <1>1, <1>4, <1>5, <1>6, <1>9, <2>5, <2>6, IInvStore
<1> DEFINE x == [v EXCEPT !.savedOffset = v.ckptOff, !.ckptOff = -1,
                          !.ckptUpper = New]
           y == [v EXCEPT !.ckptOff = -1, !.ckptUpper = New]
<1>10. CASE Becomes(p, x)
  <2>1. x \in Proc
    BY Zenon, <1>10, MoveType
  <2>2. /\ x.pc = v.pc /\ x.role = v.role /\ x.sid = v.sid
        /\ x.child = v.child /\ x.to = v.to /\ x.upper = v.upper
        /\ x.seq = v.seq /\ x.lastOffset = v.lastOffset
        /\ x.cursor = v.cursor /\ x.limit = v.limit /\ x.op = v.op
        /\ x.off = v.off /\ x.diverged = v.diverged /\ x.ckptOff = -1
    BY Zenon DEF Proc
  <2> HIDE DEF x
  <2> QED BY Zenon, <1>9, <1>10, <2>1, <2>2
<1>11. CASE Becomes(p, y)
  <2>1. y \in Proc
    BY Zenon, <1>11, MoveType
  <2>2. /\ y.pc = v.pc /\ y.role = v.role /\ y.sid = v.sid
        /\ y.child = v.child /\ y.to = v.to /\ y.upper = v.upper
        /\ y.seq = v.seq /\ y.lastOffset = v.lastOffset
        /\ y.cursor = v.cursor /\ y.limit = v.limit /\ y.op = v.op
        /\ y.off = v.off /\ y.diverged = v.diverged /\ y.ckptOff = -1
    BY Zenon DEF Proc
  <2> HIDE DEF y
  <2> QED BY Zenon, <1>9, <1>11, <2>1, <2>2
<1> QED BY Zenon, <1>0, <1>10, <1>11 DEF SaveImage

----------------------------------------------------------------------------
(* Images stay *)

\* No other step stores an image.
LEMMA ImagesStill ==
  ASSUME NEW p \in Procs, Step(p), ~SaveImage(p), ~SaveBirth(p)
  PROVE  UNCHANGED images
<1>1. CASE \E c \in SessionIds : NewSession(p, c) \/ RegisterChild(p, c)
  BY Zenon, <1>1 DEF NewSession, RegisterChild
<1>2. CASE \E c \in SessionIds, role \in {"mount", "tool"} : Open(p, c, role)
  BY Zenon, <1>2 DEF Open, remote
<1>3. CASE \E c \in SessionIds, to \in -1 .. MaxLog : Branch(p, c, to)
  BY Zenon, <1>3 DEF Branch, remote
<1>4. CASE \/ \E o \in Writes : PutBlob(p, o)
           \/ \E o \in Ops : Commit(p, o)
  BY Zenon, <1>4 DEF PutBlob, Commit, remote
<1>5. CASE Produce(p) \/ Retry(p)
  BY Zenon, <1>5 DEF Produce, Retry, remote
<1>6. CASE AckStart(p) \/ AckChild(p) \/ AckCommit(p) \/ CommitFails(p)
  BY Zenon, <1>6 DEF AckStart, AckChild, AckCommit, CommitFails, remote
<1>7. CASE ReadEnd(p) \/ Replay(p) \/ ReplayDone(p)
  BY Zenon, <1>7 DEF ReadEnd, Replay, ReplayDone, remote
<1>8. CASE Claim(p) \/ Renew(p)
  BY Zenon, <1>8 DEF Claim, Renew
<1>9. CASE Exit(p) \/ Unmount(p) \/ Crash(p)
  BY Zenon, <1>9 DEF Exit, Unmount, Crash, remote
<1>10. CASE Snapshot(p) \/ SaveFails(p)
  BY Zenon, <1>10 DEF Snapshot, SaveFails, remote
<1> QED BY Zenon, <1>1, <1>2, <1>3, <1>4, <1>5, <1>6, <1>7, <1>8, <1>9,
           <1>10 DEF Step

\* Two images of a session with one tag are one image, so storing one takes
\* none away from a resume that chose it.
LEMMA ImagesGrow ==
  ASSUME IInv, [Next]_vars
  PROVE  [\A s \in SessionIds : images[s] \subseteq images'[s]]_images
<1>1. ASSUME NEW c \in SessionIds, NEW off \in Nat, PutImage(c, off, truth[c][off + 2]),
             NEW s \in SessionIds
      PROVE  images[s] \subseteq images'[s]
  <2>1. images' = [images EXCEPT ![c] = {i \in images[c] : i.off # off}
                     \cup {[off |-> off, upper |-> truth[c][off + 2]]}]
    BY Zenon, <1>1 DEF PutImage
  <2>2. images \in [SessionIds -> SUBSET Image]
    BY Zenon DEF IInv, Sane, TypeOK
  <2>3. CASE s # c
    BY Zenon, <2>1, <2>2, <2>3
  <2>4. ASSUME s = c, NEW i \in images[s] PROVE i \in images'[s]
    <3>1. i \in Image /\ i.upper = truth[c][i.off + 2]
      BY Zenon, <2>2, <2>4 DEF IInv, ImagesSound
    <3>2. i = [off |-> i.off, upper |-> i.upper]
      BY Zenon, <3>1 DEF Image
    <3> QED BY Zenon, <2>1, <2>2, <2>4, <3>1, <3>2
  <2> QED BY Zenon, <2>3, <2>4
<1>2. ASSUME NEW p \in Procs, SaveImage(p) \/ SaveBirth(p)
      PROVE  \A s \in SessionIds : images[s] \subseteq images'[s]
  <2>1. PICK v \in Proc : v = proc[p]
    BY Zenon DEF IInv, Sane, TypeOK
  <2>2. CASE SaveImage(p)
    <3>1. PutImage(v.sid, v.ckptOff, v.ckptUpper) /\ v.ckptOff >= 0
      BY Zenon, <2>1, <2>2 DEF SaveImage
    <3>2. Shape(v) /\ v # Idle
      BY <2>1, <3>1 DEF IInv, Sane, Idle
    <3>3. v.pc # "idle" /\ v.sid \in SessionIds
      BY Zenon, <3>2 DEF Shape
    <3>4. Good(v)
      BY Zenon, <2>1, <3>3 DEF IInv, ProcSound
    <3>5. v.ckptOff \in Nat /\ v.ckptUpper = truth[v.sid][v.ckptOff + 2]
      BY <3>1, <3>4, FieldType DEF Good, Uploads
    <3> QED BY Zenon, <1>1, <3>1, <3>3, <3>5
  <2>3. CASE SaveBirth(p)
    <3>1. PutImage(v.child, v.off, v.upper) /\ v.pc = "image"
      BY Zenon, <2>1, <2>3 DEF SaveBirth
    <3>2. Shape(v) /\ Good(v)
      BY Zenon, <2>1, <3>1 DEF IInv, Sane, ProcSound
    <3>3. Bearing(v) /\ v.child \in SessionIds
      BY Zenon, <3>1, <3>2 DEF Shape, Bearing
    <3>4. v.off \in Nat
      BY Zenon, FieldType
    <3>5. v.upper = truth[v.child][v.off + 2]
      BY Zenon, <3>1, <3>2, <3>3 DEF Good, Bears
    <3> QED BY Zenon, <1>1, <3>1, <3>3, <3>4, <3>5
  <2> QED BY Zenon, <1>2, <2>2, <2>3
<1>4. CASE \E p \in Procs : Step(p)
  BY Zenon, <1>2, <1>4, ImagesStill
<1>5. CASE ~\E p \in Procs : Step(p)
  BY Zenon, <1>5 DEF Next, ExpireLease, Land, Trim, remote, vars
<1> QED BY Zenon, <1>4, <1>5
============================================================================
