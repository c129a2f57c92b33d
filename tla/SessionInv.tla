---------------------------- MODULE SessionInv -----------------------------
(***************************************************************************)
(* The inductive invariant behind the safety properties of Session when    *)
(* the environment is Mild.  The properties alone are not inductive: they  *)
(* need the link between the log and the history variables, who may append *)
(* to a session, what a process knows at each point of a replay, an append *)
(* and an upload, and what retention may have dropped.                     *)
(***************************************************************************)
EXTENDS Session

\* The environment does none of the Faults but retention, and that only where
\* every command is a mount.  A tool that stores an image lets retention drop
\* what a mount between its list of images and its read has yet to replay, and
\* a branch from an older image finds the records after it gone.
Mild ==
  /\ Faults \subseteq {"trim"}
  /\ "trim" \in Faults => \A p \in Procs : May[p] \subseteq {"mount"}

\* Process record v is making a child, from RegisterChild to SaveBirth.
Bearing(v) == v.role = "branch" /\ v.pc \in {"append", "sent", "image"}

\* What the control point of process record v says about its fields.
Shape(v) ==
  /\ v.pc = "idle" => v = Idle
  /\ v.pc # "idle" => v.role # "none" /\ v.sid \in SessionIds
  /\ v.pc \in {"replayed", "image"} => v.role = "branch"
  /\ v.pc = "loaded" => v.role \in {"mount", "tool"}
  /\ v.pc = "open" => v.role = "mount"
  /\ v.pc \in {"append", "sent"} =>
       /\ \/ v.role = "mount" /\ v.op \in Ops \cup {Start}
          \/ v.role = "branch" /\ v.op = Start
       /\ v.op \in Writes => v.op \in blobs
  /\ v.pc \notin {"append", "sent"} => v.op = NoOp
  /\ Bearing(v) => v.child \in SessionIds
  /\ v.pc = "replay" => v.limit <= Len(LogOf(v.sid))
  /\ v.role # "branch" => v.to = -1
  /\ v.diverged => v.pc = "open"
  /\ v.ckptOff >= 0 => v.role \in {"mount", "tool"}

\* The part of the invariant that needs nothing of the environment.
Sane ==
  /\ TypeOK
  /\ \A p \in Procs : Shape(proc[p])
  /\ \A r \in limbo : r.op \in Writes => r.op \in blobs
  /\ BlobsDurable

\* Is the n-th record of s the SessionStart that Branch wrote for child s?
BirthAt(s, n) == LogOf(s)[n].key = s /\ IsBirth(LogOf(s)[n])

\* No birth of s after its first n records.
BornBy(s, n) == \A m \in 1 .. Len(LogOf(s)) : BirthAt(s, m) => m <= n

\* No record of s at all.
Silent(s) == \A m \in 1 .. Len(LogOf(s)) : LogOf(s)[m].key # s

\* truth is the replay of the log, record by record.
TruthIsReplay ==
  \A s \in SessionIds :
    /\ Len(truth[s]) = Len(LogOf(s)) + 1
    /\ truth[s][1] = New
    /\ \A n \in 1 .. Len(LogOf(s)) :
         LET r == LogOf(s)[n] IN
         /\ r.key # s => truth[s][n + 1] = truth[s][n]
         /\ BirthAt(s, n) => truth[s][n + 1] = lineage[s].birth
         /\ r.key = s /\ ~IsBirth(r) =>
              /\ Accepts(truth[s][n], r)
              /\ truth[s][n + 1] = Apply(truth[s][n], r)

\* Nothing exists under an id that no session has.
UnusedIds ==
  \A s \in SessionIds \ listed :
    images[s] = {} /\ lineage[s] = NoLineage /\ Silent(s) /\ Current(s) = New

\* Images are exact, and no replay from one meets a birth: the first image of
\* a child stands for it.
ImagesSound ==
  \A s \in SessionIds :
    /\ \A i \in images[s] :
         /\ i.off < Len(LogOf(s))
         /\ i.upper = truth[s][i.off + 2]
         /\ BornBy(s, i.off + 1)
    /\ \A m \in 1 .. Len(LogOf(s)) : BirthAt(s, m) /\ images[s] # {} =>
         \E i \in images[s] : i.off + 1 = m

\* A child was born as its parent at the recorded offset.
LineageSound ==
  \A c \in SessionIds :
    LET l == lineage[c] IN
    l.parent # NoSession =>
      /\ l.parent \in listed
      /\ \/ l.at = 0 /\ l.birth = New
         \/ /\ l.at >= 0 /\ l.at < Len(LogOf(l.parent))
            /\ l.birth = truth[l.parent][l.at + 2]

\* A busy process is about a session that is complete, and holds the state
\* its lastOffset stands for.
Holds(v) ==
  /\ v.sid \in listed
  /\ lineage[v.sid].parent = NoSession \/ images[v.sid] # {}
  /\ v.role = "branch" => v.to >= -1 /\ v.to < Len(LogOf(v.sid))
  /\ ~v.diverged =>
       /\ v.lastOffset >= -1 /\ v.lastOffset < Len(LogOf(v.sid))
       /\ v.upper = truth[v.sid][v.lastOffset + 2]
       /\ \/ BornBy(v.sid, v.lastOffset + 1)
          \/ v.to >= 0 /\ \A m \in 1 .. v.to + 1 : ~BirthAt(v.sid, m)

\* A replay is at cursor, and will stop at limit.
Replays(v) ==
  /\ v.pc \in {"read", "replay"} =>
       /\ v.lastOffset < v.cursor /\ v.cursor <= Len(LogOf(v.sid))
       /\ v.upper = truth[v.sid][v.cursor + 1]
  /\ v.pc = "read" /\ v.to >= 0 => v.cursor <= v.to + 1
  /\ v.pc = "replay" =>
       /\ v.cursor <= v.limit /\ v.limit <= Len(LogOf(v.sid))
       /\ v.to >= 0 => v.limit = v.to + 1
       /\ v.role = "mount" => truth[v.sid][v.limit + 1] = Current(v.sid)
  /\ v.pc = "replayed" /\ v.to >= 0 => v.upper = truth[v.sid][v.to + 2]

\* The record a mount is appending.
Sends(v) ==
  [key |-> v.sid, seq |-> IF v.op = Start THEN 1 ELSE v.seq, op |-> v.op]

\* A mount that is not fenced has everything its session has in the log, but
\* for the one record it is appending.
Owns(v) ==
  /\ v.pc \in {"loaded", "open"} /\ ~v.diverged => v.seq = v.upper.seqLast
  /\ v.pc \in {"loaded", "open", "append"} /\ v.role = "mount" /\ ~v.diverged =>
       v.upper = Current(v.sid)
  /\ v.pc \in {"append", "sent"} /\ v.role = "mount" =>
       /\ v.op = Start => v.upper = New /\ lineage[v.sid].parent = NoSession
       /\ v.op \in Ops => Check(v.upper.tree, v.op) /\ v.seq = v.upper.seqLast + 1
  /\ v.pc = "sent" /\ v.role = "mount" =>
       /\ v.lastOffset < v.off /\ v.off < Len(LogOf(v.sid))
       /\ truth[v.sid][v.off + 2] = Apply(v.upper, Sends(v))
       /\ Current(v.sid) = Apply(v.upper, Sends(v))

Bears(v) ==
  Bearing(v) =>
    /\ v.child \in listed
    /\ lineage[v.child].parent # NoSession
    /\ lineage[v.child].birth = v.upper
    /\ images[v.child] = {}
    /\ v.pc = "append" => Silent(v.child)
    /\ v.pc # "append" =>
         /\ v.off < Len(LogOf(v.child))
         /\ truth[v.child][v.off + 2] = v.upper
         /\ \A m \in 1 .. Len(LogOf(v.child)) :
              BirthAt(v.child, m) => m = v.off + 1

\* A snapshot being uploaded is the state its offset stands for.
Uploads(v) ==
  v.ckptOff >= 0 =>
    /\ v.ckptOff < Len(LogOf(v.sid))
    /\ v.ckptUpper = truth[v.sid][v.ckptOff + 2]
    /\ BornBy(v.sid, v.ckptOff + 1)

Good(v) == Holds(v) /\ Replays(v) /\ Owns(v) /\ Bears(v) /\ Uploads(v)

ProcSound == \A p \in Procs : proc[p].pc # "idle" => Good(proc[p])

\* One process mounts a session, one process bears a child.
Exclusive ==
  \A p, q \in Procs :
    \/ p = q
    \/ /\ ~(Mounting(p) /\ Mounting(q) /\ proc[p].sid = proc[q].sid)
       /\ ~(Bearing(proc[p]) /\ Bearing(proc[q])
              /\ proc[p].child = proc[q].child)

\* No record is rejected, and none is on its way.
Calm == limbo = {} /\ poisoned = {}

\* What was dropped of s past its images is of other sessions.
Covered(s) ==
  LET head == oldest[PartitionFor[s]] IN
  /\ head <= Len(LogOf(s))
  /\ \A n \in 0 .. head :
       (\A i \in images[s] : i.off < n) => truth[s][head + 1] = truth[s][n + 1]

\* A mount about to read the log restored the newest image.
Newest(v) ==
  /\ v.role \in {"none", "mount"}
  /\ v.pc = "read" => /\ v.ckptOff < 0
                      /\ \A i \in images[v.sid] : i.off < v.cursor

\* Retention leaves what a resume needs.
Retains ==
  /\ "trim" \notin Faults => oldest = [q \in Partitions |-> 0]
  /\ "trim" \in Faults =>
       (\A s \in SessionIds : Covered(s)) /\ (\A p \in Procs : Newest(proc[p]))

\* The invariant: with Retains it is inductive.
IInv ==
  /\ Sane
  /\ Calm
  /\ TruthIsReplay
  /\ UnusedIds
  /\ ImagesSound
  /\ ProcSound
  /\ Exclusive
  /\ LineageSound
============================================================================
