--------------------------- MODULE SessionSafety ---------------------------
(***************************************************************************)
(* The safety properties of Session when the environment is Mild: none of  *)
(* the Faults, or retention beside mounts.  They hold for any number of    *)
(* sessions, processes, partitions and records, and any overlay semantics, *)
(* and Session implements Store.  IInv and Retains of SessionInv are the   *)
(* invariant; it is left to show that IInv survives the steps of a commit: *)
(* the pending record, its append, and the answer; and that every step     *)
(* keeps Retains.                                                          *)
(***************************************************************************)
EXTENDS SessionStore, SessionMoves

(* The record that a commit appends *)

\* Record r is one its session can take: the next mutation, or the birth of
\* a child that has nothing yet.
Fits(r) ==
  /\ r.key \in listed
  /\ \/ ~IsBirth(r) /\ Accepts(Current(r.key), r)
     \/ IsBirth(r) /\ Silent(r.key) /\ images[r.key] = {}

\* Every session grows, and only the birth of a child is a birth.
LEMMA PersistGrows ==
  ASSUME IInv, NEW r \in Record, Persist(r), NEW s \in SessionIds,
         UNCHANGED <<images, listed, lineage>>
  PROVE  /\ Longer(s) /\ Len(LogOf(s)') \in Nat
         /\ ~IsBirth(r) \/ s # r.key => NoNewBirth(s) /\ Grows(s)
         /\ s # r.key => Current(s)' = Current(s) /\ (Silent(s) => Silent(s)')
<1>1. Len(truth[s]) = Len(LogOf(s)) + 1 /\ Len(LogOf(s)) \in Nat /\ TypeOK
  BY Zenon, SessionType DEF IInv, Sane, TruthIsReplay
<1> DEFINE M == Len(LogOf(s)')
           N == Len(LogOf(s))
<1>2. /\ Longer(s) /\ M \in Nat
      /\ \A n \in 1 .. N : LogOf(s)'[n] = LogOf(s)[n]
      /\ \/ LogOf(s)' = LogOf(s)
         \/ M = N + 1 /\ LogOf(s)'[N + 1] = r
      /\ s # r.key => Current(s)' = Current(s)
  BY Zenon, <1>1, PersistSession
<1>3. ASSUME ~IsBirth(r) \/ s # r.key, NEW n \in 1 .. M, BirthAt(s, n)'
      PROVE  n \in 1 .. N /\ BirthAt(s, n)
  <2>1. LogOf(s)'[n].key = s /\ IsBirth(LogOf(s)[n])'
    BY Zenon, <1>3 DEF BirthAt
  <2>2. CASE n \in 1 .. N
    BY Zenon, <1>2, <2>1, <2>2 DEF BirthAt, IsBirth
  <2>3. CASE n \notin 1 .. N
    <3>1. LogOf(s)'[n] = r
      BY <1>1, <1>2, <2>3
    <3> QED BY Zenon, <1>3, <2>1, <3>1 DEF IsBirth
  <2> QED BY Zenon, <2>2, <2>3
<1>4. ~IsBirth(r) \/ s # r.key => NoNewBirth(s)
  BY Zenon, <1>3 DEF NoNewBirth
<1>5. s # r.key => (Silent(s) => Silent(s)')
  BY <1>1, <1>2 DEF Silent
<1> QED BY Zenon, <1>2, <1>4, <1>5 DEF Grows

\* What IInv says of the stores survives a record that fits.
LEMMA StorePersist ==
  ASSUME IInv, NEW r \in Record, Persist(r), Fits(r),
         UNCHANGED <<limbo, oldest, images, listed, lineage>>
  PROVE  Calm' /\ TruthIsReplay' /\ UnusedIds' /\ ImagesSound' /\ LineageSound'
<1> DEFINE k == r.key
<1>1. k \in SessionIds
  BY Zenon DEF Record
<1>2. TypeOK /\ \A s \in SessionIds : Len(truth[s]) = Len(LogOf(s)) + 1
  BY Zenon DEF IInv, Sane, TruthIsReplay
<1>3. Calm'
  BY Zenon DEF IInv, Calm, Persist, Fits
<1>4. TruthIsReplay'
  <2> SUFFICES ASSUME NEW s \in SessionIds
               PROVE  /\ Len(truth'[s]) = Len(LogOf(s)') + 1
                      /\ truth'[s][1] = New
                      /\ \A n \in 1 .. Len(LogOf(s)') :
                           LET x == LogOf(s)'[n] IN
                           /\ x.key # s => truth'[s][n + 1] = truth'[s][n]
                           /\ BirthAt(s, n)' => truth'[s][n + 1] = lineage'[s].birth
                           /\ x.key = s /\ ~(IsBirth(LogOf(s)[n])') =>
                                /\ Accepts(truth'[s][n], x)
                                /\ truth'[s][n + 1] = Apply(truth'[s][n], x)
    BY Zenon DEF TruthIsReplay
  <2> DEFINE N == Len(LogOf(s))
  <2>1. N \in Nat /\ Len(truth[s]) = N + 1 /\ truth[s][1] = New
    BY Zenon, <1>2, SessionType DEF IInv, TruthIsReplay
  <2>2. /\ Longer(s) /\ Len(LogOf(s)') \in Nat
        /\ \A n \in 1 .. N : LogOf(s)'[n] = LogOf(s)[n]
        /\ Len(truth'[s]) = Len(LogOf(s)') + 1
        /\ \/ LogOf(s)' = LogOf(s)
           \/ /\ Len(LogOf(s)') = N + 1 /\ LogOf(s)'[N + 1] = r
              /\ truth'[s][N + 2] = IF s = k THEN After(r) ELSE Current(s)
    BY <1>2, PersistSession
  <2>3. \A n \in 1 .. N + 1 : truth'[s][n] = truth[s][n]
    BY Zenon, <2>2 DEF Longer
  <2>4. truth'[s][1] = New
    BY <2>1, <2>3
  <2>5. ASSUME NEW n \in 1 .. Len(LogOf(s)')
        PROVE  LET x == LogOf(s)'[n] IN
               /\ x.key # s => truth'[s][n + 1] = truth'[s][n]
               /\ BirthAt(s, n)' => truth'[s][n + 1] = lineage'[s].birth
               /\ x.key = s /\ ~(IsBirth(LogOf(s)[n])') =>
                    /\ Accepts(truth'[s][n], x)
                    /\ truth'[s][n + 1] = Apply(truth'[s][n], x)
    <3>1. CASE n \in 1 .. N
      <4>1. n + 1 \in 1 .. N + 1 /\ n \in 1 .. N + 1
        BY <2>1, <3>1
      <4>2. truth'[s][n] = truth[s][n] /\ truth'[s][n + 1] = truth[s][n + 1]
        BY Zenon, <2>3, <4>1
      <4>3. LogOf(s)'[n] = LogOf(s)[n]
        BY Zenon, <2>2, <3>1
      <4>4. BirthAt(s, n)' <=> BirthAt(s, n)
        BY Zenon, <4>3 DEF BirthAt, IsBirth
      <4>5. IsBirth(LogOf(s)[n])' <=> IsBirth(LogOf(s)[n])
        BY Zenon, <4>3 DEF IsBirth
      <4> QED BY ZenonT(30), <3>1, <4>2, <4>3, <4>4, <4>5 DEF IInv, TruthIsReplay, IsBirth
    <3>2. CASE n \notin 1 .. N
      <4>1. n = N + 1 /\ n + 1 = N + 2 /\ LogOf(s)'[n] = r
        BY <2>1, <2>2, <3>2
      <4>2. truth'[s][N + 1] = Current(s)
        BY <2>1, <2>3 DEF Current
      <4>3. truth'[s][N + 2] = IF s = k THEN After(r) ELSE Current(s)
        BY <2>1, <2>2, <4>1
      <4>4. IsBirth(r) => After(r) = lineage[k].birth
        BY Zenon DEF After
      <4>5. ~IsBirth(r) => Accepts(Current(k), r) /\ After(r) = Apply(Current(k), r)
        BY Zenon DEF After, Fits
      <4>6. BirthAt(s, n)' <=> (k = s /\ IsBirth(r))
        BY Zenon, <4>1 DEF BirthAt, IsBirth
      <4>7. IsBirth(LogOf(s)[n])' <=> IsBirth(r)
        BY Zenon, <4>1 DEF IsBirth
      <4> QED BY Zenon, <4>1, <4>2, <4>3, <4>4, <4>5, <4>6, <4>7 DEF IsBirth
    <3> QED BY Zenon, <3>1, <3>2
  <2> QED BY Zenon, <2>2, <2>4, <2>5
<1>5. UnusedIds'
  <2> SUFFICES ASSUME NEW s \in SessionIds \ listed
               PROVE  /\ images[s] = {} /\ lineage[s] = NoLineage
                      /\ Silent(s)' /\ Current(s)' = New
    BY Zenon DEF UnusedIds
  <2>1. s # k
    BY Zenon DEF Fits
  <2> QED BY Zenon, <2>1, PersistGrows DEF IInv, UnusedIds
<1>6. ImagesSound'
  <2> SUFFICES ASSUME NEW s \in SessionIds, images[s] # {}
               PROVE  /\ \A i \in images[s] :
                           /\ i.off < Len(LogOf(s)')
                           /\ i.upper = truth'[s][i.off + 2]
                           /\ BornBy(s, i.off + 1)'
                      /\ \A m \in 1 .. Len(LogOf(s)') :
                           BirthAt(s, m)' => \E i \in images[s] : i.off + 1 = m
    BY Zenon DEF ImagesSound
  <2>1. Longer(s) /\ NoNewBirth(s) /\ Len(LogOf(s)') \in Nat
    BY Zenon, PersistGrows DEF Fits
  <2>2. Len(LogOf(s)) \in Nat /\ images[s] \in SUBSET Image
    BY Zenon, <1>2, SessionType
  <2>3. ASSUME NEW i \in images[s]
        PROVE  /\ i.off < Len(LogOf(s)')
               /\ i.upper = truth'[s][i.off + 2]
               /\ BornBy(s, i.off + 1)'
    <3>1. /\ i.off \in Nat /\ i.off < Len(LogOf(s))
          /\ i.upper = truth[s][i.off + 2] /\ BornBy(s, i.off + 1)
      BY Zenon, <2>2 DEF IInv, ImagesSound, Image
    <3>2. i.off + 2 \in 1 .. Len(LogOf(s)) + 1
      BY <2>2, <3>1
    <3>3. BornBy(s, i.off + 1)'
      BY Zenon, <2>1, <3>1 DEF BornBy, NoNewBirth
    <3> QED BY SMTT(30), <2>1, <2>2, <3>1, <3>2, <3>3 DEF Longer
  <2>4. ASSUME NEW m \in 1 .. Len(LogOf(s)'), BirthAt(s, m)'
        PROVE  \E i \in images[s] : i.off + 1 = m
    BY Zenon, <2>1, <2>4 DEF NoNewBirth, IInv, ImagesSound
  <2> QED BY Zenon, <2>3, <2>4
<1>7. LineageSound'
  <2> SUFFICES ASSUME NEW c \in SessionIds, lineage[c].parent # NoSession
               PROVE  LET l == lineage[c] IN
                      /\ l.parent \in listed
                      /\ \/ l.at = 0 /\ l.birth = New
                         \/ /\ l.at >= 0 /\ l.at < Len(LogOf(l.parent)')
                            /\ l.birth = truth'[l.parent][l.at + 2]
    BY Zenon DEF LineageSound
  <2> DEFINE l == lineage[c]
             s == l.parent
  <2>1. /\ s \in listed
        /\ \/ l.at = 0 /\ l.birth = New
           \/ /\ l.at >= 0 /\ l.at < Len(LogOf(s))
              /\ l.birth = truth[s][l.at + 2]
    BY Zenon DEF IInv, LineageSound
  <2>2. s \in SessionIds /\ l.at \in Int
    BY Zenon, <1>2, <2>1, SessionType DEF Lineage, TypeOK
  <2>3. Longer(s) /\ Len(LogOf(s)') \in Nat /\ Len(LogOf(s)) \in Nat
    BY Zenon, <1>2, <2>2, PersistGrows, SessionType
  <2>4. ASSUME NEW n \in Int, n >= 0, n < Len(LogOf(s))
        PROVE  n < Len(LogOf(s)') /\ truth'[s][n + 2] = truth[s][n + 2]
    <3> HIDE DEF s
    <3>1. n + 2 \in 1 .. Len(LogOf(s)) + 1
      BY <2>3, <2>4
    <3> QED BY <2>3, <2>4, <3>1 DEF Longer
  <2> QED BY Zenon, <2>1, <2>2, <2>4
<1> QED BY Zenon, <1>3, <1>4, <1>5, <1>6, <1>7

\* The record a process appends is one its session can take.
LEMMA PendingFits ==
  ASSUME IInv, NEW p \in Procs, NEW v \in Proc, v = proc[p], v.pc = "append"
  PROVE  /\ Pending(p) \in Record /\ Fits(Pending(p))
         /\ \/ /\ v.role = "mount" /\ Pending(p) = Sends(v)
               /\ ~IsBirth(Pending(p)) /\ After(Pending(p)) = Apply(v.upper, Sends(v))
            \/ /\ Bearing(v) /\ Pending(p).key = v.child
               /\ IsBirth(Pending(p)) /\ After(Pending(p)) = v.upper
<1> DEFINE r == Pending(p)
<1>1. Shape(v) /\ Good(v) /\ r \in Record
  BY Zenon, PendingType DEF IInv, Sane, ProcSound
<1>2. CASE v.role = "mount"
  <2>1. r = Sends(v)
    BY Zenon, <1>2 DEF Pending, Sends
  <2>2. /\ r.key = v.sid /\ r.op = v.op
        /\ r.seq = IF v.op = Start THEN 1 ELSE v.seq
    BY <2>1 DEF Sends
  <2>3. /\ v.sid \in listed /\ v.upper = Current(v.sid) /\ v.op \in Ops \cup {Start}
        /\ v.op = Start => v.upper = New /\ lineage[v.sid].parent = NoSession
        /\ v.op \in Ops => Check(v.upper.tree, v.op) /\ v.seq = v.upper.seqLast + 1
    BY Zenon, <1>1, <1>2 DEF Good, Holds, Owns, Shape
  <2>4. ~IsBirth(r)
    BY Zenon, <2>2, <2>3 DEF IsBirth
  <2>5. v.upper.seqLast \in Nat /\ New.seqLast = 0
    BY Zenon DEF Proc, Upper, New
  <2>6. Accepts(v.upper, r)
    <3>1. CASE v.op = Start
      BY SMTT(30), <2>2, <2>3, <2>5, <3>1 DEF Accepts
    <3>2. CASE v.op # Start
      BY SMTT(30), <2>2, <2>3, <2>5, <3>2 DEF Accepts
    <3> QED BY Zenon, <3>1, <3>2
  <2>7. After(r) = Apply(v.upper, r)
    BY Zenon, <2>2, <2>3, <2>4, <2>6 DEF After
  <2> QED BY Zenon, <1>1, <1>2, <2>1, <2>2, <2>3, <2>4, <2>6, <2>7 DEF Fits
<1>3. CASE v.role # "mount"
  <2>1. Bearing(v) /\ v.op = Start
    BY Zenon, <1>1, <1>3 DEF Shape, Bearing
  <2>2. r.key = v.child /\ r.op = Start
    BY Zenon, <2>1 DEF Pending, Bearing
  <2>3. /\ v.child \in listed /\ lineage[v.child].parent # NoSession
        /\ lineage[v.child].birth = v.upper /\ images[v.child] = {}
        /\ Silent(v.child)
    BY Zenon, <1>1, <2>1 DEF Good, Bears
  <2> QED BY Zenon, <1>1, <2>1, <2>2, <2>3 DEF Fits, IsBirth, After
<1> QED BY Zenon, <1>2, <1>3

----------------------------------------------------------------------------
(* Steps of a commit *)

\* The broker persists the record a process sends.
LEMMA IInvProduce ==
  ASSUME IInv, Sane', NEW p \in Procs, Produce(p)
  PROVE  IInv'
<1>0. PICK v \in Proc : v = proc[p]
  BY Zenon DEF IInv, Sane, TypeOK
<1>1. PICK r \in Record : r = Pending(p)
  BY Zenon, <1>0, PendingFits DEF Produce
<1>2. /\ Fits(r)
      /\ \/ /\ v.role = "mount" /\ r = Sends(v) /\ r.key = v.sid
            /\ ~IsBirth(r) /\ After(r) = Apply(v.upper, Sends(v))
         \/ /\ Bearing(v) /\ r.key = v.child
            /\ IsBirth(r) /\ After(r) = v.upper
  BY <1>0, <1>1, PendingFits DEF Produce, Sends
<1> DEFINE k == r.key
<1>3. PICK n \in Nat : n = Len(LogOf(k))
  BY Zenon, SessionType DEF IInv, Sane, Record
<1> DEFINE s == v.sid
<1>a. PICK w : w = [v EXCEPT !.pc = "sent", !.off = n]
  BY Zenon
<1>4. /\ v.pc = "append" /\ Persist(r) /\ Becomes(p, w)
      /\ UNCHANGED <<limbo, oldest, images, listed, lineage>>
  BY Zenon, <1>0, <1>1, <1>3, <1>a DEF Produce, remote
<1>5. Shape(v) /\ Good(v) /\ w \in Proc
  BY Zenon, <1>0, <1>4, MoveType
<1>6. /\ w.pc = "sent" /\ w.role = v.role /\ w.sid = v.sid
      /\ w.child = v.child /\ w.to = v.to /\ w.upper = v.upper
      /\ w.seq = v.seq /\ w.lastOffset = v.lastOffset /\ w.op = v.op
      /\ w.off = n /\ w.diverged = v.diverged
      /\ w.ckptOff = v.ckptOff /\ w.ckptUpper = v.ckptUpper
  BY Zenon, <1>a DEF Proc
<1>7. s \in SessionIds /\ k \in SessionIds /\ Len(LogOf(s)) \in Nat /\ TypeOK
  <2>1. k \in SessionIds
    BY Zenon DEF Record
  <2>2. TypeOK
    BY Zenon DEF IInv, Sane
  <2> QED BY Zenon, <1>4, <1>5, <2>1, <2>2, Located
<1>8. Calm' /\ TruthIsReplay' /\ UnusedIds' /\ ImagesSound' /\ LineageSound'
  BY Zenon, <1>2, <1>4, StorePersist
<1>9. /\ Len(LogOf(k)') = n + 1 /\ LogOf(k)'[n + 1] = r
      /\ truth'[k][n + 2] = After(r) /\ Current(k)' = After(r)
      /\ \A m \in 1 .. n : LogOf(k)'[m] = LogOf(k)[m]
  <2>1. Len(truth[k]) = n + 1
    BY Zenon, <1>3, <1>7 DEF IInv, TruthIsReplay
  <2> QED BY Zenon, <1>3, <1>4, <1>7, <2>1, PersistSession
\* A process about a complete session is not about the child being born.
<1>10. ASSUME NEW x \in Proc, Holds(x), IsBirth(r) PROVE x.sid # k
  <2>1. lineage[k].parent # NoSession /\ images[k] = {}
    BY Zenon, <1>2, <1>10 DEF Fits, IsBirth
  <2> QED BY Zenon, <1>10, <2>1 DEF Holds
<1>11. Good(w)'
  <2>1. Grows(s) /\ Len(LogOf(s)') \in Nat
    <3>1. ~IsBirth(r) \/ s # k
      BY Zenon, <1>5, <1>10 DEF Good
    <3> QED BY Zenon, <1>4, <1>7, <3>1, PersistGrows
  <2>2. Holds(v)' /\ Uploads(v)'
    BY Zenon, <1>4, <1>5, <1>7, <2>1, HoldsKept DEF Good
  <2>3. Holds(w)'
    BY Zenon, <1>6, <2>2 DEF Holds
  <2>4. Uploads(w)'
    BY Zenon, <1>6, <2>2 DEF Uploads
  <2>5. Replays(w)'
    BY Zenon, <1>6 DEF Replays
  <2>6. Owns(w)'
    <3> SUFFICES ASSUME v.role = "mount" PROVE Owns(w)'
      BY Zenon, <1>6 DEF Owns
    <3>1. k = s /\ After(r) = Apply(v.upper, Sends(v))
      BY Zenon, <1>2 DEF Bearing
    <3>2. Sends(w) = Sends(v)
      BY Zenon, <1>6 DEF Sends
    <3>3. v.lastOffset < n
      <4>1. ~v.diverged
        BY Zenon, <1>4, <1>5 DEF Shape
      <4> QED BY Zenon, <1>3, <1>5, <3>1, <4>1 DEF Good, Holds
    <3>4. /\ v.op = Start => v.upper = New /\ lineage[s].parent = NoSession
          /\ v.op \in Ops => Check(v.upper.tree, v.op) /\ v.seq = v.upper.seqLast + 1
      BY Zenon, <1>4, <1>5 DEF Good, Owns
    <3>5. n < Len(LogOf(s)')
      BY <1>9, <3>1
    <3> QED BY Zenon, <1>4, <1>6, <1>9, <3>1, <3>2, <3>3, <3>4, <3>5 DEF Owns
  <2>7. Bears(w)'
    <3> SUFFICES ASSUME v.role = "branch" PROVE Bears(w)'
      BY Zenon, <1>6 DEF Bears, Bearing
    <3>1. Bearing(v) /\ k = v.child /\ After(r) = v.upper
      BY Zenon, <1>2
    <3>2. /\ k \in listed /\ lineage[k].parent # NoSession
          /\ lineage[k].birth = v.upper /\ images[k] = {} /\ Silent(k)
      BY Zenon, <1>4, <1>5, <3>1 DEF Good, Bears
    <3>3. ASSUME NEW m \in 1 .. Len(LogOf(k)'), BirthAt(k, m)' PROVE m = n + 1
      <4> SUFFICES ASSUME m \in 1 .. n PROVE FALSE
        BY <1>9
      <4>1. LogOf(k)[m].key = k
        BY Zenon, <1>9, <3>3 DEF BirthAt
      <4> QED BY Zenon, <1>3, <3>2, <4>1 DEF Silent
    <3>4. n < Len(LogOf(k)')
      BY <1>9
    <3> QED BY Zenon, <1>4, <1>6, <1>9, <3>1, <3>2, <3>3, <3>4 DEF Bears
  <2> QED BY Zenon, <2>3, <2>4, <2>5, <2>6, <2>7 DEF Good
<1>12. ASSUME NEW q \in Procs \ {p}, NEW x \in Proc, x = proc[q], x.pc # "idle"
       PROVE  Good(x)'
  <2>1. Shape(x) /\ Good(x)
    BY Zenon, <1>12 DEF IInv, Sane, ProcSound
  <2>2. x.sid \in SessionIds /\ (Bearing(x) => x.child \in SessionIds)
    BY Zenon, <1>12, <2>1 DEF Shape
  <2>3. ~IsBirth(r) \/ x.sid # k
    BY Zenon, <1>10, <2>1 DEF Good
  <2>4. x.role = "mount" => x.sid # k
    <3>1. CASE v.role = "mount" /\ k = s
      BY Zenon, <1>0, <1>12, <3>1 DEF IInv, Exclusive, Mounting
    <3> QED BY Zenon, <1>2, <2>3, <3>1
  <2>5. Bearing(x) => x.child # k
    <3>1. CASE Bearing(v) /\ k = v.child
      BY Zenon, <1>0, <1>12, <3>1 DEF IInv, Exclusive
    <3>2. CASE k = s
      <4>1. lineage[s].parent = NoSession \/ images[s] # {}
        BY Zenon, <1>5 DEF Good, Holds
      <4>2. Bearing(x) => lineage[x.child].parent # NoSession /\ images[x.child] = {}
        BY Zenon, <2>1 DEF Good, Bears
      <4> QED BY Zenon, <3>2, <4>1, <4>2
    <3> QED BY Zenon, <1>2, <3>1, <3>2
  <2>6. Grows(x.sid) /\ Len(LogOf(x.sid)') \in Nat
    BY Zenon, <1>4, <2>2, <2>3, PersistGrows
  <2>7. x.role = "mount" => Current(x.sid)' = Current(x.sid)
    BY Zenon, <1>4, <2>2, <2>4, PersistGrows
  <2>8. Bearing(x) =>
          /\ Longer(x.child) /\ NoNewBirth(x.child) /\ Len(LogOf(x.child)') \in Nat
          /\ images'[x.child] = images[x.child]
          /\ Silent(x.child) => Silent(x.child)'
    BY Zenon, <1>4, <2>2, <2>5, PersistGrows
  <2>9. Supports(x)
    BY Zenon, <2>6, <2>7, <2>8 DEF Supports
  <2> QED BY Zenon, <1>7, <1>12, <2>1, <2>6, <2>8, <2>9, GoodKept
<1>13. ProcSound'
  <2> SUFFICES ASSUME NEW q \in Procs, proc'[q].pc # "idle"
               PROVE  Good(proc[q])'
    BY Zenon DEF ProcSound
  <2>1. PICK x \in Proc : x = proc'[q]
    BY Zenon DEF Sane, TypeOK
  <2>2. CASE q = p
    BY Zenon, <1>4, <1>11, <2>1, <2>2, Moved, GoodAt
  <2>3. CASE q # p
    <3>1. x = proc[q]
      BY Zenon, <1>4, <2>1, <2>3, Moved
    <3> QED BY Zenon, <1>12, <2>1, <2>3, <3>1, GoodAt
  <2> QED BY Zenon, <2>2, <2>3
<1>14. Exclusive'
  <2>1. Alone(p, w)
    BY Zenon, <1>0, <1>4, <1>5, <1>6, AloneKept DEF IInv, Bearing
  <2> QED BY Zenon, <1>4, <1>5, <2>1, ExclusiveKept DEF IInv
<1> QED BY Zenon, <1>8, <1>13, <1>14 DEF IInv

\* commitLocked up to the append.
LEMMA IInvCommit ==
  ASSUME IInv, Sane', NEW p \in Procs, NEW o \in Ops, Commit(p, o)
  PROVE  IInv'
<1> DEFINE v == proc[p]
           s == v.sid
<1>0. PICK w : w = [v EXCEPT !.pc = "append", !.op = o, !.seq = v.seq + 1]
  BY Zenon
<1>1. Becomes(p, w) /\ v.pc = "open" /\ ~v.diverged /\ Check(v.upper.tree, o)
  BY Zenon, <1>0 DEF Commit, Fenced
<1>2. v \in Proc /\ Shape(v) /\ Good(v) /\ w \in Proc
  BY Zenon, <1>1, MoveType
<1> HIDE DEF v
<1>4. /\ w.pc = "append" /\ w.role = v.role /\ w.sid = v.sid
      /\ w.child = v.child /\ w.to = v.to /\ w.upper = v.upper
      /\ w.seq = v.seq + 1 /\ w.lastOffset = v.lastOffset
      /\ w.cursor = v.cursor /\ w.limit = v.limit /\ w.op = o
      /\ w.off = v.off /\ w.diverged = v.diverged
      /\ w.ckptOff = v.ckptOff /\ w.ckptUpper = v.ckptUpper
  BY <1>0, <1>2 DEF Proc
<1>6. Holds(w)
  BY Zenon, <1>2, <1>4, SameHolds DEF Good
<1>7. Replays(w)
  BY Zenon, <1>4, NoReplay
<1>8. Owns(w)
  <2>1. o # Start
    BY Zenon, ConstantsAssumption
  <2>2. v.role = "mount" /\ v.seq = v.upper.seqLast /\ v.upper = Current(s)
    BY Zenon, <1>1, <1>2 DEF Shape, Good, Owns
  <2> QED BY Zenon, <1>1, <1>4, <2>1, <2>2 DEF Owns
<1>9. Bears(w)
  BY Zenon, <1>1, <1>2, <1>4 DEF Shape, Bears, Bearing
<1>10. Uploads(w)
  BY Zenon, <1>2, <1>4, SameUploads DEF Good
<1>11. Alone(p, w)
  BY Zenon, <1>1, <1>2, <1>4, AloneKept DEF v, IInv, Bearing, Shape
<1> QED BY Zenon, <1>1, <1>2, <1>6, <1>7, <1>8, <1>9, <1>10, <1>11, IInvLocal
       DEF Good, Commit, broker, remote

\* commitLocked after the append: cover the offset, apply the event.
LEMMA IInvAckCommit ==
  ASSUME IInv, Sane', NEW p \in Procs, AckCommit(p)
  PROVE  IInv'
<1> DEFINE v == proc[p]
           s == v.sid
<1>0. PICK w : w = [v EXCEPT !.pc = "open", !.op = NoOp,
                             !.lastOffset = v.off, !.off = 0,
                             !.upper = IF Accepts(v.upper, Pending(p))
                                       THEN Apply(v.upper, Pending(p))
                                       ELSE v.upper]
  BY Zenon
<1>1. Becomes(p, w) /\ v.pc = "sent" /\ v.op \in Ops
  BY Zenon, <1>0 DEF AckCommit
<1>2. v \in Proc /\ Shape(v) /\ Good(v) /\ w \in Proc
  BY Zenon, <1>1, MoveType
<1>3. /\ v.role = "mount" /\ v.op # Start
      /\ (IF Accepts(v.upper, Pending(p)) THEN Apply(v.upper, Pending(p))
          ELSE v.upper) = Apply(v.upper, Sends(v))
  <2>1. v.role = "mount" /\ v.op # Start
    <3>1. v.op # Start
      BY Zenon, <1>1, ConstantsAssumption
    <3> HIDE DEF v
    <3>2. v.role = "mount" \/ v.op = Start
      BY Zenon, <1>1, <1>2 DEF Shape
    <3> QED BY Zenon, <3>1, <3>2
  <2>2. Pending(p) = Sends(v)
    BY Zenon, <2>1 DEF Pending, Sends
  <2>3. v.seq = v.upper.seqLast + 1 /\ Check(v.upper.tree, v.op)
    BY Zenon, <1>1, <1>2, <2>1 DEF Good, Owns
  <2>4. v.upper.seqLast \in Nat
    BY Zenon, <1>2 DEF Proc, Upper
  <2>5. Accepts(v.upper, Sends(v))
    BY <2>1, <2>3, <2>4 DEF Accepts, Sends
  <2> QED BY Zenon, <2>1, <2>2, <2>5
<1>c. PICK u : u = Apply(v.upper, Sends(v))
  BY Zenon
<1>d. w = [v EXCEPT !.pc = "open", !.op = NoOp, !.lastOffset = v.off,
                    !.off = 0, !.upper = u]
  BY Zenon, <1>0, <1>3, <1>c
<1> HIDE DEF v
<1>4. /\ w.pc = "open" /\ w.role = v.role /\ w.sid = v.sid
      /\ w.child = v.child /\ w.to = v.to
      /\ w.upper = u
      /\ w.seq = v.seq /\ w.lastOffset = v.off /\ w.cursor = v.cursor
      /\ w.limit = v.limit /\ w.op = NoOp /\ w.off = 0
      /\ w.diverged = v.diverged /\ w.ckptOff = v.ckptOff
      /\ w.ckptUpper = v.ckptUpper
  BY <1>2, <1>d DEF Proc
<1>5. s \in SessionIds /\ Len(LogOf(s)) \in Nat
  BY Zenon, <1>1, <1>2, Located
<1>a. /\ v.lastOffset < v.off /\ v.off < Len(LogOf(s))
      /\ truth[s][v.off + 2] = w.upper /\ Current(s) = w.upper
      /\ v.to = -1 /\ ~v.diverged /\ w.upper.seqLast = v.seq
  <2>1. Apply(v.upper, Sends(v)).seqLast = v.seq
    BY Zenon, <1>3 DEF Apply, Sends
  <2>2. v.to = -1 /\ ~v.diverged
    BY Zenon, <1>1, <1>2, <1>3 DEF Shape
  <2>3. Owns(v)
    BY Zenon, <1>2 DEF Good
  <2>4. /\ v.lastOffset < v.off /\ v.off < Len(LogOf(v.sid))
        /\ truth[v.sid][v.off + 2] = Apply(v.upper, Sends(v))
        /\ Current(v.sid) = Apply(v.upper, Sends(v))
    BY Zenon, <1>1, <1>3, <2>3 DEF Owns
  <2> QED BY Zenon, <1>4, <1>c, <2>1, <2>2, <2>4
<1>b. BornBy(s, v.off + 1)
  <2>1. BornBy(s, v.lastOffset + 1)
    BY SMTT(30), <1>2, <1>a, FieldType DEF Good, Holds
  <2> QED BY SMTT(30), <1>2, <1>5, <1>a, <2>1, FieldType DEF BornBy
<1>6. Holds(w)
  <2>1. v.sid \in listed /\ (lineage[v.sid].parent = NoSession \/ images[v.sid] # {})
    BY Zenon, <1>2 DEF Good, Holds
  <2>2. w.lastOffset >= -1 /\ w.lastOffset < Len(LogOf(w.sid))
    BY SMTT(30), <1>2, <1>4, <1>5, <1>a, FieldType
  <2>3. w.upper = truth[w.sid][w.lastOffset + 2] /\ BornBy(w.sid, w.lastOffset + 1)
    BY Zenon, <1>4, <1>a, <1>b
  <2>4. w.role # "branch"
    BY Zenon, <1>3, <1>4
  <2> QED BY Zenon, <1>4, <2>1, <2>2, <2>3, <2>4 DEF Holds
<1>7. Replays(w)
  BY Zenon, <1>4, NoReplay
<1>8. Owns(w)
  BY Zenon, <1>1, <1>4, <1>a DEF Owns
<1>9. Bears(w)
  BY Zenon, <1>4, NoBirth
<1>10. Uploads(w)
  BY Zenon, <1>2, <1>4, SameUploads DEF Good
<1>11. Alone(p, w)
  BY Zenon, <1>1, <1>2, <1>4, AloneKept DEF v, IInv, Bearing
<1> QED BY Zenon, <1>1, <1>2, <1>6, <1>7, <1>8, <1>9, <1>10, <1>11, IInvLocal
       DEF Good, AckCommit, broker, remote

\* A failed append fences the object.
LEMMA IInvCommitFails ==
  ASSUME IInv, Sane', Mild, NEW p \in Procs, CommitFails(p)
  PROVE  IInv'
<1> DEFINE v == proc[p]
           s == v.sid
<1>0. PICK w : w = [v EXCEPT !.pc = "open", !.op = NoOp, !.off = 0,
                             !.diverged = TRUE, !.lastOffset = -1]
  BY Zenon
<1>1. Becomes(p, w) /\ v.pc \in {"append", "sent"} /\ v.op \in Ops /\ limbo' = limbo
  BY Zenon, <1>0, MildFaults DEF CommitFails, Leaves
<1>2. v \in Proc /\ Shape(v) /\ Good(v) /\ w \in Proc
  BY Zenon, <1>1, MoveType
<1> HIDE DEF v
<1>4. /\ w.pc = "open" /\ w.role = v.role /\ w.sid = v.sid
      /\ w.child = v.child /\ w.to = v.to /\ w.upper = v.upper
      /\ w.seq = v.seq /\ w.lastOffset = -1 /\ w.cursor = v.cursor
      /\ w.limit = v.limit /\ w.op = NoOp /\ w.off = 0
      /\ w.diverged = TRUE /\ w.ckptOff = v.ckptOff
      /\ w.ckptUpper = v.ckptUpper
  BY <1>0, <1>2 DEF Proc
<1>6. Holds(w)
  BY Zenon, <1>2, <1>4, FencedHolds DEF Good
<1>7. Replays(w)
  BY Zenon, <1>4, NoReplay
<1>8. Owns(w)
  BY Zenon, <1>1, <1>4 DEF Owns
<1>9. Bears(w)
  BY Zenon, <1>4, NoBirth
<1>10. Uploads(w)
  BY Zenon, <1>2, <1>4, SameUploads DEF Good
<1>11. Alone(p, w)
  BY Zenon, <1>1, <1>2, <1>4, AloneKept DEF v, IInv, Bearing
<1> QED BY Zenon, <1>1, <1>2, <1>6, <1>7, <1>8, <1>9, <1>10, <1>11, IInvLocal
       DEF Good, CommitFails, broker, remote
-----------------------------------------------------------------------------
(* Every step of Session is a step of Store, under the invariant *)

\* What process record w makes of the view.
LEMMA ViewMoves ==
  ASSUME IInv, NEW p \in Procs, NEW w, Becomes(p, w)
  PROVE  ViewOf' = [ViewOf EXCEPT ![p] = Sees(w)]
<1>1. \A q \in Procs : proc'[q] = IF q = p THEN w ELSE proc[q]
  BY Zenon, Moved
<1>2. \A q \in Procs : Sees(proc'[q]) = IF q = p THEN Sees(w) ELSE Sees(proc[q])
  BY Zenon, <1>1
<1>3. ViewOf' = [q \in Procs |-> Sees(proc'[q])]
  BY Zenon DEF ViewOf, Sees, Shows, Nothing
<1> QED BY Zenon, <1>2, <1>3 DEF ViewOf

\* A process that shows a session shows one of its own.
LEMMA ViewHas ==
  ASSUME IInv, NEW p \in Procs
  PROVE  /\ ViewOf[p] = Sees(proc[p])
         /\ Shows(proc[p]) <=> ViewOf[p] # Nothing
         /\ Shows(proc[p]) => /\ ViewOf[p].sid = proc[p].sid
                              /\ ViewOf[p].tree = proc[p].upper.tree
                              /\ proc[p].sid \in SessionIds
<1>1. ViewOf[p] = Sees(proc[p])
  BY Zenon DEF ViewOf
<1>2. Shows(proc[p]) => proc[p].sid \in SessionIds /\ proc[p].pc # "idle"
  BY Zenon DEF IInv, Sane, Shape, Shows
<1> QED BY <1>1, <1>2, ConstantsAssumption DEF Sees, Nothing

\* A step of p on its own object, as Store sees it.
LEMMA LocalImplements ==
  ASSUME IInv, NEW p \in Procs, NEW w, Becomes(p, w), UNCHANGED truth,
         \/ Sees(w) = Sees(proc[p])
         \/ Sees(w) = Nothing
         \/ /\ Shows(proc[p]) \/ (Mounting(p) /\ proc[p].sid \in SessionIds)
            /\ Sees(w) = [sid |-> proc[p].sid, tree |-> Current(proc[p].sid).tree]
  PROVE  StoreStep
<1>1. StateOf' = StateOf /\ PastOf' = PastOf
  BY Zenon DEF StateOf, PastOf, Current, TreesOf
<1>2. ViewOf' = [ViewOf EXCEPT ![p] = Sees(w)] /\ ViewOf[p] = Sees(proc[p])
  BY Zenon, ViewMoves, ViewHas
<1>3. CASE Sees(w) = Sees(proc[p])
  <2>1. ViewOf' = ViewOf
    BY Zenon, <1>2, <1>3 DEF ViewOf
  <2> QED BY Zenon, <1>1, <2>1 DEF StoreStep, Abstract!svars
<1>4. CASE Sees(w) = Nothing
  <2>1. Abstract!Stop(p)
    BY Zenon, <1>1, <1>2, <1>4 DEF Abstract!Stop
  <2> QED BY Zenon, <2>1 DEF StoreStep, Abstract!Next
<1>5. CASE /\ Shows(proc[p])
           /\ Sees(w) = [sid |-> proc[p].sid, tree |-> Current(proc[p].sid).tree]
  <2>1. /\ ViewOf[p] # Nothing /\ ViewOf[p].sid \in SessionIds
        /\ StateOf[ViewOf[p].sid] = Current(proc[p].sid).tree
    BY Zenon, <1>5, ViewHas DEF StateOf
  <2>2. ViewOf' = [ViewOf EXCEPT ![p] = [sid |-> ViewOf[p].sid,
                                         tree |-> StateOf[ViewOf[p].sid]]]
    BY Zenon, <1>2, <1>5, <2>1, ViewHas
  <2>3. Abstract!Answer(p)
    BY Zenon, <1>1, <2>1, <2>2 DEF Abstract!Answer
  <2> QED BY Zenon, <2>3 DEF StoreStep, Abstract!Next
<1>6. CASE /\ ~Shows(proc[p]) /\ Mounting(p) /\ proc[p].sid \in SessionIds
           /\ Sees(w) = [sid |-> proc[p].sid, tree |-> Current(proc[p].sid).tree]
  <2>1. PICK s \in SessionIds : s = proc[p].sid
    BY Zenon, <1>6
  <2>2. ViewOf[p] = Nothing /\ StateOf[s] = Current(s).tree
    BY Zenon, <1>6, <2>1, ViewHas DEF StateOf
  <2>3. ASSUME NEW q \in Procs, ViewOf[q] # Nothing, ViewOf[q].sid = s PROVE FALSE
    <3>1. Shows(proc[q]) /\ proc[q].sid = s
      BY Zenon, <2>3, ViewHas
    <3>2. Mounting(q) /\ q # p
      BY Zenon, <1>6, <3>1 DEF Shows, Mounting
    <3> QED BY Zenon, <1>6, <2>1, <3>1, <3>2 DEF IInv, Exclusive
  <2>4. Abstract!Mount(p, s)
    BY Zenon, <1>1, <1>2, <1>6, <2>1, <2>2, <2>3 DEF Abstract!Mount, Abstract!Shown
  <2> QED BY Zenon, <2>4 DEF StoreStep, Abstract!Next
<1> QED BY Zenon, <1>3, <1>4, <1>5, <1>6

\* Appending a state adds its tree to those the session has had.
LEMMA TreesOfAppend ==
  ASSUME NEW t \in Seq(Upper), NEW x \in Upper
  PROVE  TreesOf(Append(t, x)) = TreesOf(t) \cup {x.tree}
<1> DEFINE u == Append(t, x)
           n == Len(t)
<1>1. /\ n \in Nat /\ Len(u) = n + 1 /\ u[n + 1] = x
      /\ \A i \in 1 .. n : u[i] = t[i]
  OBVIOUS
<1> HIDE DEF u
<1>2. \A i \in 1 .. n + 1 : i \in 1 .. n \/ i = n + 1
  BY <1>1
<1>3. 1 .. n \subseteq 1 .. n + 1 /\ n + 1 \in 1 .. n + 1
  BY <1>1
<1>4. {u[i].tree : i \in 1 .. n + 1} = {t[i].tree : i \in 1 .. n} \cup {x.tree}
  BY <1>1, <1>2, <1>3, Zenon
<1> QED BY Zenon, <1>1, <1>4 DEF TreesOf, u

\* Nothing is shown by an object that is no mount, or not loaded.
LEMMA SeesNothing ==
  ASSUME NEW w, \/ w.role # "mount"
                \/ w.pc \notin {"loaded", "open", "append", "sent"}
                \/ w.pc \in {"append", "sent"} /\ w.op = Start
  PROVE  Sees(w) = Nothing
  BY Zenon, ConstantsAssumption DEF Sees, Shows

\* p shows nothing after the step.
LEMMA Hides ==
  ASSUME IInv, NEW p \in Procs, NEW w, Becomes(p, w), UNCHANGED truth,
         \/ w.role # "mount"
         \/ w.pc \notin {"loaded", "open", "append", "sent"}
         \/ w.pc \in {"append", "sent"} /\ w.op = Start
  PROVE  StoreStep
<1>1. Sees(w) = Nothing
  BY Zenon, SeesNothing
<1> QED BY Zenon, <1>1, LocalImplements

\* p shows after the step what it showed.
LEMMA Keeps ==
  ASSUME IInv, NEW p \in Procs, NEW v, v = proc[p], NEW w, Becomes(p, w),
         UNCHANGED truth, w.role = v.role, w.sid = v.sid, w.upper = v.upper,
         Shows(w) <=> Shows(v)
  PROVE  StoreStep
<1>1. Sees(w) = Sees(v)
  BY Zenon DEF Sees
<1> QED BY Zenon, <1>1, LocalImplements

\* p shows all of its session after the step.
LEMMA Completes ==
  ASSUME IInv, NEW p \in Procs, NEW v, v = proc[p], NEW w, Becomes(p, w),
         UNCHANGED truth, v.role = "mount", v.sid \in SessionIds,
         w.role = v.role, w.sid = v.sid, w.pc \in {"loaded", "open"},
         w.upper = Current(v.sid)
  PROVE  StoreStep
<1>1. Sees(w) = [sid |-> v.sid, tree |-> Current(v.sid).tree]
  BY Zenon DEF Sees, Shows
<1>2. Mounting(p)
  BY Zenon DEF Mounting
<1> QED BY Zenon, <1>1, <1>2, LocalImplements

\* An image that Restore finds, or none, is read into a new object.
LEMMA RestoreReads ==
  ASSUME NEW p, NEW s, NEW role, NEW to, Restore(p, s, role, to)
  PROVE  \E w : Becomes(p, w) /\ w.pc = "read"
<1> DEFINE From(u, n) == [Idle EXCEPT !.pc = "read", !.role = role, !.sid = s,
                            !.to = to, !.upper = u, !.cursor = n,
                            !.lastOffset = n - 1, !.savedOffset = n - 1]
<1>1. \A u, n : From(u, n).pc = "read"
  BY Zenon DEF Idle
<1>2. \E u, n : Becomes(p, From(u, n))
  BY Zenon DEF Restore
<1> QED BY Zenon, <1>1, <1>2

\* The beginnings and the ends of commands.
LEMMA BoundsImplement ==
  ASSUME IInv, NEW p \in Procs
  PROVE  /\ \A s \in SessionIds : NewSession(p, s) => StoreStep
         /\ \A s \in SessionIds, role \in {"mount", "tool"} :
              Open(p, s, role) => StoreStep
         /\ \A s \in SessionIds, to \in -1 .. MaxLog : Branch(p, s, to) => StoreStep
         /\ SaveBirth(p) \/ Exit(p) \/ Unmount(p) \/ Crash(p) => StoreStep
<1>1. ASSUME NEW s \in SessionIds, NewSession(p, s) PROVE StoreStep
  <2>1. PICK w : w = [Idle EXCEPT !.pc = "append", !.role = "mount", !.sid = s,
                                  !.op = Start]
    BY Zenon
  <2>2. w.pc = "append" /\ w.op = Start
    BY Zenon, <2>1 DEF Idle
  <2>3. Becomes(p, w) /\ UNCHANGED truth
    BY Zenon, <1>1, <2>1 DEF NewSession, broker
  <2> QED BY Zenon, <2>2, <2>3, Hides
<1>2. ASSUME NEW s, NEW role, NEW to, Restore(p, s, role, to), UNCHANGED truth
      PROVE  StoreStep
  <2>1. PICK w : Becomes(p, w) /\ w.pc = "read"
    BY Zenon, <1>2, RestoreReads
  <2> QED BY Zenon, <1>2, <2>1, Hides
<1>3. ASSUME Becomes(p, Idle), UNCHANGED truth PROVE StoreStep
  <2>1. Idle.pc = "idle"
    BY Zenon DEF Idle
  <2> QED BY Zenon, <1>3, <2>1, Hides
<1>4. ASSUME SaveBirth(p) \/ Exit(p) \/ Unmount(p) \/ Crash(p) PROVE StoreStep
  <2>1. Becomes(p, Idle) /\ UNCHANGED truth
    BY Zenon, <1>4 DEF SaveBirth, Exit, Unmount, Crash, broker
  <2> QED BY Zenon, <1>3, <2>1
<1>5. ASSUME NEW s, NEW role, Open(p, s, role) PROVE StoreStep
  <2>1. Restore(p, s, role, -1) /\ UNCHANGED truth
    BY Zenon, <1>5 DEF Open, broker
  <2> QED BY Zenon, <1>2, <2>1
<1>6. ASSUME NEW s, NEW to, Branch(p, s, to) PROVE StoreStep
  <2>1. Restore(p, s, "branch", to) /\ UNCHANGED truth
    BY Zenon, <1>6 DEF Branch, broker
  <2> QED BY Zenon, <1>2, <2>1
<1> QED BY Zenon, <1>1, <1>4, <1>5, <1>6

\* Replaying, and making a child.
LEMMA ReplayImplements ==
  ASSUME IInv, NEW p \in Procs
  PROVE  /\ \A c \in SessionIds : RegisterChild(p, c) => StoreStep
         /\ AckChild(p) => StoreStep
         /\ ReadEnd(p) => StoreStep
         /\ Replay(p) => StoreStep
         /\ ReplayDone(p) => StoreStep
<1>1. PICK v \in Proc : v = proc[p]
  BY Zenon DEF IInv, Sane, TypeOK
<1>2. ASSUME NEW c \in SessionIds, RegisterChild(p, c) PROVE StoreStep
  <2>1. PICK w : w = [v EXCEPT !.pc = "append", !.child = c, !.op = Start]
    BY Zenon
  <2>2. w.pc = "append" /\ w.op = Start
    BY Zenon, <2>1 DEF Proc
  <2>3. Becomes(p, w) /\ UNCHANGED truth
    BY Zenon, <1>1, <1>2, <2>1 DEF RegisterChild, broker
  <2> QED BY Zenon, <2>2, <2>3, Hides
<1>3. ASSUME AckChild(p) PROVE StoreStep
  <2>1. PICK w : w = [v EXCEPT !.pc = "image", !.op = NoOp]
    BY Zenon
  <2>2. w.pc = "image"
    BY Zenon, <2>1 DEF Proc
  <2>3. Becomes(p, w) /\ UNCHANGED truth
    BY Zenon, <1>1, <1>3, <2>1 DEF AckChild, broker
  <2> QED BY Zenon, <2>2, <2>3, Hides
<1>4. ASSUME ReadEnd(p) PROVE StoreStep
  <2>1. PICK c, l : Becomes(p, [v EXCEPT !.pc = "replay", !.cursor = c, !.limit = l])
    BY Zenon, <1>1, <1>4 DEF ReadEnd
  <2>2. PICK w : w = [v EXCEPT !.pc = "replay", !.cursor = c, !.limit = l]
    BY Zenon
  <2>3. w.pc = "replay"
    BY Zenon, <2>2 DEF Proc
  <2>4. Becomes(p, w) /\ UNCHANGED truth
    BY Zenon, <1>4, <2>1, <2>2 DEF ReadEnd, broker
  <2> QED BY Zenon, <2>3, <2>4, Hides
<1>5. ASSUME Replay(p) PROVE StoreStep
  <2>1. v.pc = "replay" /\ UNCHANGED truth
    BY Zenon, <1>1, <1>5 DEF Replay, broker
  <2>2. PICK w, x, y :
          /\ w = [v EXCEPT !.cursor = v.cursor + 1]
          /\ x = [v EXCEPT !.cursor = v.cursor + 1, !.lastOffset = v.cursor,
                    !.upper = Apply(v.upper, LogOf(v.sid)[v.cursor + 1])]
          /\ y = Idle
    BY Zenon
  <2>3. w.pc = "replay" /\ x.pc = "replay"
    BY Zenon, <2>1, <2>2 DEF Proc
  <2>4. y.pc = "idle"
    BY Zenon, <2>2 DEF Idle
  <2>5. Becomes(p, w) \/ Becomes(p, x) \/ Becomes(p, y)
    BY Zenon, <1>1, <1>5, <2>2 DEF Replay
  <2> QED BY Zenon, <2>1, <2>3, <2>4, <2>5, Hides
<1>6. ASSUME ReplayDone(p) PROVE StoreStep
  <2>1. PICK w : w = [v EXCEPT !.pc = IF v.role = "branch" THEN "replayed"
                                      ELSE "loaded",
                               !.seq = v.upper.seqLast, !.cursor = 0, !.limit = 0]
    BY Zenon
  <2>2. /\ w.pc = IF v.role = "branch" THEN "replayed" ELSE "loaded"
        /\ w.role = v.role /\ w.sid = v.sid /\ w.upper = v.upper
    BY Zenon, <2>1 DEF Proc
  <2>3. /\ v.pc = "replay" /\ v.cursor >= v.limit
        /\ Becomes(p, w) /\ UNCHANGED truth
    BY Zenon, <1>1, <1>6, <2>1 DEF ReplayDone, broker
  <2>4. CASE v.role = "mount"
    <3>1. Shape(v) /\ Good(v)
      BY Zenon, <1>1, <2>3 DEF IInv, Sane, ProcSound
    <3>2. v.sid \in SessionIds
      BY Zenon, <2>3, <3>1 DEF Shape
    <3>3. v.cursor \in Nat /\ v.limit \in Nat
      BY Zenon, FieldType
    <3>4. /\ v.cursor <= v.limit /\ v.upper = truth[v.sid][v.cursor + 1]
          /\ truth[v.sid][v.limit + 1] = Current(v.sid)
      BY Zenon, <2>3, <2>4, <3>1 DEF Good, Replays
    <3>5. v.cursor = v.limit
      BY SMTT(30), <2>3, <3>3, <3>4
    <3>6. w.upper = Current(v.sid)
      BY Zenon, <2>2, <3>4, <3>5
    <3> QED BY Zenon, <1>1, <2>2, <2>3, <2>4, <3>2, <3>6, Completes
  <2>5. CASE v.role # "mount"
    BY Zenon, <2>2, <2>3, <2>5, Hides
  <2> QED BY Zenon, <2>4, <2>5
<1> QED BY Zenon, <1>2, <1>3, <1>4, <1>5, <1>6

\* Claiming, renewing and checkpointing.
LEMMA ServeImplements ==
  ASSUME IInv, NEW p \in Procs
  PROVE  /\ Claim(p) => StoreStep
         /\ Renew(p) => StoreStep
         /\ Snapshot(p) => StoreStep
         /\ SaveImage(p) => StoreStep
         /\ SaveFails(p) => StoreStep
<1>1. PICK v \in Proc : v = proc[p]
  BY Zenon DEF IInv, Sane, TypeOK
<1>2. ASSUME Claim(p) PROVE StoreStep
  <2>1. PICK w : w = [v EXCEPT !.pc = "open"]
    BY Zenon
  <2>2. w.pc = "open" /\ w.role = v.role /\ w.sid = v.sid /\ w.upper = v.upper
    BY Zenon, <2>1 DEF Proc
  <2>3. v.pc = "loaded" /\ Becomes(p, w) /\ UNCHANGED truth
    BY Zenon, <1>1, <1>2, <2>1 DEF Claim, broker
  <2>4. Shows(w) <=> Shows(v)
    BY Zenon, <2>2, <2>3 DEF Shows
  <2> QED BY Zenon, <1>1, <2>2, <2>3, <2>4, Keeps
<1>3. ASSUME NEW w, Becomes(p, w), UNCHANGED truth, w.pc = v.pc, w.op = v.op,
             w.role = v.role, w.sid = v.sid, w.upper = v.upper
      PROVE  StoreStep
  <2>1. Shows(w) <=> Shows(v)
    BY Zenon, <1>3 DEF Shows
  <2> QED BY Zenon, <1>1, <1>3, <2>1, Keeps
<1>4. ASSUME Renew(p) PROVE StoreStep
  <2>1. PICK w : w = [v EXCEPT !.leaseLost = TRUE]
    BY Zenon
  <2>2. /\ w.pc = v.pc /\ w.op = v.op /\ w.role = v.role /\ w.sid = v.sid
        /\ w.upper = v.upper
    BY Zenon, <2>1 DEF Proc
  <2>3. UNCHANGED truth /\ (UNCHANGED proc \/ Becomes(p, w))
    BY Zenon, <1>1, <1>4, <2>1 DEF Renew, broker
  <2>4. UNCHANGED proc => Becomes(p, v)
    BY Zenon, <1>1 DEF Becomes, IInv, Sane, TypeOK
  <2> QED BY Zenon, <1>3, <2>2, <2>3, <2>4
<1>5. ASSUME Snapshot(p) PROVE StoreStep
  <2>1. PICK w : w = [v EXCEPT !.ckptOff = v.lastOffset, !.ckptUpper = v.upper]
    BY Zenon
  <2>2. /\ w.pc = v.pc /\ w.op = v.op /\ w.role = v.role /\ w.sid = v.sid
        /\ w.upper = v.upper
    BY Zenon, <2>1 DEF Proc
  <2>3. Becomes(p, w) /\ UNCHANGED truth
    BY Zenon, <1>1, <1>5, <2>1 DEF Snapshot, broker
  <2> QED BY Zenon, <1>3, <2>2, <2>3
<1>6. ASSUME SaveImage(p) \/ SaveFails(p) PROVE StoreStep
  <2>1. PICK w, x : /\ w = [v EXCEPT !.ckptOff = -1, !.ckptUpper = New]
                    /\ x = [v EXCEPT !.savedOffset = v.ckptOff, !.ckptOff = -1,
                                     !.ckptUpper = New]
    BY Zenon
  <2>2. /\ w.pc = v.pc /\ w.op = v.op /\ w.role = v.role /\ w.sid = v.sid
        /\ w.upper = v.upper
    BY Zenon, <2>1 DEF Proc
  <2>3. /\ x.pc = v.pc /\ x.op = v.op /\ x.role = v.role /\ x.sid = v.sid
        /\ x.upper = v.upper
    BY Zenon, <2>1 DEF Proc
  <2>4. UNCHANGED truth /\ (Becomes(p, w) \/ Becomes(p, x))
    BY Zenon, <1>1, <1>6, <2>1 DEF SaveImage, SaveFails, broker
  <2> QED BY Zenon, <1>3, <2>2, <2>3, <2>4
<1> QED BY Zenon, <1>2, <1>4, <1>5, <1>6

\* A commit, but for the append itself.
LEMMA CommitImplements ==
  ASSUME IInv, NEW p \in Procs
  PROVE  /\ \A o \in Ops : Commit(p, o) => StoreStep
         /\ CommitFails(p) => StoreStep
         /\ AckStart(p) => StoreStep
         /\ AckCommit(p) => StoreStep
<1>1. PICK v \in Proc : v = proc[p]
  BY Zenon DEF IInv, Sane, TypeOK
<1>2. ASSUME NEW o \in Ops, Commit(p, o) PROVE StoreStep
  <2>1. PICK w : w = [v EXCEPT !.pc = "append", !.op = o, !.seq = v.seq + 1]
    BY Zenon
  <2>2. /\ w.pc = "append" /\ w.op \in Ops /\ w.role = v.role /\ w.sid = v.sid
        /\ w.upper = v.upper
    BY Zenon, <2>1 DEF Proc
  <2>3. v.pc = "open" /\ Becomes(p, w) /\ UNCHANGED truth
    BY Zenon, <1>1, <1>2, <2>1 DEF Commit, broker
  <2>4. Shows(w) <=> Shows(v)
    BY Zenon, <2>2, <2>3 DEF Shows
  <2> QED BY Zenon, <1>1, <2>2, <2>3, <2>4, Keeps
<1>3. ASSUME CommitFails(p) PROVE StoreStep
  <2>1. PICK w : w = [v EXCEPT !.pc = "open", !.op = NoOp, !.off = 0,
                               !.diverged = TRUE, !.lastOffset = -1]
    BY Zenon
  <2>2. w.pc = "open" /\ w.role = v.role /\ w.sid = v.sid /\ w.upper = v.upper
    BY Zenon, <2>1 DEF Proc
  <2>3. /\ v.pc \in {"append", "sent"} /\ v.op \in Ops
        /\ Becomes(p, w) /\ UNCHANGED truth
    BY Zenon, <1>1, <1>3, <2>1 DEF CommitFails
  <2>4. Shows(w) <=> Shows(v)
    BY Zenon, <2>2, <2>3 DEF Shows
  <2> QED BY Zenon, <1>1, <2>2, <2>3, <2>4, Keeps
<1>4. ASSUME v.pc = "sent", v.role = "mount"
      PROVE  /\ v.sid \in SessionIds /\ Pending(p) = Sends(v)
             /\ Current(v.sid) = Apply(v.upper, Sends(v))
             /\ v.op \in Ops => Accepts(v.upper, Sends(v))
  <2>1. Shape(v) /\ Good(v)
    BY Zenon, <1>1, <1>4 DEF IInv, Sane, ProcSound
  <2>2. v.sid \in SessionIds
    BY Zenon, <1>4, <2>1 DEF Shape
  <2>3. Pending(p) = Sends(v)
    BY Zenon, <1>1, <1>4 DEF Pending, Sends
  <2>4. /\ Current(v.sid) = Apply(v.upper, Sends(v))
        /\ v.op \in Ops => Check(v.upper.tree, v.op) /\ v.seq = v.upper.seqLast + 1
    BY Zenon, <1>4, <2>1 DEF Good, Owns
  <2>5. v.upper.seqLast \in Nat /\ (v.op \in Ops => v.op # Start)
    BY Zenon, ConstantsAssumption DEF Proc, Upper
  <2>6. v.op \in Ops => Accepts(v.upper, Sends(v))
    BY <2>4, <2>5 DEF Accepts, Sends
  <2> QED BY Zenon, <2>2, <2>3, <2>4, <2>6
<1>5. ASSUME AckStart(p) PROVE StoreStep
  <2>1. PICK w : w = [v EXCEPT !.pc = "loaded", !.op = NoOp, !.seq = 1,
                               !.lastOffset = v.off, !.off = 0,
                               !.upper = Apply(v.upper, Pending(p))]
    BY Zenon
  <2>2. /\ w.pc = "loaded" /\ w.role = v.role /\ w.sid = v.sid
        /\ w.upper = Apply(v.upper, Pending(p))
    BY Zenon, <2>1 DEF Proc
  <2>3. v.role = "mount" /\ v.pc = "sent" /\ Becomes(p, w) /\ UNCHANGED truth
    BY Zenon, <1>1, <1>5, <2>1 DEF AckStart, broker
  <2>4. w.upper = Current(v.sid) /\ v.sid \in SessionIds
    BY Zenon, <1>4, <2>2, <2>3
  <2> QED BY Zenon, <1>1, <2>2, <2>3, <2>4, Completes
<1>6. ASSUME AckCommit(p) PROVE StoreStep
  <2>1. PICK u, w : /\ u = (IF Accepts(v.upper, Pending(p))
                            THEN Apply(v.upper, Pending(p)) ELSE v.upper)
                    /\ w = [v EXCEPT !.pc = "open", !.op = NoOp,
                              !.lastOffset = v.off, !.off = 0, !.upper = u]
    BY Zenon
  <2>2. w.pc = "open" /\ w.role = v.role /\ w.sid = v.sid /\ w.upper = u
    BY Zenon, <2>1 DEF Proc
  <2>3. v.pc = "sent" /\ v.op \in Ops /\ Becomes(p, w) /\ UNCHANGED truth
    BY Zenon, <1>1, <1>6, <2>1 DEF AckCommit, broker
  <2>4. Shape(v)
    BY Zenon, <1>1 DEF IInv, Sane
  <2>5. v.role = "mount"
    BY Zenon, <2>3, <2>4, ConstantsAssumption DEF Shape
  <2>6. u = Current(v.sid) /\ v.sid \in SessionIds
    BY Zenon, <1>4, <2>1, <2>3, <2>5
  <2> QED BY Zenon, <1>1, <2>2, <2>3, <2>5, <2>6, Completes
<1> QED BY Zenon, <1>2, <1>3, <1>5, <1>6

\* What a durable record does to the trees of Store.
LEMMA PersistTrees ==
  ASSUME IInv, NEW r \in Record, Persist(r), After(r) \in Upper
  PROVE  /\ StateOf' = [StateOf EXCEPT ![r.key] = After(r).tree]
         /\ PastOf' = [PastOf EXCEPT ![r.key] = @ \cup {After(r).tree}]
<1>1. ASSUME NEW s \in SessionIds
      PROVE  /\ truth[s] \in Seq(Upper) /\ Len(truth[s]) \in Nat \ {0}
             /\ Current(s) \in Upper /\ Current(s).tree \in TreesOf(truth[s])
  <2>1. truth[s] \in Seq(Upper) /\ Len(truth[s]) \in Nat \ {0} /\ Current(s) \in Upper
    BY Zenon, SessionType, CurrentType DEF IInv, Sane
  <2>2. Len(truth[s]) \in 1 .. Len(truth[s])
    BY <2>1
  <2> QED BY Zenon, <2>1, <2>2 DEF Current, TreesOf
<1>2. ASSUME NEW t \in Seq(Upper), NEW x \in Upper
      PROVE  Append(t, x)[Len(Append(t, x))] = x
  OBVIOUS
<1>3. ASSUME NEW s \in SessionIds, s # r.key
      PROVE  /\ Current(s)'.tree = Current(s).tree
             /\ TreesOf(truth'[s]) = TreesOf(truth[s])
  <2>1. truth'[s] = truth[s] \/ truth'[s] = Append(truth[s], Current(s))
    BY Zenon, <1>3 DEF Persist
  <2>2. CASE truth'[s] = truth[s]
    BY Zenon, <2>2 DEF Current
  <2>3. CASE truth'[s] = Append(truth[s], Current(s))
    <3>1. Current(s)' = Current(s)
      BY SMTT(30), <1>1, <1>2, <2>3 DEF Current
    <3>2. TreesOf(truth'[s]) = TreesOf(truth[s]) \cup {Current(s).tree}
      BY Zenon, <1>1, <2>3, TreesOfAppend
    <3> QED BY Zenon, <1>1, <3>1, <3>2
  <2> QED BY Zenon, <2>1, <2>2, <2>3
<1>4. r.key \in SessionIds
  BY Zenon DEF Record
<1>5. /\ Current(r.key)' = After(r)
      /\ TreesOf(truth'[r.key]) = TreesOf(truth[r.key]) \cup {After(r).tree}
  <2>1. truth'[r.key] = Append(truth[r.key], After(r))
    BY Zenon, <1>4 DEF Persist
  <2> QED BY SMTT(30), <1>1, <1>2, <1>4, <2>1, TreesOfAppend DEF Current
<1>6. StateOf' = [StateOf EXCEPT ![r.key] = After(r).tree]
  BY Zenon, <1>3, <1>4, <1>5 DEF StateOf
<1>7. PastOf' = [PastOf EXCEPT ![r.key] = @ \cup {After(r).tree}]
  <2>1. PastOf' = [s \in SessionIds |-> TreesOf(truth'[s])]
    BY Zenon DEF PastOf, TreesOf
  <2> QED BY Zenon, <1>3, <1>4, <1>5, <2>1 DEF PastOf
<1> QED BY Zenon, <1>6, <1>7

\* A birth gives the child a state its parent had, while nobody shows it.
LEMMA BirthForks ==
  ASSUME IInv, NEW p \in Procs, NEW v \in Proc, v = proc[p], v.pc = "append",
         Bearing(v)
  PROVE  /\ v.child \in SessionIds /\ ~Abstract!Shown(v.child)
         /\ \E s \in SessionIds : v.upper.tree \in PastOf[s]
<1>1. Shape(v) /\ Good(v)
  BY Zenon DEF IInv, Sane, ProcSound
<1>2. v.child \in SessionIds
  BY Zenon, <1>1 DEF Shape
<1>3. PICK c \in SessionIds : c = v.child
  BY Zenon, <1>2
<1>4. /\ lineage[c].parent # NoSession /\ lineage[c].birth = v.upper
      /\ images[c] = {}
  BY Zenon, <1>1, <1>3 DEF Good, Bears
<1>5. ASSUME NEW q \in Procs, ViewOf[q] # Nothing, ViewOf[q].sid = c PROVE FALSE
  <2>1. Shows(proc[q]) /\ proc[q].sid = c
    BY Zenon, <1>5, ViewHas
  <2>2. proc[q].pc # "idle"
    BY Zenon, <2>1 DEF Shows
  <2>3. Good(proc[q])
    BY Zenon, <2>2 DEF IInv, ProcSound
  <2> QED BY Zenon, <1>4, <2>1, <2>3 DEF Good, Holds
<1>6. PICK s \in SessionIds : s = lineage[c].parent
  BY Zenon, <1>4 DEF IInv, LineageSound, Sane, TypeOK
<1>7. \/ v.upper = New
      \/ /\ lineage[c].at >= 0 /\ lineage[c].at < Len(LogOf(s))
         /\ v.upper = truth[s][lineage[c].at + 2]
  BY Zenon, <1>4, <1>6 DEF IInv, LineageSound
<1>8. /\ Len(truth[s]) = Len(LogOf(s)) + 1 /\ truth[s][1] = New
      /\ Len(LogOf(s)) \in Nat /\ lineage[c].at \in Int
  BY Zenon, SessionType DEF IInv, Sane, TruthIsReplay, Lineage
<1>9. \E n \in 1 .. Len(truth[s]) : v.upper = truth[s][n]
  <2>1. CASE v.upper = New
    BY <1>8, <2>1
  <2>2. CASE v.upper # New
    <3>1. lineage[c].at + 2 \in 1 .. Len(truth[s])
      BY SMTT(30), <1>7, <1>8, <2>2
    <3> QED BY Zenon, <1>7, <2>2, <3>1
  <2> QED BY Zenon, <2>1, <2>2
<1>10. v.upper.tree \in PastOf[s]
  BY Zenon, <1>9 DEF PastOf, TreesOf
<1> QED BY Zenon, <1>3, <1>5, <1>10 DEF Abstract!Shown

\* A record becomes durable.
LEMMA ProduceImplements ==
  ASSUME IInv, NEW p \in Procs, Produce(p)
  PROVE  StoreStep
<1>1. PICK v \in Proc : v = proc[p] /\ Shape(v) /\ v.pc = "append"
  BY Zenon DEF IInv, Sane, TypeOK, Produce
<1>2. PICK r \in Record : r = Pending(p)
  BY Zenon, <1>1, PendingFits
<1>3. Good(v) /\ v.sid \in SessionIds /\ v.upper \in Upper /\ ~v.diverged
  BY Zenon, <1>1 DEF IInv, ProcSound, Shape, Proc
<1>4. \/ /\ v.role = "mount" /\ r = Sends(v) /\ After(r) = Apply(v.upper, Sends(v))
      \/ /\ Bearing(v) /\ r.key = v.child /\ After(r) = v.upper
  BY Zenon, <1>1, <1>2, PendingFits
<1>5. ViewOf' = ViewOf
  <2>0. Becomes(p, [v EXCEPT !.pc = "sent", !.off = Len(LogOf(Pending(p).key))])
    BY Zenon, <1>1 DEF Produce
  <2>1. PICK w : w = [v EXCEPT !.pc = "sent", !.off = Len(LogOf(Pending(p).key))]
    BY Zenon
  <2>2. /\ w.pc = "sent" /\ w.role = v.role /\ w.sid = v.sid /\ w.op = v.op
        /\ w.upper = v.upper
    BY Zenon, <2>1 DEF Proc
  <2>3. Sees(w) = Sees(v)
    BY Zenon, <1>1, <2>2 DEF Sees, Shows
  <2>4. ViewOf' = [ViewOf EXCEPT ![p] = Sees(w)]
    BY Zenon, <2>0, <2>1, ViewMoves
  <2> QED BY Zenon, <1>1, <2>3, <2>4 DEF ViewOf
<1>6. Persist(r)
  BY Zenon, <1>2 DEF Produce
<1>7. CASE v.role = "mount"
  <2>1. /\ r = Sends(v) /\ r.key = v.sid /\ r.op = v.op
        /\ After(r) = Apply(v.upper, Sends(v))
    BY <1>4, <1>7 DEF Bearing, Sends
  <2>2. v.upper = Current(v.sid)
    BY Zenon, <1>1, <1>3, <1>7 DEF Good, Owns
  <2>3. StateOf[v.sid] = v.upper.tree /\ v.upper.tree \in PastOf[v.sid]
    <3>1. /\ truth[v.sid] \in Seq(Upper) /\ Len(truth[v.sid]) \in 1 .. Len(truth[v.sid])
      BY SMTT(30), <1>3, SessionType DEF IInv, Sane
    <3> QED BY Zenon, <1>3, <2>2, <3>1 DEF StateOf, PastOf, TreesOf, Current
  <2>4. CASE v.op \in Ops
    <3>1. Check(v.upper.tree, v.op) /\ v.seq = v.upper.seqLast + 1 /\ v.op # Start
      BY Zenon, <1>1, <1>3, <1>7, <2>4, ConstantsAssumption DEF Good, Owns
    <3>2. Accepts(v.upper, r)
      <4>1. v.upper.seqLast \in Nat
        BY Zenon, <1>3 DEF Upper
      <4>2. r.op = v.op /\ (v.op # Start => r.seq = v.seq)
        BY Zenon, <2>1 DEF Sends
      <4> QED BY SMTT(30), <3>1, <4>1, <4>2 DEF Accepts
    <3>3. After(r) \in Upper /\ After(r).tree = Mutate(v.upper.tree, v.op)
      BY SMTT(30), <1>3, <2>1, <3>1, <3>2, ApplyType DEF Apply
    <3>4. /\ StateOf' = [StateOf EXCEPT ![v.sid] = Mutate(v.upper.tree, v.op)]
          /\ PastOf' = [PastOf EXCEPT ![v.sid] = @ \cup {Mutate(v.upper.tree, v.op)}]
      BY Zenon, <1>6, <2>1, <3>3, PersistTrees
    <3>5. /\ ViewOf[p] # Nothing /\ ViewOf[p].sid = v.sid
          /\ ViewOf[p].tree = v.upper.tree
      BY Zenon, <1>1, <1>7, <2>4, ViewHas DEF Shows
    <3>6. Abstract!Perform(p, v.op)
      BY Zenon, <1>5, <2>3, <3>1, <3>4, <3>5 DEF Abstract!Perform, Abstract!Set
    <3> QED BY Zenon, <2>4, <3>6 DEF StoreStep, Abstract!Next
  <2>5. CASE v.op = Start
    <3>1. Sends(v).op = Start /\ Sends(v).seq = 1
      BY Zenon, <2>5 DEF Sends
    <3>2. After(r) = [tree |-> v.upper.tree, seqLast |-> 1]
      BY Zenon, <2>1, <3>1 DEF Apply
    <3>3. After(r) \in Upper /\ After(r).tree = v.upper.tree
      BY SMTT(30), <1>3, <3>2 DEF Upper
    <3>4. /\ StateOf' = [StateOf EXCEPT ![v.sid] = v.upper.tree]
          /\ PastOf' = [PastOf EXCEPT ![v.sid] = @ \cup {v.upper.tree}]
      BY Zenon, <1>6, <2>1, <3>3, PersistTrees
    <3>5. StateOf' = StateOf
      BY Zenon, <2>3, <3>4 DEF StateOf
    <3>6. PastOf[v.sid] \cup {v.upper.tree} = PastOf[v.sid]
      BY Zenon, <2>3
    <3>7. PastOf' = PastOf
      BY Zenon, <3>4, <3>6 DEF PastOf
    <3> QED BY Zenon, <1>5, <3>5, <3>7 DEF StoreStep, Abstract!svars
  <2> QED BY Zenon, <1>1, <1>7, <2>4, <2>5 DEF Shape
<1>8. CASE Bearing(v)
  <2>1. r.key = v.child /\ After(r) = v.upper
    BY Zenon, <1>4, <1>8 DEF Bearing
  <2>2. /\ StateOf' = [StateOf EXCEPT ![v.child] = v.upper.tree]
        /\ PastOf' = [PastOf EXCEPT ![v.child] = @ \cup {v.upper.tree}]
    BY Zenon, <1>3, <1>6, <2>1, PersistTrees
  <2>3. PICK s \in SessionIds : v.upper.tree \in PastOf[s]
    BY Zenon, <1>1, <1>8, BirthForks
  <2>4. v.child \in SessionIds /\ ~Abstract!Shown(v.child)
    BY Zenon, <1>1, <1>8, BirthForks
  <2>5. Abstract!Fork(s, v.child)
    BY Zenon, <1>5, <2>2, <2>3, <2>4 DEF Abstract!Fork, Abstract!Set
  <2> QED BY Zenon, <2>4, <2>5 DEF StoreStep, Abstract!Next
<1> QED BY Zenon, <1>4, <1>7, <1>8

\* Nothing has happened yet.
LEMMA InitImplements == Init => Abstract!Init
<1> SUFFICES ASSUME Init PROVE Abstract!Init
  BY Zenon
<1>1. ASSUME NEW s \in SessionIds
      PROVE  Current(s).tree = EmptyTree /\ TreesOf(truth[s]) = {EmptyTree}
  <2>1. truth[s] = <<New>> /\ New.tree = EmptyTree
    BY Zenon DEF Init, New
  <2>2. Len(<<New>>) = 1 /\ <<New>>[1] = New /\ 1 .. 1 = {1}
    OBVIOUS
  <2> QED BY Zenon, <2>1, <2>2 DEF Current, TreesOf
<1>2. StateOf = [s \in SessionIds |-> EmptyTree]
  BY Zenon, <1>1 DEF StateOf
<1>3. PastOf = [s \in SessionIds |-> {EmptyTree}]
  BY Zenon, <1>1 DEF PastOf
<1>4. ASSUME NEW p \in Procs PROVE Sees(proc[p]) = Nothing
  <2>1. proc[p].role # "mount"
    BY Zenon DEF Init, Idle
  <2> QED BY Zenon, <2>1, SeesNothing
<1>5. ViewOf = [p \in Procs |-> Nothing]
  BY Zenon, <1>4 DEF ViewOf
<1> QED BY Zenon, <1>2, <1>3, <1>5 DEF Abstract!Init

\* Every step is a step of Store, or changes nothing Store can see.
LEMMA NextImplements ==
  ASSUME Mild, IInv, [Next]_vars
  PROVE  StoreStep
<1>1. CASE UNCHANGED <<proc, truth>>
  <2>1. StateOf' = StateOf /\ PastOf' = PastOf
    BY Zenon, <1>1 DEF StateOf, PastOf, Current, TreesOf
  <2>2. ViewOf' = ViewOf
    BY Zenon, <1>1 DEF ViewOf, Sees, Shows, Nothing
  <2> QED BY Zenon, <2>1, <2>2 DEF StoreStep, Abstract!svars
<1>2. ASSUME NEW p \in Procs, Step(p) PROVE StoreStep
  <2>1. CASE \E o \in Writes : PutBlob(p, o)
    BY Zenon, <1>1, <2>1 DEF PutBlob, broker
  <2>2. CASE Retry(p)
    BY Zenon, <2>2, MildFaults DEF Retry
  <2> QED BY Zenon, <1>2, <2>1, <2>2, BoundsImplement, ReplayImplements, ServeImplements,
             CommitImplements, ProduceImplements DEF Step
<1>3. CASE \E s \in SessionIds : ExpireLease(s)
  BY Zenon, <1>1, <1>3 DEF ExpireLease, broker
<1>4. CASE \E r \in limbo : Land(r)
  BY Zenon, <1>4 DEF IInv, Calm
<1>5. CASE \E q \in Partitions : Trim(q)
  BY Zenon, <1>1, <1>5 DEF Trim
<1>6. CASE UNCHANGED vars
  BY Zenon, <1>1, <1>6 DEF vars, broker
<1> QED BY Zenon, <1>2, <1>3, <1>4, <1>5, <1>6 DEF Next
----------------------------------------------------------------------------
(* Retention *)

\* What is dropped stays covered while images are added.
LEMMA CoveredStill ==
  ASSUME NEW s \in SessionIds, Covered(s), images[s] \subseteq images'[s],
         UNCHANGED <<log, oldest, truth>>
  PROVE  Covered(s)'
  BY Zenon DEF Covered, LogOf

\* It stays covered while the log grows.
LEMMA CoveredPersist ==
  ASSUME IInv, NEW r \in Record, Persist(r), NEW s \in SessionIds, Covered(s),
         UNCHANGED <<oldest, images, listed, lineage>>
  PROVE  Covered(s)'
<1> DEFINE head == oldest[PartitionFor[s]]
<1>1. head \in Nat /\ Len(LogOf(s)) \in Nat
  BY Zenon, SessionType, ConstantsAssumption DEF IInv, Sane, TypeOK
<1>2. Longer(s) /\ Len(LogOf(s)') \in Nat
  BY Zenon, PersistGrows
<1>3. head <= Len(LogOf(s)) /\ head <= Len(LogOf(s)')
  BY SMTT(30), <1>1, <1>2 DEF Covered, Longer
<1>4. \A n \in 0 .. head : truth'[s][n + 1] = truth[s][n + 1]
  BY SMTT(30), <1>1, <1>2, <1>3 DEF Longer
<1>5. head \in 0 .. head /\ head' = head
  BY <1>1
<1> QED BY Zenon, <1>3, <1>4, <1>5 DEF Covered

\* Retention drops a record that an image of its session covers: to a session
\* with no image that far it is a record of another one.
LEMMA CoveredTrim ==
  ASSUME IInv, NEW q \in Partitions, Trim(q), NEW s \in SessionIds, Covered(s)
  PROVE  Covered(s)'
<1> DEFINE head == oldest[PartitionFor[s]]
<1>1. /\ head \in Nat /\ Len(LogOf(s)) \in Nat /\ PartitionFor[s] \in Partitions
      /\ oldest \in [Partitions -> Nat] /\ images \in [SessionIds -> SUBSET Image]
  BY Zenon, SessionType, ConstantsAssumption DEF IInv, Sane, TypeOK
<1>2. UNCHANGED <<log, truth, images>> /\ oldest' = [oldest EXCEPT ![q] = @ + 1]
  BY Zenon DEF Trim, remote
<1>3. CASE PartitionFor[s] # q
  <2>1. head' = head
    BY Zenon, <1>1, <1>2, <1>3
  <2> QED BY Zenon, <1>2, <2>1 DEF Covered, LogOf
<1>4. CASE PartitionFor[s] = q
  <2>1. head' = head + 1 /\ head < Len(LogOf(s))
    BY Zenon, <1>1, <1>2, <1>4 DEF Trim, LogOf
  <2>2. PICK r : r = LogOf(s)[head + 1]
    BY Zenon
  <2>3. r.key # s => truth[s][head + 2] = truth[s][head + 1]
    <3>1. head + 1 \in 1 .. Len(LogOf(s)) /\ (head + 1) + 1 = head + 2
      BY <1>1, <2>1
    <3>2. TruthIsReplay
      BY Zenon DEF IInv
    <3> QED BY ZenonT(30), <2>2, <3>1, <3>2 DEF TruthIsReplay
  <2>4. \E i \in images[r.key] : i.off >= head
    BY Zenon, <1>4, <2>2 DEF Trim, LogOf
  <2>5. ASSUME NEW n \in 0 .. head, \A i \in images[s] : i.off < n
        PROVE  truth[s][head + 2] = truth[s][n + 1]
    <3>1. r.key # s
      <4>1. ASSUME NEW i \in images[s] PROVE ~(i.off >= head)
        <5>1. i \in Image
          BY Zenon, <1>1
        <5>2. i.off \in Nat /\ i.off < n
          BY <2>5, <5>1 DEF Image
        <5> QED BY <1>1, <5>2
      <4> QED BY Zenon, <2>4, <4>1
    <3>2. truth[s][head + 1] = truth[s][n + 1]
      BY Zenon, <2>5 DEF Covered
    <3> QED BY Zenon, <2>3, <3>1, <3>2
  <2>6. /\ head + 1 <= Len(LogOf(s)) /\ (head + 1) + 1 = head + 2
        /\ \A n \in 0 .. head + 1 : n \in 0 .. head \/ n = head + 1
    BY <1>1, <2>1
  <2>7. \A n \in 0 .. head + 1 :
          (\A i \in images[s] : i.off < n) => truth[s][head + 2] = truth[s][n + 1]
    BY Zenon, <2>5, <2>6
  <2> QED BY Zenon, <1>2, <2>1, <2>6, <2>7 DEF Covered, LogOf
<1> QED BY Zenon, <1>3, <1>4

\* A mount begins at the newest image.
LEMMA NewestOpens ==
  ASSUME IInv, NEW p \in Procs, NEW s \in SessionIds, Restore(p, s, "mount", -1),
         UNCHANGED images
  PROVE  Newest(proc[p])'
<1> DEFINE From(u, n) == [Idle EXCEPT !.pc = "read", !.role = "mount", !.sid = s,
                            !.to = -1, !.upper = u, !.cursor = n,
                            !.lastOffset = n - 1, !.savedOffset = n - 1]
<1>1. \A u, n : /\ From(u, n).role = "mount" /\ From(u, n).sid = s
                /\ From(u, n).cursor = n /\ From(u, n).ckptOff = -1
  BY ZenonT(30) DEF Idle
<1>2. \E u, n : Becomes(p, From(u, n)) /\ \A i \in images[s] : i.off < n
  <2>1. {i \in images[s] : -1 < 0 \/ i.off <= -1} = images[s]
    BY SMT
  <2>2. CASE images[s] = {} /\ Becomes(p, From(New, 0))
    BY Zenon, <2>2
  <2>3. ASSUME NEW i \in images[s], \A j \in images[s] : j.off <= i.off,
               Becomes(p, From(i.upper, i.off + 1))
        PROVE  \E u, n : Becomes(p, From(u, n)) /\ \A j \in images[s] : j.off < n
    <3>1. \A j \in images[s] : j.off \in Nat
      BY DEF IInv, Sane, TypeOK, Image
    <3>2. \A j \in images[s] : j.off < i.off + 1
      BY <2>3, <3>1
    <3> QED BY Zenon, <2>3, <3>2
  <2> QED BY Zenon, <2>1, <2>2, <2>3 DEF Restore
<1>3. PICK u, n : Becomes(p, From(u, n)) /\ \A i \in images[s] : i.off < n
  BY Zenon, <1>2
<1>4. PICK w : w = From(u, n)
  BY Zenon
<1>5. w.role = "mount" /\ w.sid = s /\ w.cursor = n /\ w.ckptOff = -1
  BY Zenon, <1>1, <1>4
<1>6. proc'[p] = w
  BY Zenon, <1>3, <1>4, Moved
<1>7. -1 < 0
  OBVIOUS
<1> QED BY Zenon, <1>3, <1>5, <1>6, <1>7 DEF Newest

\* A step of a mount, its beginning apart, reads no image anew.
LEMMA NewestSteps ==
  ASSUME IInv, NEW p \in Procs, Step(p), Newest(proc[p]), May[p] \subseteq {"mount"}
  PROVE  Newest(proc[p])'
<1>1. PICK v \in Proc : v = proc[p]
  BY Zenon DEF IInv, Sane, TypeOK
<1>2. Shape(v) /\ v.role \in {"none", "mount"}
  BY Zenon, <1>1 DEF IInv, Sane, Newest
<1>3. ASSUME NEW w, Becomes(p, w), w.role \in {"none", "mount"}, w.pc # "read"
      PROVE  Newest(proc[p])'
  <2>1. proc'[p] = w
    BY Zenon, <1>3, Moved
  <2> QED BY Zenon, <1>3, <2>1 DEF Newest
<1>4. CASE Becomes(p, Idle)
  BY Zenon, <1>3, <1>4 DEF Idle
<1>5. CASE \E s \in SessionIds : NewSession(p, s)
  <2>1. PICK s \in SessionIds : NewSession(p, s)
    BY Zenon, <1>5
  <2> DEFINE w == [Idle EXCEPT !.pc = "append", !.role = "mount", !.sid = s,
                               !.op = Start]
  <2>2. w.pc = "append" /\ w.role = "mount"
    BY Zenon DEF Idle
  <2>3. Becomes(p, w)
    BY Zenon, <2>1 DEF NewSession
  <2> HIDE DEF w
  <2> QED BY SMTT(30), <1>3, <2>2, <2>3
<1>6. CASE \E s \in SessionIds, role \in {"mount", "tool"} : Open(p, s, role)
  <2>1. PICK s \in SessionIds, role \in {"mount", "tool"} : Open(p, s, role)
    BY Zenon, <1>6
  <2>2. role = "mount"
    BY Zenon, <2>1 DEF Open
  <2> QED BY Zenon, <2>1, <2>2, NewestOpens DEF Open, remote
<1>7. ~ \E s \in SessionIds, to \in -1 .. MaxLog : Branch(p, s, to)
  <2>1. "branch" \notin May[p]
    BY Zenon
  <2> QED BY Zenon, <2>1 DEF Branch
<1>8. ~ \/ \E c \in SessionIds : RegisterChild(p, c)
        \/ AckChild(p) \/ SaveBirth(p)
  <2>1. v.role # "branch"
    BY Zenon, <1>2
  <2> QED BY Zenon, <1>1, <1>2, <2>1 DEF RegisterChild, AckChild, SaveBirth, Shape
<1>9. CASE \E o \in Writes : PutBlob(p, o)
  BY Zenon, <1>9 DEF PutBlob, Newest
<1>10. CASE \E o \in Ops : Commit(p, o)
  <2> DEFINE w(o) == [v EXCEPT !.pc = "append", !.op = o, !.seq = v.seq + 1]
  <2>1. \A o : w(o).role = v.role /\ w(o).pc = "append"
    BY Zenon DEF Proc
  <2>2. \E o : Becomes(p, w(o))
    BY Zenon, <1>1, <1>10 DEF Commit
  <2> HIDE DEF w
  <2> QED BY Zenon, <1>2, <1>3, <2>1, <2>2
<1>11. CASE Produce(p)
  <2> DEFINE w(n) == [v EXCEPT !.pc = "sent", !.off = n]
  <2>1. \A n : w(n).role = v.role /\ w(n).pc = "sent"
    BY Zenon DEF Proc
  <2>2. \E n : Becomes(p, w(n))
    BY Zenon, <1>1, <1>11 DEF Produce
  <2> HIDE DEF w
  <2> QED BY Zenon, <1>2, <1>3, <2>1, <2>2
<1>12. CASE Retry(p)
  <2> DEFINE w == [v EXCEPT !.pc = "append", !.off = 0]
  <2>1. w.role = v.role /\ w.pc = "append"
    BY Zenon DEF Proc
  <2>2. Becomes(p, w)
    BY Zenon, <1>1, <1>12 DEF Retry
  <2> HIDE DEF w
  <2> QED BY Zenon, <1>2, <1>3, <2>1, <2>2
<1>13. CASE AckStart(p)
  <2> DEFINE w(u) == [v EXCEPT !.pc = "loaded", !.op = NoOp, !.seq = 1,
                               !.lastOffset = v.off, !.off = 0, !.upper = u]
  <2>1. \A u : w(u).role = v.role /\ w(u).pc = "loaded"
    BY Zenon DEF Proc
  <2>2. \E u : Becomes(p, w(u))
    BY Zenon, <1>1, <1>13 DEF AckStart
  <2> HIDE DEF w
  <2> QED BY Zenon, <1>2, <1>3, <2>1, <2>2
<1>14. CASE AckCommit(p)
  <2> DEFINE w(u) == [v EXCEPT !.pc = "open", !.op = NoOp, !.lastOffset = v.off,
                               !.off = 0, !.upper = u]
  <2>1. \A u : w(u).role = v.role /\ w(u).pc = "open"
    BY Zenon DEF Proc
  <2>2. \E u : Becomes(p, w(u))
    BY Zenon, <1>1, <1>14 DEF AckCommit
  <2> HIDE DEF w
  <2> QED BY Zenon, <1>2, <1>3, <2>1, <2>2
<1>15. CASE CommitFails(p)
  <2> DEFINE w == [v EXCEPT !.pc = "open", !.op = NoOp, !.off = 0,
                            !.diverged = TRUE, !.lastOffset = -1]
  <2>1. w.role = v.role /\ w.pc = "open"
    BY Zenon DEF Proc
  <2>2. Becomes(p, w)
    BY Zenon, <1>1, <1>15 DEF CommitFails
  <2> HIDE DEF w
  <2> QED BY Zenon, <1>2, <1>3, <2>1, <2>2
<1>16. CASE ReadEnd(p)
  <2> DEFINE w(c, n) == [v EXCEPT !.pc = "replay", !.cursor = c, !.limit = n]
  <2>1. \A c, n : w(c, n).role = v.role /\ w(c, n).pc = "replay"
    BY Zenon DEF Proc
  <2>2. \E c, n : Becomes(p, w(c, n))
    BY Zenon, <1>1, <1>16 DEF ReadEnd
  <2> HIDE DEF w
  <2> QED BY Zenon, <1>2, <1>3, <2>1, <2>2
<1>17. CASE Replay(p)
  <2> DEFINE x == [v EXCEPT !.cursor = v.cursor + 1]
             y(u) == [v EXCEPT !.cursor = v.cursor + 1, !.lastOffset = v.cursor,
                               !.upper = u]
  <2>1. /\ x.role = v.role /\ x.pc = v.pc
        /\ \A u : y(u).role = v.role /\ y(u).pc = v.pc
    BY Zenon DEF Proc
  <2>2. v.pc = "replay" /\ (Becomes(p, x) \/ Becomes(p, Idle) \/ \E u : Becomes(p, y(u)))
    BY Zenon, <1>1, <1>17 DEF Replay
  <2> HIDE DEF x, y
  <2> QED BY Zenon, <1>2, <1>3, <1>4, <2>1, <2>2
<1>18. CASE ReplayDone(p)
  <2> DEFINE w(k) == [v EXCEPT !.pc = k, !.seq = v.upper.seqLast, !.cursor = 0,
                               !.limit = 0]
  <2>1. \A k : w(k).role = v.role /\ w(k).pc = k
    BY Zenon DEF Proc
  <2>2. \E k : k # "read" /\ Becomes(p, w(k))
    <3>1. PICK k : k = IF v.role = "branch" THEN "replayed" ELSE "loaded"
      BY Zenon
    <3>2. k # "read"
      BY Zenon, <3>1
    <3> QED BY Zenon, <1>1, <1>18, <3>1, <3>2 DEF ReplayDone
  <2> HIDE DEF w
  <2> QED BY Zenon, <1>2, <1>3, <2>1, <2>2
<1>19. CASE Claim(p)
  <2> DEFINE w == [v EXCEPT !.pc = "open"]
  <2>1. w.role = v.role /\ w.pc = "open"
    BY Zenon DEF Proc
  <2>2. Becomes(p, w)
    BY Zenon, <1>1, <1>19 DEF Claim
  <2> HIDE DEF w
  <2> QED BY <1>2, <1>3, <2>1, <2>2
<1>20. CASE Renew(p)
  <2> DEFINE w == [v EXCEPT !.leaseLost = TRUE]
  <2>1. w.role = v.role /\ w.pc = v.pc
    BY Zenon DEF Proc
  <2>2. UNCHANGED images /\ (UNCHANGED proc \/ Becomes(p, w)) /\ v.pc # "read"
    BY Zenon, <1>1, <1>20 DEF Renew, Serving
  <2> HIDE DEF w
  <2>3. CASE UNCHANGED proc
    BY Zenon, <2>2, <2>3 DEF Newest
  <2> QED BY Zenon, <1>2, <1>3, <2>1, <2>2, <2>3
<1>21. CASE Snapshot(p)
  <2> DEFINE w == [v EXCEPT !.ckptOff = v.lastOffset, !.ckptUpper = v.upper]
  <2>1. w.role = v.role /\ w.pc = v.pc
    BY Zenon DEF Proc
  <2>2. Becomes(p, w) /\ v.pc # "read"
    BY Zenon, <1>1, <1>21 DEF Snapshot
  <2> HIDE DEF w
  <2> QED BY Zenon, <1>2, <1>3, <2>1, <2>2
<1>22. CASE SaveImage(p) \/ SaveFails(p)
  <2> DEFINE x == [v EXCEPT !.savedOffset = v.ckptOff, !.ckptOff = -1,
                            !.ckptUpper = New]
             y == [v EXCEPT !.ckptOff = -1, !.ckptUpper = New]
  <2>1. x.role = v.role /\ x.pc = v.pc /\ y.role = v.role /\ y.pc = v.pc
    BY Zenon DEF Proc
  <2>2. v.ckptOff >= 0 /\ (Becomes(p, x) \/ Becomes(p, y))
    BY Zenon, <1>1, <1>22 DEF SaveImage, SaveFails
  <2> HIDE DEF x, y
  <2>3. v.pc # "read"
    BY SMTT(30), <1>1, <2>2, FieldType DEF Newest
  <2> QED BY Zenon, <1>2, <1>3, <2>1, <2>2, <2>3
<1>23. CASE Exit(p) \/ Unmount(p) \/ Crash(p)
  BY Zenon, <1>4, <1>23 DEF Exit, Unmount, Crash
<1> QED BY Zenon, <1>5, <1>6, <1>7, <1>8, <1>9, <1>10, <1>11, <1>12, <1>13, <1>14,
           <1>15, <1>16, <1>17, <1>18, <1>19, <1>20, <1>21, <1>22, <1>23 DEF Step

\* Only retention moves the head of a partition, and only an append its end.
LEMMA BrokerStill ==
  ASSUME IInv, [Next]_vars
  PROVE  /\ UNCHANGED oldest \/ \E q \in Partitions : Trim(q)
         /\ UNCHANGED <<log, truth>> \/ \E p \in Procs : Produce(p)
<1>1. ASSUME NEW p \in Procs, Step(p)
      PROVE  UNCHANGED oldest /\ (UNCHANGED <<log, truth>> \/ Produce(p))
  <2>1. CASE \E s \in SessionIds : NewSession(p, s) \/ RegisterChild(p, s)
    BY Zenon, <2>1 DEF NewSession, RegisterChild, broker
  <2>2. CASE \E s \in SessionIds, role \in {"mount", "tool"} : Open(p, s, role)
    BY Zenon, <2>2 DEF Open, broker
  <2>3. CASE \E s \in SessionIds, to \in -1 .. MaxLog : Branch(p, s, to)
    BY Zenon, <2>3 DEF Branch, broker
  <2>4. CASE (\E o \in Writes : PutBlob(p, o)) \/ (\E o \in Ops : Commit(p, o))
    BY Zenon, <2>4 DEF PutBlob, Commit, broker
  <2>5. CASE Produce(p)
    BY Zenon, <2>5 DEF Produce
  <2>6. CASE Retry(p) \/ AckStart(p) \/ AckChild(p) \/ AckCommit(p) \/ CommitFails(p)
    BY Zenon, <2>6 DEF Retry, AckStart, AckChild, AckCommit, CommitFails, broker
  <2>7. CASE ReadEnd(p) \/ Replay(p) \/ ReplayDone(p) \/ SaveBirth(p)
    BY Zenon, <2>7 DEF ReadEnd, Replay, ReplayDone, SaveBirth, broker
  <2>8. CASE \/ Claim(p) \/ Renew(p) \/ Exit(p) \/ Unmount(p) \/ Crash(p)
             \/ Snapshot(p) \/ SaveImage(p) \/ SaveFails(p)
    BY Zenon, <2>8 DEF Claim, Renew, Exit, Unmount, Crash, Snapshot, SaveImage,
                       SaveFails, broker
  <2> QED BY Zenon, <1>1, <2>1, <2>2, <2>3, <2>4, <2>5, <2>6, <2>7, <2>8 DEF Step
<1>2. ~ \E r \in limbo : Land(r)
  BY Zenon DEF IInv, Calm
<1> QED BY Zenon, <1>1, <1>2 DEF Next, ExpireLease, Trim, vars, broker

\* A step of p moves no other process.
LEMMA OthersStill ==
  ASSUME IInv, NEW p \in Procs, Step(p), NEW q \in Procs, q # p
  PROVE  proc'[q] = proc[q]
<1> SUFFICES UNCHANGED proc \/ \E w : Becomes(p, w)
  BY Zenon, Moved
<1>1. CASE \E s \in SessionIds : NewSession(p, s) \/ RegisterChild(p, s)
  BY Zenon, <1>1 DEF NewSession, RegisterChild
<1>2. ASSUME NEW s, NEW role, NEW to, Restore(p, s, role, to)
      PROVE  \E w : Becomes(p, w)
  BY Zenon, <1>2, RestoreReads
<1>3. CASE \E s \in SessionIds, role \in {"mount", "tool"} : Open(p, s, role)
  BY Zenon, <1>2, <1>3 DEF Open
<1>4. CASE \E s \in SessionIds, to \in -1 .. MaxLog : Branch(p, s, to)
  BY Zenon, <1>2, <1>4 DEF Branch
<1>5. CASE (\E o \in Writes : PutBlob(p, o)) \/ (\E o \in Ops : Commit(p, o))
  BY Zenon, <1>5 DEF PutBlob, Commit
<1>6. CASE \/ Produce(p) \/ Retry(p) \/ AckStart(p) \/ AckChild(p)
           \/ AckCommit(p) \/ CommitFails(p)
  BY Zenon, <1>6 DEF Produce, Retry, AckStart, AckChild, AckCommit, CommitFails
<1>7. CASE ReadEnd(p) \/ Replay(p) \/ ReplayDone(p) \/ SaveBirth(p)
  BY Zenon, <1>7 DEF ReadEnd, Replay, ReplayDone, SaveBirth
<1>8. CASE \/ Claim(p) \/ Renew(p) \/ Exit(p) \/ Unmount(p) \/ Crash(p)
           \/ Snapshot(p) \/ SaveImage(p) \/ SaveFails(p)
  BY Zenon, <1>8 DEF Claim, Renew, Exit, Unmount, Crash, Snapshot, SaveImage,
                     SaveFails
<1> QED BY Zenon, <1>1, <1>3, <1>4, <1>5, <1>6, <1>7, <1>8 DEF Step

\* A step of one mount leaves the others at their newest image: nobody else
\* stores images of their session.
LEMMA NewestOthers ==
  ASSUME IInv, NEW p \in Procs, Step(p), Newest(proc[p]),
         NEW q \in Procs, q # p, Newest(proc[q])
  PROVE  Newest(proc[q])'
<1>1. PICK v \in Proc : v = proc[p]
  BY Zenon DEF IInv, Sane, TypeOK
<1>2. proc'[q] = proc[q]
  BY ZenonT(30), OthersStill
<1>a. ASSUME NEW x \in Procs, Newest(proc[x])
      PROVE  proc[x].role # "none" => proc[x].role = "mount"
  BY Zenon, <1>a DEF Newest
<1>b. Shape(v) /\ Shape(proc[q])
  BY Zenon, <1>1 DEF IInv, Sane
<1>3. ~SaveBirth(p)
  <2>1. v.pc = "image" => v.role = "branch"
    BY Zenon, <1>b DEF Shape
  <2> QED BY Zenon, <1>1, <1>a, <2>1 DEF SaveBirth
<1>4. CASE SaveImage(p)
  <2>1. v.ckptOff >= 0 /\ PutImage(v.sid, v.ckptOff, v.ckptUpper)
    BY ZenonT(30), <1>1, <1>4 DEF SaveImage
  <2>2. v.role = "mount"
    <3>1. v.role \in {"mount", "tool"}
      BY Zenon, <1>b, <2>1 DEF Shape
    <3> QED BY Zenon, <1>1, <1>a, <3>1
  <2>3. ASSUME proc[q].pc = "read"
        PROVE  images'[proc[q].sid] = images[proc[q].sid]
    <3>1. proc[q].role = "mount" /\ proc[q].sid \in SessionIds
      <4>1. proc[q].role # "none" /\ proc[q].sid \in SessionIds
        BY Zenon, <1>b, <2>3 DEF Shape
      <4> QED BY Zenon, <1>a, <4>1
    <3>2. proc[q].sid # v.sid
      BY ZenonT(30), <1>1, <2>2, <3>1 DEF IInv, Exclusive, Mounting
    <3>3. images \in [SessionIds -> SUBSET Image]
      BY Zenon DEF IInv, Sane, TypeOK
    <3> QED BY ZenonT(30), <2>1, <3>1, <3>2, <3>3 DEF PutImage
  <2> QED BY Zenon, <1>2, <2>3 DEF Newest
<1>5. CASE ~SaveImage(p)
  BY Zenon, <1>2, <1>3, <1>5, ImagesStill DEF Newest
<1> QED BY Zenon, <1>4, <1>5

\* Retention leaves what a resume needs.
LEMMA RetainsNext ==
  ASSUME Mild, IInv, Retains, [Next]_vars
  PROVE  Retains'
<1>1. ASSUME "trim" \notin Faults PROVE UNCHANGED oldest
  BY Zenon, <1>1, BrokerStill DEF Trim
<1>2. ASSUME "trim" \in Faults, NEW s \in SessionIds PROVE Covered(s)'
  <2>1. Covered(s)
    BY Zenon, <1>2 DEF Retains
  <2>2. CASE \E q \in Partitions : Trim(q)
    BY Zenon, <2>1, <2>2, CoveredTrim
  <2>3. CASE \E p \in Procs : Produce(p)
    <3>1. PICK p \in Procs : Produce(p)
      BY Zenon, <2>3
    <3>2. Pending(p) \in Record /\ Persist(Pending(p))
          /\ UNCHANGED <<oldest, images, listed, lineage>>
      BY Zenon, <3>1, PendingType DEF Produce, IInv, remote
    <3> QED BY Zenon, <2>1, <3>2, CoveredPersist
  <2>4. CASE UNCHANGED <<log, oldest, truth>>
    <3>1. images[s] \subseteq images'[s]
      BY Zenon, ImagesGrow
    <3> QED BY Zenon, <2>1, <2>4, <3>1, CoveredStill
  <2> QED BY Zenon, <2>2, <2>3, <2>4, BrokerStill
<1>3. ASSUME "trim" \in Faults, NEW q \in Procs PROVE Newest(proc[q])'
  <2>1. \A p \in Procs : Newest(proc[p]) /\ May[p] \subseteq {"mount"}
    BY Zenon, <1>3 DEF Retains, Mild
  <2>2. ASSUME NEW p \in Procs, Step(p) PROVE Newest(proc[q])'
    <3>1. CASE q = p
      BY Zenon, <2>1, <2>2, <3>1, NewestSteps
    <3>2. CASE q # p
      BY Zenon, <2>1, <2>2, <3>2, NewestOthers
    <3> QED BY Zenon, <3>1, <3>2
  <2>3. CASE ~ \E p \in Procs : Step(p)
    <3>1. UNCHANGED <<proc, images>>
      BY Zenon, <2>3 DEF Next, ExpireLease, Land, Trim, IInv, Calm, vars, remote
    <3> QED BY Zenon, <2>1, <3>1 DEF Newest
  <2> QED BY Zenon, <2>2, <2>3
<1> QED BY Zenon, <1>1, <1>2, <1>3 DEF Retains

----------------------------------------------------------------------------
(* The invariant and what follows from it *)

\* The initial state satisfies the invariant.
LEMMA IInvInit == Init => IInv
<1> SUFFICES ASSUME Init PROVE IInv
  BY Zenon
<1>1. Sane
  BY Zenon, SaneInit
<1>2. \A p \in Procs : proc[p] = Idle /\ proc[p].pc = "idle" /\ proc[p].role = "none"
  BY Zenon DEF Init, Idle
<1>3. \A s \in SessionIds : /\ LogOf(s) = <<>> /\ images[s] = {}
                            /\ lineage[s] = NoLineage /\ truth[s] = <<New>>
  BY Zenon, ConstantsAssumption DEF Init, LogOf
<1>4. Calm
  BY Zenon DEF Init, Calm
<1>5. ASSUME NEW s \in SessionIds
      PROVE  /\ Len(LogOf(s)) = 0 /\ Len(truth[s]) = 1 /\ truth[s][1] = New
             /\ Current(s) = New
  <2>1. Len(<<>>) = 0 /\ Len(<<New>>) = 1 /\ <<New>>[1] = New
    BY Zenon
  <2>2. LogOf(s) = <<>> /\ truth[s] = <<New>>
    BY Zenon, <1>3
  <2>3. Len(LogOf(s)) = 0
    BY Zenon, <2>1, <2>2
  <2>4. Len(truth[s]) = 1 /\ truth[s][1] = New
    BY Zenon, <2>1, <2>2
  <2> QED BY Zenon, <2>3, <2>4 DEF Current
<1>6. TruthIsReplay
  <2>1. 1 .. 0 = {} /\ 0 + 1 = 1
    OBVIOUS
  <2> QED BY Zenon, <1>5, <2>1 DEF TruthIsReplay
<1>a. UnusedIds
  <2>1. 1 .. 0 = {}
    OBVIOUS
  <2> QED BY Zenon, <1>3, <1>5, <2>1 DEF UnusedIds, Silent
<1>7. ImagesSound
  BY Zenon, <1>3 DEF ImagesSound
<1>8. ProcSound
  BY Zenon, <1>2 DEF ProcSound
<1>9. Exclusive
  BY Zenon, <1>2 DEF Exclusive, Mounting, Bearing
<1>10. LineageSound
  BY <1>3 DEF LineageSound, NoLineage
<1> QED BY Zenon, <1>1, <1>4, <1>6, <1>7, <1>8, <1>9, <1>10, <1>a DEF IInv

\* Nothing is dropped at first.
LEMMA RetainsInit == Init => Retains
<1> SUFFICES ASSUME Init PROVE Retains
  BY Zenon
<1>1. ASSUME NEW s \in SessionIds PROVE Covered(s)
  <2>1. oldest[PartitionFor[s]] = 0 /\ Len(LogOf(s)) = 0
    BY ConstantsAssumption DEF Init, LogOf
  <2>2. 0 <= 0 /\ \A n \in 0 .. 0 : n = 0
    OBVIOUS
  <2> QED BY Zenon, <2>1, <2>2 DEF Covered
<1>2. \A p \in Procs : Newest(proc[p])
  BY Zenon DEF Init, Newest, Idle
<1> QED BY Zenon, <1>1, <1>2 DEF Init, Retains

\* Every step keeps the invariant when the environment is Mild.
LEMMA IInvNext ==
  ASSUME Mild
  PROVE  IInv /\ Retains /\ [Next]_vars => IInv'
<1> SUFFICES ASSUME IInv, Retains, [Next]_vars PROVE IInv'
  BY Zenon
<1>1. Sane'
  BY Zenon, SaneNext DEF IInv
<1>2. ASSUME NEW p \in Procs, Step(p) PROVE IInv'
  <2>1. CASE \E s \in SessionIds : NewSession(p, s)
    BY Zenon, <1>1, <2>1, IInvNewSession
  <2>2. CASE \E s \in SessionIds, role \in {"mount", "tool"} : Open(p, s, role)
    BY Zenon, <1>1, <2>2, IInvOpens
  <2>3. CASE \E s \in SessionIds, to \in -1 .. MaxLog : Branch(p, s, to)
    BY Zenon, <1>1, <2>3, IInvOpens
  <2>4. CASE \E c \in SessionIds : RegisterChild(p, c)
    BY Zenon, <1>1, <2>4, IInvRegisterChild
  <2>5. CASE \E o \in Writes : PutBlob(p, o)
    BY Zenon, <1>1, <2>5, IInvStill DEF PutBlob, broker
  <2>6. CASE \E o \in Ops : Commit(p, o)
    BY Zenon, <1>1, <2>6, IInvCommit
  <2>7. CASE Produce(p)
    BY Zenon, <1>1, <2>7, IInvProduce
  <2>8. CASE Retry(p)
    BY Zenon, <2>8, MildFaults DEF Retry
  <2>9. CASE AckStart(p) \/ AckChild(p) \/ AckCommit(p) \/ CommitFails(p)
    BY Zenon, <1>1, <2>9, IInvAckStart, IInvAckChild, IInvAckCommit, IInvCommitFails
  <2>10. CASE ReadEnd(p) \/ Replay(p) \/ ReplayDone(p) \/ SaveBirth(p)
    BY Zenon, <1>1, <2>10, IInvReadEnd, IInvReplay, IInvReplayDone, IInvSaveBirth
  <2>11. CASE Claim(p) \/ Renew(p)
    BY Zenon, <1>1, <2>11, IInvClaim, IInvRenew
  <2>12. CASE Exit(p) \/ Unmount(p) \/ Crash(p)
    BY Zenon, <1>1, <2>12, IInvStops
  <2>13. CASE Snapshot(p) \/ SaveImage(p) \/ SaveFails(p)
    BY Zenon, <1>1, <2>13, IInvSnapshot, IInvSaveImage, IInvSaveFails
  <2> QED BY Zenon, <1>2, <2>1, <2>2, <2>3, <2>4, <2>5, <2>6, <2>7, <2>8, <2>9, <2>10,
             <2>11, <2>12, <2>13 DEF Step
<1>3. CASE \E s \in SessionIds : ExpireLease(s)
  BY Zenon, <1>1, <1>3, IInvStill DEF ExpireLease, broker
<1>4. CASE \E r \in limbo : Land(r)
  BY Zenon, <1>4 DEF IInv, Calm
<1>5. CASE \E q \in Partitions : Trim(q)
  BY Zenon, <1>1, <1>5, IInvStill DEF Trim, remote
<1>6. CASE UNCHANGED vars
  BY Zenon, <1>1, <1>6, IInvStill DEF vars, broker, remote
<1> QED BY Zenon, <1>2, <1>3, <1>4, <1>5, <1>6 DEF Next

\* What IInv says, property by property.
LEMMA IInvImplies ==
  ASSUME IInv
  PROVE  /\ NeverPoisoned /\ ReplayAccepted /\ ImagesExact
         /\ ObjectExact /\ WriterCurrent /\ LineageExact
<1>0. /\ Calm /\ ImagesSound /\ LineageSound
      /\ \A p \in Procs : proc[p].pc # "idle" => Good(proc[p])
  BY Zenon DEF IInv, ProcSound
<1>1. NeverPoisoned
  BY Zenon, <1>0 DEF Calm, NeverPoisoned
<1>2. ImagesExact
  BY <1>0, Zenon DEF ImagesSound, ImagesExact
<1>3. ReplayAccepted
  <2> SUFFICES ASSUME NEW p \in Procs,
                      proc[p].pc = "replay", proc[p].cursor < proc[p].limit,
                      LogOf(proc[p].sid)[proc[p].cursor + 1].key = proc[p].sid
               PROVE  Accepts(proc[p].upper,
                              LogOf(proc[p].sid)[proc[p].cursor + 1])
    BY Zenon DEF ReplayAccepted
  <2> QED BY Zenon, ReplayFits
<1>4. ObjectExact
  BY <1>0, Zenon DEF Good, Holds, Owns, ObjectExact, Live
<1>5. WriterCurrent
  BY Zenon, <1>0 DEF Good, Owns, WriterCurrent, Live, Mounting
<1>6. LineageExact
  BY Zenon, <1>0 DEF LineageSound, LineageExact
<1> QED BY Zenon, <1>1, <1>2, <1>3, <1>4, <1>5, <1>6

\* In a Mild environment IInv holds throughout, and with it all the safety
\* properties: for any number of sessions, processes, partitions and records,
\* any placement of sessions on partitions, and any overlay semantics.
THEOREM SessionSafe ==
  ASSUME Mild
  PROVE  Spec => []IInv
<1>1. ASSUME Mild PROVE IInv /\ Retains /\ [Next]_vars => IInv' /\ Retains'
  BY Zenon, <1>1, IInvNext, RetainsNext
<1> QED BY <1>1, IInvInit, RetainsInit, PTL DEF Spec

\* An event Apply would reject never becomes durable (commitLocked).
THEOREM NothingPoisoned ==
  ASSUME Mild
  PROVE  Spec => []NeverPoisoned
<1>1. IInv => NeverPoisoned
  BY Zenon, IInvImplies
<1> QED BY <1>1, SessionSafe, PTL

\* Resume and branch never stop at a rejected record (reconstruct).
THEOREM ReplayNeverStops ==
  ASSUME Mild
  PROVE  Spec => []ReplayAccepted
<1>1. IInv => ReplayAccepted
  BY Zenon, IInvImplies
<1> QED BY <1>1, SessionSafe, PTL

\* The image tagged n is the session after record n (Checkpoint, Branch).
THEOREM ImagesMatchTags ==
  ASSUME Mild
  PROVE  Spec => []ImagesExact
<1>1. IInv => ImagesExact
  BY Zenon, IInvImplies
<1> QED BY <1>1, SessionSafe, PTL

\* A live object holds the state of its lastOffset and the next sequence
\* number (OpenSession, commitLocked).
THEOREM ObjectsMatchLog ==
  ASSUME Mild
  PROVE  Spec => []ObjectExact
<1>1. IInv => ObjectExact
  BY Zenon, IInvImplies
<1> QED BY <1>1, SessionSafe, PTL

\* A mount that is not fenced shows everything durable in its session.
THEOREM WriterShowsLog ==
  ASSUME Mild
  PROVE  Spec => []WriterCurrent
<1>1. IInv => WriterCurrent
  BY Zenon, IInvImplies
<1> QED BY <1>1, SessionSafe, PTL

\* A child starts as its parent at the recorded offset (Branch).
THEOREM ChildrenMatchParents ==
  ASSUME Mild
  PROVE  Spec => []LineageExact
<1>1. IInv => LineageExact
  BY Zenon, IInvImplies
<1> QED BY <1>1, SessionSafe, PTL

\* Two images of a session with one tag are one image, so storing an image
\* never takes another away: checkpoints of a daemon and of a tool that race
\* to the same offset write the same object (SaveStateImage).
THEOREM ImagesNeverReplaced ==
  ASSUME Mild
  PROVE  Spec => ImagesKept
<1>1. ASSUME IInv, [Next]_vars
      PROVE  [\A s \in SessionIds : images[s] \subseteq images'[s]]_images
  BY Zenon, <1>1, ImagesGrow
<1> QED BY <1>1, SessionSafe, PTL DEF Spec, ImagesKept
----------------------------------------------------------------------------
(* Session implements Store *)

\* Whatever commits, crashes, resumes, checkpoints and branches do, they do
\* no more than Store: durable trees that only the one mount showing them
\* changes, by accepted mutations, and children that begin as a state their
\* parent had (commitLocked, reconstruct, Branch).
THEOREM SessionImplementsStore ==
  ASSUME Mild
  PROVE  Spec => ImplementsStore
<1>1. IInv /\ [Next]_vars => [Abstract!Next]_Abstract!svars
  BY Zenon, NextImplements DEF StoreStep
<1> QED BY <1>1, InitImplements, SessionSafe, PTL
        DEF Spec, ImplementsStore, Abstract!Spec
============================================================================
