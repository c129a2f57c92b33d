---------------------------- MODULE LeaseProofs ----------------------------
(***************************************************************************)
(* The properties of Lease for any number of mounts and any heartbeat,     *)
(* provided the lease outlives the renewals that may fail in a row.        *)
(***************************************************************************)
EXTENDS Lease, TLAPS

\* The lease outlives a round of renewals, and the requests before and after.
Outlives == Round + 2 * Delay <= LeaseTTL

(* Numbers *)

\* Failed renewals and a round in ticks.
LEMMA Rounds ==
  /\ LeaseRefresh \in Nat /\ LeaseTTL \in Nat /\ Delay \in Nat
  /\ 2 * Delay < LeaseRefresh /\ 2 * LeaseRefresh <= LeaseTTL
  /\ Round \in Nat /\ SplitBound = 2 * (Round + Delay) /\ MaxFails \in Nat
  /\ Missed(0) = 0
  /\ \A n \in 0 .. MaxFails : Missed(n) \in Nat /\ Missed(n) + LeaseRefresh <= Round
  /\ \A n \in 0 .. MaxFails : Missed(n + 1) = Missed(n) + LeaseRefresh
<1>1. /\ LeaseRefresh \in Nat /\ LeaseTTL = 3 * LeaseRefresh /\ Delay \in Nat
      /\ 2 * Delay < LeaseRefresh /\ MaxFails \in Nat
  BY Zenon, LeaseAssumption
<1>2. /\ LeaseTTL \in Nat /\ 2 * LeaseRefresh <= LeaseTTL
      /\ Round \in Nat /\ SplitBound = 2 * (Round + Delay) /\ Missed(0) = 0
  BY <1>1 DEF Round, SplitBound, Missed
<1>3. ASSUME NEW n \in 0 .. MaxFails
      PROVE  /\ Missed(n) \in Nat /\ Missed(n + 1) = Missed(n) + LeaseRefresh
             /\ Missed(n) + LeaseRefresh <= Round
  <2>1. MaxFails - n \in Nat /\ MaxFails + 1 = n + 1 + (MaxFails - n)
    BY <1>1
  <2>2. Round = (n + 1) * LeaseRefresh + (MaxFails - n) * LeaseRefresh
    BY <1>1, <2>1 DEF Round
  <2>3. (MaxFails - n) * LeaseRefresh \in Nat
    BY <1>1, <2>1
  <2>4. (n + 1) * LeaseRefresh = n * LeaseRefresh + LeaseRefresh
        /\ n * LeaseRefresh \in Nat
    BY <1>1
  <2> QED BY <1>1, <2>2, <2>3, <2>4 DEF Missed
<1> QED BY Zenon, <1>1, <1>2, <1>3

----------------------------------------------------------------------------
(* Types *)

\* What the actions make of a mount is a mount.
LEMMA MountType ==
  ASSUME NEW r \in Mount
  PROVE  /\ Out \in Mount
         /\ \A c \in {"claim", "renew"} :
              [r EXCEPT !.call = c, !.age = 0, !.beat = 0] \in Mount
         /\ [r EXCEPT !.call = "claim", !.age = 0] \in Mount
         /\ [r EXCEPT !.fenced = TRUE, !.beat = 0] \in Mount
         /\ r.fails < MaxFails =>
              /\ [r EXCEPT !.fails = @ + 1, !.beat = 0] \in Mount
              /\ [r EXCEPT !.call = "none", !.age = 0, !.fails = @ + 1] \in Mount
         /\ [r EXCEPT !.pc = "writer", !.call = "none", !.age = 0, !.fails = 0]
              \in Mount
         /\ [r EXCEPT !.pc = "leaving", !.call = "release", !.age = 0] \in Mount
         /\ \A b \in BOOLEAN : [r EXCEPT !.frozen = b] \in Mount
         /\ \A a \in 0 .. LeaseTTL + 1, b \in 0 .. LeaseRefresh :
              [r EXCEPT !.age = a, !.beat = b] \in Mount
<1>1. /\ 0 \in 0 .. LeaseTTL + 1 /\ 0 \in 0 .. LeaseRefresh /\ 0 \in 0 .. MaxFails
      /\ r.fails < MaxFails => r.fails + 1 \in 0 .. MaxFails
  BY Rounds DEF Mount
<1> QED BY <1>1, Zenon DEF Mount, Out

\* What a step of m leaves of the mounts.
LEMMA Others ==
  ASSUME TypeOK, NEW m \in Mounts, NEW r, Set(m, r)
  PROVE  mount'[m] = r /\ \A n \in Mounts \ {m} : mount'[n] = mount[n]
  BY Zenon DEF TypeOK, Set

\* A step of m keeps the types when its record and the objects have theirs.
LEMMA TypeSet ==
  ASSUME TypeOK, NEW m \in Mounts, NEW r \in Mount, Fitting(r), Set(m, r),
         lease' \in Object, late' \subseteq 0 .. LeaseTTL + 1,
         raced' \in BOOLEAN, together' \in Nat
  PROVE  TypeOK'
<1>1. mount' \in [Mounts -> Mount]
  BY Zenon DEF TypeOK, Set
<1>2. \A n \in Mounts : Fitting(mount'[n])
  BY Zenon, Others DEF TypeOK
<1> QED BY Zenon, <1>1, <1>2 DEF TypeOK, Fitting

\* The lease that a step leaves is one.
LEMMA ObjectType ==
  ASSUME TypeOK, NEW m \in Mounts
  PROVE  /\ Abandoned(m) \in Object /\ NoLease \in Object
         /\ \A t \in Mounts \cup {"nobody"}, a \in 0 .. LeaseTTL + 1 :
              Landed(t, a) \in Object
  BY Rounds DEF TypeOK, Object, Abandoned, NoLease, Landed

\* Tick keeps the types.
LEMMA TypeTick ==
  ASSUME TypeOK, Tick
  PROVE  TypeOK'
<1> DEFINE age(m) == IF mount[m].call = "none" THEN mount[m].age
                     ELSE Capped(mount[m].age, LeaseTTL + 1)
           beat(m) == IF mount[m].pc = "writer"
                      THEN Capped(mount[m].beat, LeaseRefresh)
                      ELSE mount[m].beat
<1>0. /\ mount \in [Mounts -> Mount] /\ lease \in Object /\ raced \in BOOLEAN
      /\ late \subseteq 0 .. LeaseTTL + 1 /\ together \in Nat
      /\ \A m \in Mounts : Fitting(mount[m])
  BY Zenon DEF TypeOK
<1>1. \A m \in Mounts : mount[m] \in Mount /\ Fitting(mount[m])
  BY <1>0, Zenon
<1>2. ASSUME NEW m \in Mounts
      PROVE  age(m) \in 0 .. LeaseTTL + 1 /\ beat(m) \in 0 .. LeaseRefresh
  <2>1. mount[m].age \in 0 .. LeaseTTL + 1 /\ mount[m].beat \in 0 .. LeaseRefresh
    BY Zenon, <1>1 DEF Mount
  <2> QED BY <2>1, Rounds DEF Capped
<1>3. mount' = [m \in Mounts |-> [mount[m] EXCEPT !.age = age(m), !.beat = beat(m)]]
  BY Zenon DEF Tick
<1>4. mount' \in [Mounts -> Mount]
  <2> HIDE DEF age, beat
  <2>1. \A m \in Mounts : [mount[m] EXCEPT !.age = age(m), !.beat = beat(m)] \in Mount
    BY <1>1, <1>2, MountType, Zenon
  <2> QED BY <1>3, <2>1, Zenon
<1>5. ASSUME NEW m \in Mounts
      PROVE  Fitting(mount[m])'
  <2>1. mount'[m] = [mount[m] EXCEPT !.age = age(m), !.beat = beat(m)]
    BY <1>3, Zenon
  <2>2. mount[m].call = "renew" => beat(m) <= age(m)
    BY <1>1, Rounds DEF Mount, Fitting, Capped
  <2> QED BY <1>1, <2>1, <2>2 DEF Mount, Fitting
<1>6. lease' \in Object
  <2>1. Capped(lease.age, LeaseTTL + 1) \in 0 .. LeaseTTL + 1
    BY <1>0, Rounds DEF Capped, Object
  <2>2. lease' \in {lease, [lease EXCEPT !.age = Capped(lease.age, LeaseTTL + 1)]}
    BY Zenon DEF Tick
  <2> QED BY <1>0, <2>1, <2>2, Zenon DEF Object
<1>7. late' \subseteq 0 .. LeaseTTL + 1
  <2>1. late' = {a + 1 : a \in late} /\ \A a \in late : a < Delay
    BY Zenon DEF Tick
  <2>2. \A a \in late : a + 1 \in 0 .. LeaseTTL + 1
    BY <1>0, <2>1, Rounds
  <2> QED BY <2>1, <2>2, Zenon
<1>8. raced' \in BOOLEAN /\ together' \in Nat
  <2>1. together' \in {0, Capped(together, SplitBound + 1)} /\ raced' = raced
    BY Zenon DEF Tick
  <2>2. Capped(together, SplitBound + 1) \in Nat /\ 0 \in Nat
    BY <1>0 DEF Capped
  <2> QED BY <1>0, <2>1, <2>2, Zenon
<1> QED BY Zenon, <1>4, <1>5, <1>6, <1>7, <1>8 DEF TypeOK

\* Every step keeps the types.
LEMMA TypeNext == TypeOK /\ [Next]_vars => TypeOK'
<1> SUFFICES ASSUME TypeOK, [Next]_vars
             PROVE  TypeOK'
  BY Zenon
<1>1. ASSUME NEW m \in Mounts
      PROVE  (raced' = (raced \/ Overlaps(m))) => raced' \in BOOLEAN
  BY Zenon DEF Overlaps
<1>2. ASSUME NEW m \in Mounts
      PROVE  mount[m] \in Mount /\ Fitting(mount[m])
  BY Zenon DEF TypeOK
<1>3. CASE UNCHANGED vars
  BY Zenon, <1>3 DEF vars, TypeOK, Fitting
<1>4. CASE Tick
  BY Zenon, <1>4, TypeTick
<1>5. CASE LatePut
  <2>1. lease' \in Object
    BY <1>5, ObjectType DEF LatePut, TypeOK, Object, Landed
  <2> QED BY Zenon, <1>5, <2>1 DEF LatePut, TypeOK, Fitting
<1>6. ASSUME NEW m \in Mounts, Step(m) \/ Crash(m) \/ Freeze(m) \/ Thaw(m)
      PROVE  TypeOK'
  <2> DEFINE r == mount[m]
  <2>0. r \in Mount /\ Fitting(r) /\ Fitting(Out) /\ Out \in Mount
    BY <1>2, MountType, Zenon DEF Fitting, Out
  <2>1. CASE ClaimLease(m)
    <3>1. Fitting([r EXCEPT !.call = "claim", !.age = 0])
      BY Zenon, <2>0, <2>1 DEF ClaimLease, Ready, Fitting, Mount
    <3> QED BY <1>1, <2>0, <2>1, <3>1, MountType, TypeSet, Zenon DEF ClaimLease, TypeOK
  <2>2. CASE RenewLease(m)
    <3>1. /\ Fitting([r EXCEPT !.call = "renew", !.age = 0, !.beat = 0])
          /\ Fitting([r EXCEPT !.fenced = TRUE, !.beat = 0])
          /\ Fitting([r EXCEPT !.fails = @ + 1, !.beat = 0])
      BY <2>0, <2>2 DEF RenewLease, Ready, Fitting, Mount
    <3> QED BY <1>1, <2>0, <2>2, <3>1, MountType, TypeSet, Zenon DEF RenewLease, TypeOK
  <2>3. CASE putLease(m)
    <3>1. Fitting([r EXCEPT !.pc = "writer", !.call = "none", !.age = 0,
                            !.fails = 0])
      BY Zenon, <2>0, <2>3 DEF Fitting, Mount
    <3>2. lease' \in Object /\ together' \in Nat
      BY Zenon, <2>0, <2>3, ObjectType DEF putLease, Mount, TypeOK
    <3> QED BY <2>0, <2>3, <3>1, <3>2, MountType, TypeSet, Zenon DEF putLease, TypeOK
  <2>4. CASE PutFails(m)
    <3>1. r.call = "renew" =>
            Fitting([r EXCEPT !.call = "none", !.age = 0, !.fails = @ + 1])
      BY Zenon, <2>0, <2>4 DEF Fitting, Mount
    <3>2. lease' \in Object
      BY SMTT(30), <2>0, <2>4, ObjectType DEF PutFails, Mount, TypeOK
    <3> QED BY <2>0, <2>4, <3>1, <3>2, MountType, TypeSet, Zenon DEF PutFails, TypeOK
  <2>5. CASE ReleaseLease(m)
    <3>1. Fitting([r EXCEPT !.pc = "leaving", !.call = "release", !.age = 0])
      BY Zenon, <2>0, <2>5 DEF Fitting, Mount
    <3>2. lease' \in Object
      BY Zenon, <2>5, ObjectType DEF ReleaseLease, TypeOK
    <3> QED BY <1>1, <2>0, <2>5, <3>1, <3>2, MountType, TypeSet, Zenon
            DEF ReleaseLease, TypeOK
  <2>6. CASE DeleteLease(m)
    BY <2>0, <2>6, ObjectType, TypeSet, Zenon DEF DeleteLease, TypeOK
  <2>7. CASE Crash(m)
    <3>1. late' \subseteq 0 .. LeaseTTL + 1 /\ together' \in Nat
      BY <2>0, <2>7, Zenon DEF Crash, TypeOK, Mount
    <3> QED BY <2>0, <2>7, <3>1, ObjectType, TypeSet, Zenon DEF Crash, TypeOK
  <2>8. CASE Freeze(m) \/ Thaw(m)
    <3>1. \A b \in BOOLEAN : Fitting([r EXCEPT !.frozen = b])
      BY Zenon, <2>0 DEF Fitting, Mount
    <3>2. PICK b \in BOOLEAN : Set(m, [r EXCEPT !.frozen = b])
      BY <2>8, Zenon DEF Freeze, Thaw
    <3>3. [r EXCEPT !.frozen = b] \in Mount
      BY <2>0, MountType, Zenon
    <3>4. raced' \in BOOLEAN /\ together' \in Nat
      <4>1. raced \in BOOLEAN /\ together \in Nat /\ 0 \in Nat
        BY Zenon DEF TypeOK
      <4> QED BY <2>8, <4>1, Zenon DEF Freeze, Thaw
    <3>5. lease' = lease /\ late' = late
      BY Zenon, <2>8 DEF Freeze, Thaw
    <3> QED BY Zenon, <3>1, <3>2, <3>3, <3>4, <3>5, TypeSet DEF TypeOK
  <2> QED BY Zenon, <1>6, <2>1, <2>2, <2>3, <2>4, <2>5, <2>6, <2>7, <2>8 DEF Step
<1> QED BY Zenon, <1>3, <1>4, <1>5, <1>6 DEF Next
----------------------------------------------------------------------------
(* Without a race *)

\* The lease of a mount that is not out is alive.
LEMMA Alive ==
  ASSUME TypeOK, NoRace, Outlives, NEW m \in Mounts, mount[m].pc # "out"
  PROVE  /\ lease.token = m /\ ~expired
         /\ \A n \in Mounts \ {m} : mount[n].pc = "out" /\ ~Free(n)
<1>1. mount[m] \in Mount /\ Fitting(mount[m]) /\ lease.age \in Nat
  BY DEF TypeOK, Object
<1>2. /\ lease.token = m /\ \A n \in Mounts \ {m} : mount[n].pc = "out"
      /\ mount[m].pc = "writer" => lease.age <= Delay + Since(mount[m])
      /\ mount[m].pc = "leaving" => lease.age <= Delay + Round + mount[m].age
      /\ mount[m].call # "none" => mount[m].age <= Delay
  BY Zenon DEF NoRace
<1>3. mount[m].pc = "writer" => Since(mount[m]) <= Round + Delay
  BY <1>1, <1>2, Rounds DEF Since, Mount, Fitting
<1>4. lease.age <= LeaseTTL
  BY <1>1, <1>2, <1>3, Rounds DEF Outlives, Mount, Fitting, Since
<1>5. ~expired
  BY <1>1, <1>4, Rounds DEF expired
<1> QED BY Zenon, <1>2, <1>5, LeaseAssumption DEF Free

\* A step of m keeps NoRace when its new record fits what the others are.
LEMMA NoRaceSet ==
  ASSUME TypeOK, NoRace, NEW m \in Mounts, NEW r \in Mount, Set(m, r),
         ~r.frozen, ~r.fenced,
         r.call # "none" => /\ r.age <= Delay /\ late' = {}
                            /\ \A n \in Mounts \ {m} : mount[n].call = "none",
         late' # {} \/ r.call = "claim" =>
           r.pc = "out" /\ \A n \in Mounts \ {m} : mount[n].pc = "out",
         late' # {} => \A n \in Mounts \ {m} : mount[n].call = "none",
         r.pc # "out" => \A n \in Mounts \ {m} : /\ mount[n].pc = "out"
                                                 /\ mount[n].call # "claim",
         r.pc # "out" => lease'.token = m,
         r.pc = "writer" => lease'.age <= Delay + Since(r),
         r.pc = "leaving" => lease'.age <= Delay + Round + r.age,
         \A n \in Mounts \ {m} : mount[n].pc # "out" => lease' = lease
  PROVE  NoRace'
<1>1. mount'[m] = r /\ \A n \in Mounts \ {m} : mount'[n] = mount[n]
  BY Zenon, Others
<1>2. \A n \in Mounts \ {m} :
        mount[n].pc \in {"writer", "leaving"} => lease' = lease
  BY Zenon, <1>1
<1>3. (\A n \in Mounts : ~mount[n].frozen /\ ~mount[n].fenced)'
  BY Zenon, <1>1 DEF NoRace
<1>4. (\A n \in Mounts : mount[n].call # "none" =>
         /\ mount[n].age <= Delay
         /\ \A k \in Mounts : mount[k].call # "none" => k = n)'
  BY <1>1 DEF NoRace
<1>5. (late # {} \/ (\E n \in Mounts : mount[n].call = "claim") =>
         \A n \in Mounts : mount[n].pc = "out")'
  BY <1>1 DEF NoRace
<1>6. (late # {} => \A n \in Mounts : mount[n].call = "none")'
  BY Zenon, <1>1
<1>7. (\A n \in Mounts : mount[n].pc # "out" => lease.token = n)'
  BY <1>1 DEF NoRace
<1>8. (\A n \in Mounts :
         mount[n].pc = "writer" => lease.age <= Delay + Since(mount[n]))'
  BY <1>1, <1>2 DEF NoRace, Since
<1>9. (\A n \in Mounts :
         mount[n].pc = "leaving" => lease.age <= Delay + Round + mount[n].age)'
  BY Zenon, <1>1, <1>2 DEF NoRace
<1> QED BY Zenon, <1>3, <1>4, <1>5, <1>6, <1>7, <1>8, <1>9 DEF NoRace

\* A step of a mount keeps NoRace: a claim is let in only when all are out,
\* and whoever has the lease keeps it until it goes.
LEMMA NoRaceStep ==
  ASSUME TypeOK, NoRace, Outlives, ~raced', NEW m \in Mounts,
         Step(m) \/ Crash(m)
  PROVE  NoRace'
<1> DEFINE r == mount[m]
           others == Mounts \ {m}
<1>1. /\ r \in Mount /\ Fitting(r) /\ ~r.frozen /\ ~r.fenced
      /\ r.call # "none" => /\ r.age <= Delay /\ late = {}
                            /\ \A n \in others : mount[n].call = "none"
      /\ r.call = "claim" => \A n \in others : mount[n].pc = "out"
  BY Zenon DEF TypeOK, NoRace
<1>2. /\ Out \in Mount /\ ~Out.frozen /\ ~Out.fenced /\ Out.call = "none"
      /\ Out.pc = "out"
  BY <1>1, MountType, Zenon DEF Out
<1>3. r.pc # "out" =>
        /\ lease.token = m /\ ~expired
        /\ \A n \in others : mount[n].pc = "out" /\ ~Free(n)
  BY Zenon, Alive
<1>4. r.pc # "out" => late = {} /\ \A n \in others : mount[n].call # "claim"
  BY Zenon DEF NoRace
<1>5. \A n \in others : mount[n].pc # "out" => lease.token = n /\ ~Free(m)
  BY Zenon, Alive
<1>6. r.pc = "writer" => lease.age <= Delay + Since(r)
  BY Zenon DEF NoRace
<1>7. lease.age \in Nat /\ lease \in Object
  BY DEF TypeOK, Object
<1>8. CASE ClaimLease(m)
  <2> DEFINE q == [r EXCEPT !.call = "claim", !.age = 0]
  <2>0. q \in Mount
    BY <1>1, MountType, Zenon
  <2>1. /\ q.call = "claim" /\ q.age = 0 /\ q.pc = "out"
        /\ ~q.frozen /\ ~q.fenced
    BY Zenon, <1>1, <1>8 DEF Mount, ClaimLease, Ready
  <2>2. /\ Set(m, q) /\ Free(m) /\ late = {} /\ late' = late /\ lease' = lease
        /\ \A n \in others : mount[n].call = "none"
    BY <1>8, Zenon DEF ClaimLease, Overlaps
  <2>3. \A n \in others : mount[n].pc = "out"
    BY Zenon, <1>5, <2>2
  <2> HIDE DEF q
  <2> QED BY <2>0, <2>1, <2>2, <2>3, Rounds, NoRaceSet
<1>9. CASE RenewLease(m)
  <2> DEFINE q == [r EXCEPT !.call = "renew", !.age = 0, !.beat = 0]
             f == [r EXCEPT !.fails = @ + 1, !.beat = 0]
  <2>1. /\ r.pc = "writer" /\ r.call = "none" /\ r.beat = LeaseRefresh
        /\ lease' = lease /\ late' = late
    BY <1>1, <1>9, Rounds DEF RenewLease, Ready, Mount
  <2>2. Free(m)
    BY Zenon, <1>3, <2>1 DEF Free
  <2>3. \/ Set(m, q) /\ \A n \in others : mount[n].call = "none"
        \/ Set(m, f) /\ r.fails < MaxFails
    BY <1>9, Zenon, <2>2 DEF RenewLease, Overlaps
  <2>0. q \in Mount /\ (r.fails < MaxFails => f \in Mount)
    BY <1>1, MountType, Zenon
  <2>4. /\ q.call = "renew" /\ q.age = 0 /\ q.pc = "writer"
        /\ ~q.frozen /\ ~q.fenced /\ q.fails = r.fails /\ q.beat = 0
    BY Zenon, <1>1, <2>1 DEF Mount
  <2>5. /\ f.call = "none" /\ f.pc = "writer"
        /\ ~f.frozen /\ ~f.fenced /\ f.fails = r.fails + 1 /\ f.beat = 0
    BY Zenon, <1>1, <2>1 DEF Mount
  <2>6. r.fails \in 0 .. MaxFails
    BY Zenon, <1>1 DEF Mount
  <2> HIDE DEF q, f
  <2>7. Since(q) = Since(r) /\ (r.fails < MaxFails => Since(f) = Since(r))
    BY <2>1, <2>4, <2>5, <2>6, Rounds DEF Since
  <2>8. CASE Set(m, q) /\ \A n \in others : mount[n].call = "none"
    BY <1>3, <1>4, <1>6, <2>0, <2>1, <2>4, <2>7, <2>8, Rounds, NoRaceSet
  <2>9. CASE Set(m, f) /\ r.fails < MaxFails
    BY Zenon, <1>3, <1>4, <1>6, <2>0, <2>1, <2>5, <2>7, <2>9, NoRaceSet
  <2> QED BY Zenon, <2>3, <2>8, <2>9
<1>10. CASE putLease(m)
  <2> DEFINE q == [r EXCEPT !.pc = "writer", !.call = "none", !.age = 0,
                            !.fails = 0]
  <2>0. q \in Mount
    BY <1>1, MountType, Zenon
  <2>1. /\ q.call = "none" /\ q.pc = "writer" /\ ~q.frozen
        /\ ~q.fenced /\ q.fails = 0 /\ q.beat = r.beat
    BY Zenon, <1>1 DEF Mount
  <2>2. /\ Set(m, q) /\ late' = late /\ lease' = [token |-> m, age |-> r.age]
        /\ r.call \in {"claim", "renew"}
    BY Zenon, <1>10 DEF putLease, Landed
  <2>3. lease'.token = m /\ lease'.age = r.age
    BY Zenon, <2>2
  <2>4. r.age \in Nat /\ r.beat \in Nat
    BY <1>1, Rounds DEF Mount
  <2> HIDE DEF q
  <2>5. Since(q) = r.beat
    BY <2>1, <2>4, Rounds DEF Since
  <2>6. r.call = "renew" => r.pc = "writer"
    BY Zenon, <1>1 DEF Fitting, Mount
  <2>7. lease'.age <= Delay + Since(q)
    BY <1>1, <2>2, <2>3, <2>4, <2>5, Rounds
  <2>8. \A n \in others : mount[n].pc = "out" /\ mount[n].call = "none"
    BY Zenon, <1>1, <1>3, <2>2, <2>6
  <2> QED BY Zenon, <1>1, <2>0, <2>1, <2>2, <2>3, <2>7, <2>8, NoRaceSet
<1>11. CASE PutFails(m)
  <2> DEFINE f == [r EXCEPT !.call = "none", !.age = 0, !.fails = @ + 1]
  <2>1. CASE r.call = "claim"
    BY Zenon, <1>1, <1>2, <1>11, <2>1, NoRaceSet DEF PutFails
  <2>2. CASE r.call = "renew"
    <3>1. /\ Set(m, f) /\ late' = late /\ r.fails < MaxFails
          /\ lease' \in {lease, [token |-> m, age |-> r.age]}
      BY Zenon, <1>11, <2>2 DEF PutFails, Landed
    <3>0. f \in Mount
      BY <1>1, <3>1, MountType, Zenon
    <3>2. /\ f.call = "none" /\ f.pc = r.pc /\ ~f.frozen
          /\ ~f.fenced /\ f.fails = r.fails + 1 /\ f.beat = r.beat
      BY Zenon, <1>1 DEF Mount
    <3>3. /\ r.age \in Nat /\ r.beat \in Nat /\ r.fails \in 0 .. MaxFails
          /\ r.fails + 1 \in 0 .. MaxFails /\ r.pc = "writer"
      BY <1>1, <2>2, <3>1, Rounds DEF Mount, Fitting
    <3> HIDE DEF f
    <3>4. Since(f) = Since(r) /\ Since(r) \in Nat
      BY <2>2, <3>2, <3>3, Rounds DEF Since
    <3>5. lease'.token = m /\ lease'.age <= Delay + Since(f)
      BY <1>1, <1>3, <1>6, <2>2, <3>1, <3>3, <3>4, Rounds
    <3> QED BY Zenon, <1>1, <1>3, <1>4, <3>0, <3>1, <3>2, <3>3, <3>5, NoRaceSet
  <2> QED BY Zenon, <1>11, <2>1, <2>2 DEF PutFails
<1>12. CASE ReleaseLease(m)
  <2> DEFINE q == [r EXCEPT !.pc = "leaving", !.call = "release", !.age = 0]
  <2>1. r.pc = "writer" /\ r.call = "none" /\ late' = late
    BY Zenon, <1>12 DEF ReleaseLease, Ready
  <2>2. CASE Set(m, Out)
    BY Zenon, <1>2, <1>3, <1>4, <2>1, <2>2, NoRaceSet
  <2>3. CASE /\ Set(m, q) /\ lease' = lease
             /\ \A n \in others : mount[n].call = "none"
    <3>0. q \in Mount
      BY <1>1, MountType, Zenon
    <3>1. /\ q.call = "release" /\ q.pc = "leaving"
          /\ ~q.frozen /\ ~q.fenced /\ q.age = 0
      BY Zenon, <1>1 DEF Mount
    <3>2. Since(r) <= Round /\ Since(r) \in Nat
      BY <1>1, <2>1, Rounds DEF Mount, Since
    <3> HIDE DEF q
    <3>3. lease.age <= Delay + Round + q.age
      BY <1>6, <1>7, <2>1, <3>1, <3>2, Rounds
    <3> QED BY <1>3, <1>4, <2>1, <2>3, <3>0, <3>1, <3>3, Rounds, NoRaceSet
  <2> QED BY Zenon, <1>12, <2>2, <2>3 DEF ReleaseLease, Overlaps
<1>13. CASE DeleteLease(m)
  <2>1. r.pc = "leaving"
    BY Zenon, <1>1, <1>13 DEF DeleteLease, Fitting, Mount
  <2> QED BY Zenon, <1>2, <1>3, <1>4, <1>13, <2>1, NoRaceSet DEF DeleteLease
<1>14. CASE Crash(m)
  <2>1. \A n \in others : mount[n].pc = "out"
    BY Zenon, <1>1, <1>3, <1>14 DEF Crash, Fitting, Mount
  <2>2. late' # {} => late # {} \/ r.call # "none"
    BY Zenon, <1>14 DEF Crash
  <2>3. late' # {} => \A n \in others : mount[n].call = "none"
    BY Zenon, <1>1, <2>2 DEF NoRace
  <2> QED BY Zenon, <1>2, <1>14, <2>1, <2>3, NoRaceSet DEF Crash
<1> QED BY Zenon, <1>8, <1>9, <1>10, <1>11, <1>12, <1>13, <1>14 DEF Step

\* What a tick makes of a mount that runs.
LEMMA TickMount ==
  ASSUME TypeOK, Tick, NEW m \in Mounts, ~mount[m].frozen
  PROVE  LET r == mount[m]
             q == mount'[m]
         IN
         /\ q.pc = r.pc /\ q.call = r.call /\ q.fails = r.fails
         /\ q.fenced = r.fenced /\ ~q.frozen
         /\ r.call # "none" => r.age < Delay /\ q.age = r.age + 1
         /\ r.pc = "writer" => q.beat = r.beat + 1 /\ Since(q) = Since(r) + 1
         /\ r.call = "renew" => r.beat < Delay
<1> DEFINE r == mount[m]
           age == IF r.call = "none" THEN r.age ELSE Capped(r.age, LeaseTTL + 1)
           beat == IF r.pc = "writer" THEN Capped(r.beat, LeaseRefresh) ELSE r.beat
<1>1. /\ mount' = [n \in Mounts |->
           [mount[n] EXCEPT
              !.age = IF mount[n].call = "none" THEN @
                      ELSE Capped(@, LeaseTTL + 1),
              !.beat = IF mount[n].pc = "writer" THEN Capped(@, LeaseRefresh)
                       ELSE @]]
      /\ OnTime(m)
  BY Zenon DEF Tick
<1>2. mount'[m] = [r EXCEPT !.age = age, !.beat = beat]
  BY <1>1, Zenon
<1>3. r \in Mount /\ Fitting(r)
  BY Zenon DEF TypeOK
<1>4. /\ r.call # "none" => r.age < Delay
      /\ r.pc = "writer" /\ r.call = "none" => r.beat < LeaseRefresh
  BY <1>1, Zenon DEF OnTime, Ready
<1>5. /\ r.age \in Nat /\ r.beat \in Nat /\ r.fails \in 0 .. MaxFails
      /\ r.pc = "writer" => r.call \in {"none", "renew"}
      /\ r.call = "renew" => r.beat <= r.age
  BY <1>3, Rounds DEF Mount, Fitting
<1>6. /\ r.call # "none" => age = r.age + 1
      /\ r.pc = "writer" => beat = r.beat + 1
  BY <1>4, <1>5, Rounds DEF Capped
<1> HIDE DEF age, beat
<1>7. LET q == mount'[m]
      IN /\ q.pc = r.pc /\ q.call = r.call /\ q.fails = r.fails
         /\ q.fenced = r.fenced /\ q.frozen = r.frozen
         /\ q.age = age /\ q.beat = beat
  BY Zenon, <1>2, <1>3 DEF Mount
<1>8. r.pc = "writer" => Since(mount'[m]) = Since(r) + 1
  BY <1>5, <1>6, <1>7, Rounds DEF Since
<1>9. r.call = "renew" => r.beat < Delay
  BY <1>4, <1>5, Rounds
<1>10. /\ r.call # "none" => mount'[m].age = r.age + 1
       /\ r.pc = "writer" => mount'[m].beat = r.beat + 1
  BY Zenon, <1>6, <1>7
<1> QED BY Zenon, <1>4, <1>7, <1>8, <1>9, <1>10

\* What a tick makes of the lease.
LEMMA TickLease ==
  ASSUME TypeOK, Tick
  PROVE  /\ lease'.token = lease.token /\ lease'.age \in Nat
         /\ lease'.age <= lease.age + 1 /\ lease.age <= lease'.age
         /\ lease.token # "none" /\ lease.age <= LeaseTTL =>
              lease'.age = lease.age + 1
<1>1. lease' = IF lease.token = "none" THEN lease
               ELSE [lease EXCEPT !.age = Capped(@, LeaseTTL + 1)]
  BY Zenon DEF Tick
<1>2. lease \in Object
  BY Zenon DEF TypeOK
<1> QED BY <1>1, <1>2, Rounds DEF Object, Capped

\* Time passes, and the lease ages no faster than its writer.
LEMMA NoRaceTick ==
  ASSUME TypeOK, NoRace, Outlives, Tick
  PROVE  NoRace'
<1>1. ASSUME NEW m \in Mounts
      PROVE  LET r == mount[m]
                 q == mount'[m]
             IN
             /\ q.pc = r.pc /\ q.call = r.call /\ ~q.frozen /\ ~q.fenced
             /\ q.call # "none" => q.age <= Delay
             /\ r.pc = "writer" => Since(q) = Since(r) + 1 /\ Since(r) \in Nat
             /\ r.pc = "leaving" => q.age = r.age + 1 /\ r.age \in Nat
  <2>1. ~mount[m].frozen /\ ~mount[m].fenced
    BY Zenon DEF NoRace
  <2>2. mount[m] \in Mount /\ Fitting(mount[m])
    BY Zenon DEF TypeOK
  <2>3. /\ mount[m].age \in Nat
        /\ mount[m].pc = "writer" => Since(mount[m]) \in Nat
        /\ mount[m].pc = "leaving" => mount[m].call # "none"
    BY <2>2, Rounds DEF Mount, Since, Fitting
  <2> QED BY <2>1, <2>3, TickMount, Rounds
<1>2. lease'.token = lease.token /\ lease'.age <= lease.age + 1
  BY Zenon, TickLease
<1>3. late' # {} => late # {}
  BY Zenon DEF Tick
<1>4. lease.age \in Nat /\ lease'.age \in Nat
  BY TickLease DEF TypeOK, Object
<1>5. (\A m \in Mounts :
         mount[m].pc = "writer" => lease.age <= Delay + Since(mount[m]))'
  BY <1>1, <1>2, <1>4, Rounds DEF NoRace
<1>6. (\A m \in Mounts :
         mount[m].pc = "leaving" => lease.age <= Delay + Round + mount[m].age)'
  BY <1>1, <1>2, <1>4, Rounds DEF NoRace
<1> QED BY Zenon, <1>1, <1>2, <1>3, <1>5, <1>6 DEF NoRace

\* NoRaceInv is inductive.
LEMMA NoRaceNext == Outlives /\ NoRaceInv /\ [Next]_vars => NoRaceInv'
<1> SUFFICES ASSUME Outlives, NoRaceInv, [Next]_vars, ~raced'
             PROVE  NoRace'
  BY Zenon, TypeNext DEF NoRaceInv
<1>0. ASSUME raced
      PROVE  FALSE
  <2>1. CASE UNCHANGED vars \/ Tick \/ LatePut
    BY <1>0, <2>1, Zenon DEF vars, Tick, LatePut
  <2>2. ASSUME NEW m \in Mounts, Crash(m) \/ Freeze(m) \/ Thaw(m)
        PROVE  FALSE
    BY <1>0, <2>2, Zenon DEF Crash, Freeze, Thaw
  <2>3. ASSUME NEW m \in Mounts, Step(m)
        PROVE  FALSE
    <3>1. CASE ClaimLease(m) \/ RenewLease(m) \/ ReleaseLease(m)
      BY <1>0, <3>1, Zenon DEF ClaimLease, RenewLease, ReleaseLease
    <3>2. CASE putLease(m) \/ PutFails(m) \/ DeleteLease(m)
      BY <1>0, <3>2, Zenon DEF putLease, PutFails, DeleteLease
    <3> QED BY Zenon, <2>3, <3>1, <3>2 DEF Step
  <2> QED BY <2>1, <2>2, <2>3, Zenon DEF Next
<1>1. ~raced /\ NoRace /\ TypeOK
  BY Zenon, <1>0 DEF NoRaceInv
<1>2. CASE UNCHANGED vars
  BY Zenon, <1>1, <1>2 DEF vars, NoRace, Since
<1>3. CASE Tick
  BY Zenon, <1>1, <1>3, NoRaceTick
<1>4. CASE LatePut
  <2>1. late # {} /\ mount' = mount
    BY Zenon, <1>4 DEF LatePut
  <2>2. \A n \in Mounts : mount[n].pc = "out" /\ mount[n].call = "none"
    BY Zenon, <1>1, <2>1 DEF NoRace
  <2> QED BY Zenon, <1>1, <2>1, <2>2 DEF NoRace
<1>5. ASSUME NEW m \in Mounts, Step(m) \/ Crash(m)
      PROVE  NoRace'
  BY Zenon, <1>1, <1>5, NoRaceStep
<1>6. ASSUME NEW m \in Mounts
      PROVE  ~Freeze(m) /\ ~Thaw(m)
  BY Zenon, <1>1 DEF Freeze, Thaw, NoRace
<1> QED BY Zenon, <1>2, <1>3, <1>4, <1>5, <1>6 DEF Next

\* Initially everybody is out.
LEMMA NoRaceInit == Init => NoRaceInv
<1> SUFFICES ASSUME Init
             PROVE  NoRaceInv
  BY Zenon
<1>1. \A m \in Mounts : mount[m] = Out
  BY Zenon DEF Init
<1>2. Out \in Mount /\ Fitting(Out)
  BY Rounds DEF Out, Mount, Fitting
<1>3. TypeOK
  <2>1. lease \in Object /\ late \subseteq 0 .. LeaseTTL + 1 /\ together \in Nat
    BY Rounds DEF Init, NoLease, Object
  <2>2. mount \in [Mounts -> Mount] /\ raced \in BOOLEAN
    BY <1>2, Zenon DEF Init
  <2> QED BY Zenon, <1>1, <1>2, <2>1, <2>2 DEF TypeOK
<1>4. NoRace
  BY Zenon, <1>1 DEF Init, NoRace, Out
<1> QED BY Zenon, <1>3, <1>4 DEF NoRaceInv
----------------------------------------------------------------------------
(* Results without a race *)

\* Mutual exclusion (ClaimLease, RenewLease): unless two requests overlap or
\* a process freezes, no two mounts write the session unfenced, for any
\* number of mounts and any failures the lease outlives.
THEOREM LeaseExcludes == ASSUME Outlives PROVE Spec => []OneWriter
<1>1. NoRaceInv => OneWriter
  <2> SUFFICES ASSUME TypeOK, NoRace
               PROVE  Single
    BY Zenon DEF NoRaceInv, OneWriter
  <2> QED BY Zenon DEF NoRace, Writers, Single
<1> QED BY <1>1, NoRaceInit, NoRaceNext, PTL DEF Spec

\* A writer that keeps its heartbeat is not fenced by its own failed renewals
\* or by another's claim (RenewLease, MarkLeaseLost).
THEOREM LeaseKeepsWriter == ASSUME Outlives PROVE Spec => []NoFalseFence
<1>1. NoRaceInv => NoFalseFence
  BY Zenon DEF NoRaceInv, NoRace, NoFalseFence
<1> QED BY <1>1, NoRaceInit, NoRaceNext, PTL DEF Spec
----------------------------------------------------------------------------
(* How long a split lasts *)

\* Writers, one by one.
Writing(r) == r.pc = "writer" /\ ~r.fenced /\ ~r.frozen

\* The fields of the mounts, as arithmetic needs them.
LEMMA Fields ==
  ASSUME TypeOK, NEW m \in Mounts
  PROVE  LET r == mount[m]
         IN
         /\ r \in Mount /\ Fitting(r)
         /\ r.age \in Nat /\ r.beat \in 0 .. LeaseRefresh /\ r.fails \in 0 .. MaxFails
         /\ Since(r) \in Nat
         /\ r.call = "none" => Since(r) <= Round
         /\ r.call # "none" => Since(r) <= Round + r.beat
         /\ r.call = "renew" => r.beat <= r.age /\ Since(r) >= LeaseRefresh
         /\ m # "none" /\ m # "nobody"
<1>1. mount[m] \in Mount /\ Fitting(mount[m])
  BY Zenon DEF TypeOK
<1>2. /\ mount[m].age \in Nat /\ mount[m].beat \in 0 .. LeaseRefresh
      /\ mount[m].fails \in 0 .. MaxFails
      /\ mount[m].call = "renew" => mount[m].beat <= mount[m].age
  BY <1>1, Rounds DEF Mount, Fitting
<1>3. /\ Missed(mount[m].fails) \in Nat
      /\ Missed(mount[m].fails) + LeaseRefresh <= Round
  BY Zenon, <1>2, Rounds
<1>4. /\ Since(mount[m]) \in Nat
      /\ mount[m].call = "none" => Since(mount[m]) <= Round
      /\ mount[m].call # "none" => Since(mount[m]) <= Round + mount[m].beat
      /\ mount[m].call = "renew" => Since(mount[m]) >= LeaseRefresh
  BY <1>2, <1>3, Rounds DEF Since
<1>5. m # "none" /\ m # "nobody"
  BY Zenon, LeaseAssumption
<1> QED BY Zenon, <1>1, <1>2, <1>4, <1>5

\* What m leaves behind is not its own.
LEMMA Leaves ==
  ASSUME TypeOK, NEW m \in Mounts
  PROVE  /\ Abandoned(m).token # m /\ Abandoned(m).age = lease.age
         /\ lease.token # m => Abandoned(m) = lease
         /\ lease.token = m => Abandoned(m).token = "nobody"
  BY Zenon, Fields DEF Abandoned, TypeOK, Object

\* A step of m keeps HeldSince when m itself agrees with it.
LEMMA HeldSet ==
  ASSUME TypeOK, HeldSince, NEW m \in Mounts, NEW q, Set(m, q),
         \A n \in Mounts \ {m} : lease'.token = n => lease' = lease,
         lease'.token = m =>
           /\ q.pc # "out"
           /\ lease'.age >= q.beat + (IF q.call = "renew" THEN LeaseRefresh ELSE 0)
  PROVE  HeldSince'
<1>1. mount'[m] = q /\ \A n \in Mounts \ {m} : mount'[n] = mount[n]
  BY Zenon, Others
<1> SUFFICES ASSUME NEW n \in Mounts, lease'.token = n
             PROVE  /\ mount'[n].pc # "out"
                    /\ lease'.age >= mount'[n].beat
                         + (IF mount'[n].call = "renew" THEN LeaseRefresh ELSE 0)
  BY Zenon DEF HeldSince
<1>2. CASE n = m
  BY Zenon, <1>1, <1>2
<1>3. CASE n # m
  BY Zenon, <1>1, <1>3 DEF HeldSince
<1> QED BY Zenon, <1>2, <1>3

\* HeldSince is kept: a renewal starts a heartbeat after the last one, and
\* whoever goes leaves the lease to nobody.
LEMMA HeldNext ==
  ASSUME TypeOK, HeldSince, [Next]_vars
  PROVE  HeldSince'
<1>1. CASE UNCHANGED vars
  BY Zenon, <1>1 DEF vars, HeldSince
<1>2. CASE LatePut
  <2>1. mount' = mount /\ (lease' = lease \/ lease'.token = "nobody")
    BY <1>2 DEF LatePut, Landed
  <2> QED BY Zenon, <2>1, Fields DEF HeldSince
<1>3. CASE Tick
  <2> SUFFICES ASSUME NEW m \in Mounts, lease'.token = m
               PROVE  /\ mount'[m].pc # "out"
                      /\ lease'.age >= mount'[m].beat
                           + (IF mount'[m].call = "renew" THEN LeaseRefresh ELSE 0)
    BY Zenon DEF HeldSince
  <2> DEFINE beat == IF mount[m].pc = "writer" THEN Capped(mount[m].beat, LeaseRefresh)
                     ELSE mount[m].beat
             age == IF mount[m].call = "none" THEN mount[m].age
                    ELSE Capped(mount[m].age, LeaseTTL + 1)
  <2>1. mount'[m] = [mount[m] EXCEPT !.age = age, !.beat = beat]
    BY <1>3, Zenon DEF Tick
  <2>2. lease' = IF lease.token = "none" THEN lease
                 ELSE [lease EXCEPT !.age = Capped(@, LeaseTTL + 1)]
    BY <1>3, Zenon DEF Tick
  <2>3. beat \in 0 .. LeaseRefresh /\ beat <= mount[m].beat + 1
    BY Fields, Rounds DEF Capped
  <2> HIDE DEF beat, age
  <2>4. /\ mount'[m].beat = beat /\ mount'[m].call = mount[m].call
        /\ mount'[m].pc = mount[m].pc
    BY Zenon, <2>1, Fields DEF Mount
  <2>5. lease.token = m /\ lease.age \in Nat /\ lease.age <= LeaseTTL + 1
    BY <2>2 DEF TypeOK, Object
  <2>6. lease'.age = Capped(lease.age, LeaseTTL + 1)
    BY Zenon, <2>2, <2>5, Fields DEF TypeOK, Object
  <2>7. /\ mount[m].pc # "out"
        /\ lease.age >= mount[m].beat
                        + (IF mount[m].call = "renew" THEN LeaseRefresh ELSE 0)
    BY Zenon, <2>5 DEF HeldSince
  <2>8. mount[m].beat \in 0 .. LeaseRefresh
    BY Zenon, Fields
  <2> QED BY <2>3, <2>4, <2>5, <2>6, <2>7, <2>8, Rounds DEF Capped
<1>4. ASSUME NEW m \in Mounts, Step(m) \/ Crash(m) \/ Freeze(m) \/ Thaw(m)
      PROVE  HeldSince'
  <2> DEFINE r == mount[m]
  <2>0. /\ r \in Mount /\ Fitting(r) /\ r.age \in Nat /\ r.beat \in 0 .. LeaseRefresh
        /\ m # "none" /\ m # "nobody" /\ "none" # "nobody"
        /\ lease.token = m =>
             /\ r.pc # "out" /\ lease.age \in Nat
             /\ lease.age >= r.beat + (IF r.call = "renew" THEN LeaseRefresh ELSE 0)
    BY Fields DEF HeldSince, TypeOK, Object
  <2>1. CASE ClaimLease(m)
    <3>1. lease' = lease /\ r.pc = "out"
      BY Zenon, <2>1 DEF ClaimLease, Ready
    <3> QED BY Zenon, <2>0, <2>1, <3>1, HeldSet DEF ClaimLease
  <2>2. CASE RenewLease(m)
    <3>1. lease' = lease /\ r.call = "none" /\ r.beat = LeaseRefresh /\ r.pc = "writer"
      BY <2>0, <2>2, Rounds DEF RenewLease, Ready
    <3>2. PICK q : Set(m, q) /\ q \in {
              [r EXCEPT !.call = "renew", !.age = 0, !.beat = 0],
              [r EXCEPT !.fenced = TRUE, !.beat = 0],
              [r EXCEPT !.fails = @ + 1, !.beat = 0]}
      BY <2>2, Zenon DEF RenewLease
    <3>3. q.pc = "writer" /\ q.beat = 0
      BY Zenon, <2>0, <3>1, <3>2 DEF Mount
    <3> QED BY <2>0, <3>1, <3>2, <3>3, HeldSet, Rounds
  <2>3. CASE putLease(m)
    <3>1. PICK q : /\ lease' = Landed(m, r.age) /\ Set(m, q)
                   /\ q = [r EXCEPT !.pc = "writer", !.call = "none", !.age = 0,
                                    !.fails = 0]
      BY <2>3, Zenon DEF putLease
    <3>2. r.beat <= r.age
      BY <2>0, <2>3 DEF putLease, Fitting, Mount
    <3>3. q.pc = "writer" /\ q.call = "none" /\ q.beat = r.beat
      BY Zenon, <2>0, <3>1 DEF Mount
    <3>4. lease'.token = m /\ lease'.age = r.age
      BY Zenon, <3>1 DEF Landed
    <3>5. lease'.age >= q.beat + (IF q.call = "renew" THEN LeaseRefresh ELSE 0)
      BY <2>0, <3>2, <3>3, <3>4
    <3> QED BY <3>1, <3>3, <3>4, <3>5, HeldSet, Zenon
  <2>4. CASE PutFails(m)
    <3>1. CASE r.call = "claim"
      <4>1. Set(m, Out) /\ lease' \in {lease, Landed("nobody", r.age)}
        BY Zenon, <2>4, <3>1 DEF PutFails
      <4>2. lease.token # m
        BY Zenon, <2>0, <3>1 DEF Fitting, Mount
      <4> QED BY <2>0, <4>1, <4>2, HeldSet, Fields DEF Landed
    <3>2. CASE r.call # "claim"
      <4>1. PICK q : /\ r.call = "renew" /\ lease' \in {lease, Landed(m, r.age)}
                     /\ Set(m, q)
                     /\ q = [r EXCEPT !.call = "none", !.age = 0, !.fails = @ + 1]
        BY <2>4, <3>2, Zenon DEF PutFails
      <4>2. r.beat <= r.age /\ r.pc = "writer"
        BY Zenon, <2>0, <4>1 DEF Fitting, Mount
      <4>3. lease'.token = m => lease'.age >= r.beat
        BY <2>0, <4>1, <4>2, Rounds DEF Landed
      <4>4. q.pc = "writer" /\ q.call = "none" /\ q.beat = r.beat
        BY Zenon, <2>0, <4>1, <4>2 DEF Mount
      <4>5. \A n \in Mounts \ {m} : lease'.token = n => lease' = lease
        BY <4>1 DEF Landed
      <4>6. lease'.token = m => lease'.age \in Nat
        BY <2>0, <4>1 DEF Landed
      <4>7. lease'.token = m =>
              lease'.age >= q.beat + (IF q.call = "renew" THEN LeaseRefresh ELSE 0)
        BY <2>0, <4>3, <4>4, <4>6
      <4> QED BY <4>1, <4>4, <4>5, <4>7, HeldSet, Zenon
    <3> QED BY Zenon, <3>1, <3>2
  <2>5. CASE ReleaseLease(m)
    <3>1. CASE Set(m, Out) /\ lease' = Abandoned(m)
      BY Zenon, <3>1, HeldSet, Leaves, Fields
    <3>2. ASSUME NEW q, Set(m, q), lease' = lease,
                 q = [r EXCEPT !.pc = "leaving", !.call = "release", !.age = 0]
          PROVE  HeldSince'
      <4>1. q.pc = "leaving" /\ q.call = "release" /\ q.beat = r.beat
        BY Zenon, <2>0, <3>2 DEF Mount
      <4>2. lease'.token = m =>
              lease'.age >= q.beat + (IF q.call = "renew" THEN LeaseRefresh ELSE 0)
        BY <2>0, <3>2, <4>1, Rounds
      <4> QED BY <3>2, <4>1, <4>2, HeldSet, Zenon
    <3> QED BY Zenon, <2>5, <3>1, <3>2 DEF ReleaseLease
  <2>6. CASE DeleteLease(m)
    <3>1. Set(m, Out) /\ lease' \in {NoLease, Abandoned(m)}
      BY Zenon, <2>6 DEF DeleteLease
    <3> QED BY <2>0, <3>1, HeldSet, Fields, Leaves DEF NoLease
  <2>7. CASE Crash(m)
    <3>1. Set(m, Out) /\ lease' = Abandoned(m)
      BY Zenon, <2>7 DEF Crash
    <3> QED BY Zenon, <3>1, HeldSet, Leaves, Fields
  <2>8. CASE Freeze(m) \/ Thaw(m)
    <3>1. PICK b \in BOOLEAN : Set(m, [r EXCEPT !.frozen = b])
      BY <2>8, Zenon DEF Freeze, Thaw
    <3>2. lease' = lease
      BY Zenon, <2>8 DEF Freeze, Thaw
    <3> QED BY Zenon, <2>0, <3>1, <3>2, HeldSet DEF Mount
  <2> QED BY Zenon, <1>4, <2>1, <2>2, <2>3, <2>4, <2>5, <2>6, <2>7, <2>8 DEF Step
<1> QED BY Zenon, <1>1, <1>2, <1>3, <1>4 DEF Next

\* A step of m keeps Punctual when its own request is on time.
LEMMA PunctualSet ==
  ASSUME TypeOK, Punctual, NEW m \in Mounts, NEW q, Set(m, q), together' = together,
         InFlight(q) => q.age <= Delay,
         together > 0 => \A age \in late' : age \in late \/ age <= Delay
  PROVE  Punctual'
<1>1. mount'[m] = q /\ \A n \in Mounts \ {m} : mount'[n] = mount[n]
  BY Zenon, Others
<1> SUFFICES ASSUME together > 0
             PROVE  /\ \A n \in Mounts : InFlight(mount'[n]) => mount'[n].age <= Delay
                    /\ \A age \in late' : age <= Delay
  BY Zenon DEF Punctual, InFlight
<1>2. \A age \in late' : age <= Delay
  BY Zenon DEF Punctual
<1>3. ASSUME NEW n \in Mounts, InFlight(mount'[n])
      PROVE  mount'[n].age <= Delay
  BY <1>1, <1>3, Zenon DEF Punctual
<1> QED BY Zenon, <1>2, <1>3

\* Punctual is kept: time waits for the requests of running processes, and
\* the count starts again when a frozen one comes back.
LEMMA PunctualNext ==
  ASSUME TypeOK, Punctual, [Next]_vars
  PROVE  Punctual'
<1>1. CASE UNCHANGED vars
  BY Zenon, <1>1 DEF vars, Punctual, InFlight
<1>2. CASE LatePut
  <2>1. mount' = mount /\ together' = together /\ late' \subseteq late
    BY Zenon, <1>2 DEF LatePut
  <2> QED BY Zenon, <2>1 DEF Punctual, InFlight
<1>3. CASE Tick
  <2>1. ASSUME NEW m \in Mounts, InFlight(mount'[m])
        PROVE  mount'[m].age <= Delay
    <3>1. ~mount'[m].frozen /\ mount'[m].call # "none"
      BY Zenon, <2>1 DEF InFlight
    <3>2. mount'[m].frozen = mount[m].frozen
      BY <1>3, Fields, Zenon DEF Tick, Mount
    <3>3. /\ mount'[m].call = mount[m].call
          /\ mount[m].call # "none" => /\ mount[m].age < Delay
                                       /\ mount'[m].age = mount[m].age + 1
      BY Zenon, <1>3, <3>1, <3>2, TickMount
    <3> QED BY <3>1, <3>3, Fields, Rounds
  <2>2. /\ \A age \in late : age < Delay
        /\ late' = {age + 1 : age \in late}
    BY <1>3, Zenon DEF Tick
  <2>3. \A age \in late : age \in Nat
    BY Rounds DEF TypeOK
  <2>4. \A age \in late' : age <= Delay
    BY <2>2, <2>3, Rounds
  <2> QED BY Zenon, <2>1, <2>4 DEF Punctual, InFlight
<1>4. ASSUME NEW m \in Mounts, Step(m) \/ Crash(m) \/ Freeze(m) \/ Thaw(m)
      PROVE  Punctual'
  <2> DEFINE r == mount[m]
  <2>0. r \in Mount /\ Fitting(r) /\ r.age \in Nat /\ Delay \in Nat
    BY Zenon, Fields, Rounds
  <2>1. CASE together' = 0
    BY <2>1 DEF Punctual
  <2>2. CASE ClaimLease(m) \/ RenewLease(m)
    <3>1. r.call = "none" /\ together' = together /\ late' = late
      BY Zenon, <2>2 DEF ClaimLease, RenewLease, Ready
    <3>2. PICK q : Set(m, q) /\ q \in {
              [r EXCEPT !.call = "claim", !.age = 0],
              [r EXCEPT !.call = "renew", !.age = 0, !.beat = 0],
              [r EXCEPT !.fenced = TRUE, !.beat = 0],
              [r EXCEPT !.fails = @ + 1, !.beat = 0]}
      BY <2>2, Zenon DEF ClaimLease, RenewLease
    <3>3. q.age = 0 \/ q.call = "none"
      BY <2>0, <3>1, <3>2, Zenon DEF Mount
    <3>4. InFlight(q) => q.age <= Delay
      BY <2>0, <3>3 DEF InFlight
    <3> QED BY <3>1, <3>2, <3>4, PunctualSet, Zenon
  <2>3. CASE putLease(m) \/ PutFails(m) \/ ReleaseLease(m)
    <3>1. late' = late
      BY Zenon, <2>3 DEF putLease, PutFails, ReleaseLease
    <3>2. together' \in {0, together}
      BY Zenon, <2>3 DEF putLease, PutFails, ReleaseLease
    <3>3. PICK q : Set(m, q) /\ q \in {
              [r EXCEPT !.pc = "writer", !.call = "none", !.age = 0, !.fails = 0],
              [r EXCEPT !.call = "none", !.age = 0, !.fails = @ + 1],
              [r EXCEPT !.pc = "leaving", !.call = "release", !.age = 0], Out}
      BY <2>3, Zenon DEF putLease, PutFails, ReleaseLease
    <3>4. q.call \in {"none", "release"}
      <4>1. CASE q = Out
        BY Zenon, <4>1 DEF Out
      <4>2. CASE q # Out
        BY <2>0, <3>3, <4>2, Zenon DEF Mount
      <4> QED BY Zenon, <4>1, <4>2
    <3>5. InFlight(q) => q.age <= Delay
      BY Zenon, <3>4 DEF InFlight
    <3> QED BY <2>1, <3>1, <3>2, <3>3, <3>5, PunctualSet, Zenon
  <2>4. CASE Crash(m)
    <3>1. Set(m, Out) /\ (r.frozen => together' = 0) /\ (~r.frozen => together' = together)
      BY Zenon, <2>4 DEF Crash
    <3>2. \A age \in late' \ late : age = r.age /\ r.call \in {"claim", "renew"}
      BY Zenon, <2>4 DEF Crash
    <3>3. ~InFlight(Out)
      BY Zenon DEF InFlight, Out
    <3>4. CASE ~r.frozen
      <4>1. together > 0 => \A age \in late' : age \in late \/ age <= Delay
        BY <3>2, <3>4 DEF Punctual, InFlight
      <4> QED BY Zenon, <3>1, <3>3, <3>4, <4>1, PunctualSet
    <3> QED BY Zenon, <2>1, <3>1, <3>4
  <2>5. CASE Freeze(m)
    <3>1. PICK q : Set(m, q) /\ q = [r EXCEPT !.frozen = TRUE]
      BY <2>5, Zenon DEF Freeze
    <3>2. together' = together /\ late' = late
      BY Zenon, <2>5 DEF Freeze
    <3>3. ~InFlight(q)
      BY Zenon, <2>0, <3>1 DEF Mount, InFlight
    <3> QED BY <3>1, <3>2, <3>3, PunctualSet, Zenon
  <2>6. CASE DeleteLease(m) \/ Thaw(m)
    BY Zenon, <2>1, <2>6 DEF DeleteLease, Thaw
  <2> QED BY <1>4, <2>2, <2>3, <2>4, <2>5, <2>6, Zenon DEF Step
<1> QED BY <1>1, <1>2, <1>3, <1>4, Zenon DEF Next

\* Who writes after a step of m.
LEMMA WritersSet ==
  ASSUME TypeOK, NEW m \in Mounts, NEW q, Set(m, q)
  PROVE  /\ m \in Writers <=> Writing(mount[m])
         /\ m \in Writers' <=> Writing(q)
         /\ \A n \in Mounts \ {m} : n \in Writers' <=> n \in Writers
<1>1. mount'[m] = q /\ \A n \in Mounts \ {m} : mount'[n] = mount[n]
  BY Zenon, Others
<1> QED BY <1>1, Zenon DEF Writers, Writing

\* Nothing landed: whoever waited for a renewal still does.
LEMMA UnsettledSet ==
  ASSUME TypeOK, Unsettled, NEW m \in Mounts, NEW q, Set(m, q), together' = together,
         Writing(q) => together <= Since(q),
         InFlight(q) => together <= Round + Delay + q.age,
         \A age \in late' : together <= Round + Delay + age
  PROVE  Unsettled'
<1>1. mount'[m] = q /\ \A n \in Mounts \ {m} : mount'[n] = mount[n]
  BY Zenon, Others
<1>2. ASSUME NEW n \in Writers'
      PROVE  together <= Since(mount'[n])
  <2>1. n \in Mounts
    BY Zenon DEF Writers
  <2>2. CASE n = m
    BY <1>1, <2>2, WritersSet, Zenon
  <2>3. CASE n # m
    BY <1>1, <2>1, <2>3, WritersSet, Zenon DEF Unsettled
  <2> QED BY Zenon, <2>2, <2>3
<1>3. ASSUME NEW n \in Mounts, InFlight(mount'[n])
      PROVE  together <= Round + Delay + mount'[n].age
  <2>1. CASE n = m
    BY <1>1, <1>3, <2>1, Zenon
  <2>2. CASE n # m
    BY <1>1, <1>3, <2>2, Zenon DEF Unsettled
  <2> QED BY Zenon, <2>1, <2>2
<1> QED BY Zenon, <1>2, <1>3 DEF Unsettled, InFlight, Since

\* A second requirement of Settled: what holds of a writer that is not the
\* holder, and of a put under way.
Behind(r) ==
  /\ Writing(r) /\ r.call = "none" =>
       /\ together <= Round + 2 * Delay + Since(r)
       /\ lease.age <= Delay + Since(r)
  /\ InFlight(r) =>
       /\ together <= Round + Delay + r.age
       /\ lease.age <= Delay + r.age

\* Settled, mount by mount.
LEMMA SettledByMount ==
  ASSUME TypeOK
  PROVE  Settled <=>
           /\ lease.token # "none" /\ lease.age <= LeaseTTL
           /\ \A m \in Mounts :
                /\ m # lease.token => Behind(mount[m])
                /\ m = lease.token /\ Writing(mount[m]) =>
                     lease.age <= Delay + Since(mount[m])
           /\ \A age \in late :
                \/ together <= Round + Delay + age /\ lease.age <= Delay + age
                \/ lease.token = "nobody" /\ \A m \in Mounts : ~InFlight(mount[m])
<1>1. \A m : m \in Writers <=> m \in Mounts /\ Writing(mount[m])
  BY Zenon DEF Writers, Writing
<1> QED BY <1>1, Zenon DEF Settled, Behind

\* Numbers after a step.
LEMMA NumbersLater ==
  /\ TypeOK => \A m \in Mounts : Since(mount[m]) \in Nat /\ mount[m].age \in Nat
  /\ TypeOK' => \A m \in Mounts : Since(mount[m])' \in Nat /\ mount'[m].age \in Nat
<1>1. TypeOK => \A m \in Mounts : Since(mount[m]) \in Nat /\ mount[m].age \in Nat
  BY Zenon, Fields
<1>2. (TypeOK => \A m \in Mounts : Since(mount[m]) \in Nat /\ mount[m].age \in Nat)'
  BY <1>1, PTL
<1> QED BY Zenon, <1>1, <1>2

\* Settled after a step, mount by mount.
LEMMA SettledLater ==
  ASSUME lease'.token # "none", lease'.age <= LeaseTTL,
         \A m \in Mounts : m # lease'.token => Behind(mount[m])',
         \A m \in Mounts : m = lease'.token /\ Writing(mount'[m]) =>
           lease'.age <= Delay + Since(mount[m])',
         \A age \in late' :
           \/ together' <= Round + Delay + age /\ lease'.age <= Delay + age
           \/ lease'.token = "nobody" /\ \A m \in Mounts : ~InFlight(mount'[m])
  PROVE  Settled'
<1>1. \A m : m \in Writers' <=> m \in Mounts /\ Writing(mount'[m])
  BY Zenon DEF Writers, Writing
<1>2. (\A m \in Writers \ {lease.token} : mount[m].call = "none" =>
         /\ together <= Round + 2 * Delay + Since(mount[m])
         /\ lease.age <= Delay + Since(mount[m]))'
  BY <1>1, Zenon DEF Behind, Writing
<1>3. (\A m \in Mounts \ {lease.token} : InFlight(mount[m]) =>
         /\ together <= Round + Delay + mount[m].age
         /\ lease.age <= Delay + mount[m].age)'
  BY Zenon DEF Behind
<1>4. (\A m \in Writers : lease.token = m => lease.age <= Delay + Since(mount[m]))'
  BY <1>1, Zenon
<1>5. (\A age \in late :
         \/ together <= Round + Delay + age /\ lease.age <= Delay + age
         \/ lease.token = "nobody" /\ \A m \in Mounts : ~InFlight(mount[m]))'
  BY Zenon DEF InFlight
<1> QED BY <1>2, <1>3, <1>4, <1>5, Zenon DEF Settled

\* Nothing landed: the lease lives on, and at most its holder goes.
LEMMA SettledSet ==
  ASSUME TypeOK, Settled, NEW m \in Mounts, NEW q, Set(m, q), together' = together,
         lease'.age = lease.age,
         \/ lease'.token = lease.token
         \/ lease.token = m /\ lease'.token = "nobody",
         m # lease'.token => Behind(q),
         m = lease'.token /\ Writing(q) => lease.age <= Delay + Since(q),
         InFlight(q) => InFlight(mount[m]) \/ lease.token = m,
         \A age \in late' \ late :
           \/ together <= Round + Delay + age /\ lease.age <= Delay + age
           \/ /\ lease'.token = "nobody" /\ ~InFlight(q)
              /\ \A n \in Mounts \ {m} : ~InFlight(mount[n])
  PROVE  Settled'
<1>1. mount'[m] = q /\ \A n \in Mounts \ {m} : mount'[n] = mount[n]
  BY Zenon, Others
<1>2. /\ lease.token # "none" /\ lease.age <= LeaseTTL
      /\ \A n \in Mounts :
           /\ n # lease.token => Behind(mount[n])
           /\ n = lease.token /\ Writing(mount[n]) =>
                lease.age <= Delay + Since(mount[n])
      /\ \A age \in late :
           \/ together <= Round + Delay + age /\ lease.age <= Delay + age
           \/ lease.token = "nobody" /\ \A n \in Mounts : ~InFlight(mount[n])
  BY Zenon, SettledByMount
<1>3. m # "nobody" /\ \A n \in Mounts : n # "nobody"
  BY Zenon, Fields
<1>4. ASSUME NEW n \in Mounts, n # lease'.token
      PROVE  Behind(mount[n])'
  <2>1. Behind(mount'[n])
    BY <1>1, <1>2, <1>3, <1>4, Zenon
  <2> QED BY Zenon, <2>1 DEF Behind, Since, Writing, InFlight
<1>5. ASSUME NEW n \in Mounts, n = lease'.token, Writing(mount'[n])
      PROVE  lease'.age <= Delay + Since(mount[n])'
  <2>1. lease.age <= Delay + Since(mount'[n])
    BY <1>1, <1>2, <1>3, <1>5, Zenon
  <2> QED BY Zenon, <2>1 DEF Since
<1>6. ASSUME NEW age \in late'
      PROVE  \/ together <= Round + Delay + age /\ lease'.age <= Delay + age
             \/ lease'.token = "nobody" /\ \A n \in Mounts : ~InFlight(mount'[n])
  <2>1. CASE age \in late
    BY <1>1, <1>2, <1>3, <2>1, Zenon
  <2>2. CASE age \notin late
    BY <1>1, <1>6, <2>2, Zenon
  <2> QED BY Zenon, <2>1, <2>2
<1>7. lease'.token # "none" /\ lease'.age <= LeaseTTL
  BY Zenon, <1>2
<1> QED BY Zenon, <1>4, <1>5, <1>6, <1>7, SettledLater

\* A put that just landed: everybody else has yet to see it.
LEMMA Landing ==
  ASSUME TypeOK', NEW t \in Mounts \cup {"nobody"}, NEW a \in Nat, a <= Delay,
         lease' = Landed(t, a), together' = together,
         \A n \in Mounts \ {t} :
           /\ Writing(mount'[n]) /\ mount'[n].call = "none" =>
                together <= Round + 2 * Delay + Since(mount'[n])
           /\ InFlight(mount'[n]) => together <= Round + Delay + mount'[n].age,
         \A age \in late' :
           \/ together <= Round + Delay + age
           \/ t = "nobody" /\ \A n \in Mounts : ~InFlight(mount'[n])
  PROVE  Settled'
<1>1. lease'.token = t /\ lease'.age = a
  BY Zenon DEF Landed
<1>2. t # "none" /\ a <= LeaseTTL
  BY LeaseAssumption, Rounds
<1>3. /\ \A n \in Mounts : Since(mount[n])' \in Nat /\ mount'[n].age \in Nat
      /\ \A age \in late' : age \in Nat
  BY NumbersLater, Rounds DEF TypeOK
<1>4. /\ \A n \in Mounts : a <= Delay + Since(mount[n])' /\ a <= Delay + mount'[n].age
      /\ \A age \in late' : a <= Delay + age
  BY <1>3, Rounds
<1>5. ASSUME NEW n \in Mounts, n # t
      PROVE  Behind(mount[n])'
  <2>1. /\ Writing(mount'[n]) /\ mount'[n].call = "none" =>
             /\ together' <= Round + 2 * Delay + Since(mount[n])'
             /\ lease'.age <= Delay + Since(mount[n])'
        /\ InFlight(mount'[n]) =>
             /\ together' <= Round + Delay + mount'[n].age
             /\ lease'.age <= Delay + mount'[n].age
    BY Zenon, <1>1, <1>4, <1>5 DEF Since
  <2> QED BY <2>1, Zenon DEF Behind, Writing, InFlight
<1> QED BY Zenon, <1>1, <1>2, <1>4, <1>5, SettledLater

\* Whoever writes is about to renew, so the writers bound the split.
LEMMA Renewing ==
  ASSUME TypeOK, Punctual, together > 0, NEW w \in Writers
  PROVE  Since(mount[w]) <= Round + Delay
<1>1. w \in Mounts /\ mount[w].pc = "writer" /\ ~mount[w].frozen
  BY Zenon DEF Writers
<1>2. mount[w].call \in {"none", "renew"}
  BY Zenon, <1>1, Fields DEF Fitting
<1>3. mount[w].call = "renew" => mount[w].age <= Delay
  BY Zenon, <1>1 DEF Punctual, InFlight
<1> QED BY <1>1, <1>2, <1>3, Fields, Rounds

\* A lease just renewed is not being renewed.
LEMMA Fresh ==
  ASSUME TypeOK, HeldSince, lease.age <= 2 * Delay, NEW n \in Mounts, n = lease.token
  PROVE  ~InFlight(mount[n])
<1>1. mount[n].pc # "out" /\ mount[n].call # "renew"
  BY Fields, Rounds DEF HeldSince, TypeOK, Object
<1> QED BY Zenon, <1>1, Fields DEF InFlight, Fitting, Mount

\* The put of a mount that is not the holder, or of a dead process, lands:
\* what the others then know.
LEMMA Overtaken ==
  ASSUME TypeOK, HeldSince,
         NEW a \in Nat, a <= Delay, together <= Round + Delay + a,
         Unsettled \/ (Settled /\ lease.age <= Delay + a)
  PROVE  \A n \in Mounts :
           /\ Writing(mount[n]) /\ mount[n].call = "none" =>
                together <= Round + 2 * Delay + Since(mount[n])
           /\ InFlight(mount[n]) => together <= Round + Delay + mount[n].age
<1> SUFFICES ASSUME NEW n \in Mounts
             PROVE  /\ Writing(mount[n]) /\ mount[n].call = "none" =>
                         together <= Round + 2 * Delay + Since(mount[n])
                    /\ InFlight(mount[n]) => together <= Round + Delay + mount[n].age
  BY Zenon
<1>1. together <= Round + 2 * Delay /\ together \in Nat
  BY Rounds DEF TypeOK
<1>2. together <= Round + 2 * Delay + Since(mount[n])
  BY <1>1, Fields, Rounds
<1>3. ASSUME InFlight(mount[n])
      PROVE  together <= Round + Delay + mount[n].age
  <2>1. CASE Unsettled
    BY Zenon, <1>3, <2>1 DEF Unsettled
  <2>2. CASE Settled /\ lease.age <= Delay + a
    <3>1. lease.age <= 2 * Delay
      BY <2>2, Rounds DEF TypeOK, Object
    <3>2. n # lease.token
      BY <1>3, <3>1, Fresh, Zenon
    <3> QED BY Zenon, <1>3, <2>2, <3>2 DEF Settled
  <2> QED BY Zenon, <2>1, <2>2
<1> QED BY Zenon, <1>2, <1>3

\* The put of m lands while m runs.
LEMMA PutLands ==
  ASSUME TypeOK, TypeOK', HeldSince, Punctual, Unsettled \/ Settled, together > 0,
         NEW m \in Mounts, InFlight(mount[m]), NEW q, Set(m, q), q.call = "none",
         NEW t, lease' = Landed(t, mount[m].age),
         t = m \/ (t = "nobody" /\ lease.token # m /\ ~Writing(q)),
         late' = late, together' = together
  PROVE  Settled'
<1> DEFINE a == mount[m].age
           Passed(n) ==
             /\ Writing(mount[n]) /\ mount[n].call = "none" =>
                  together <= Round + 2 * Delay + Since(mount[n])
             /\ InFlight(mount[n]) => together <= Round + Delay + mount[n].age
<1>1. a \in Nat /\ a <= Delay /\ t \in Mounts \cup {"nobody"}
  BY Zenon, Fields DEF Punctual
<1>2. mount'[m] = q /\ (\A n \in Mounts \ {m} : mount'[n] = mount[n]) /\ ~InFlight(q)
  BY Zenon, Others DEF InFlight
<1>3. m # "nobody"
  BY Zenon, Fields
<1>4. /\ \A n \in Mounts \ {m} : Passed(n)
      /\ \A age \in late : together <= Round + Delay + age
  <2>1. CASE Unsettled
    <3>1. together <= Round + Delay + a
      BY <2>1, Zenon DEF Unsettled
    <3>2. \A n \in Mounts : Passed(n)
      BY <1>1, <2>1, <3>1, Overtaken, Zenon
    <3> QED BY Zenon, <2>1, <3>2 DEF Unsettled
  <2>2. CASE Settled /\ lease.token # m
    <3>1. together <= Round + Delay + a /\ lease.age <= Delay + a
      BY <2>2, Zenon DEF Settled
    <3>2. \A n \in Mounts : Passed(n)
      BY <1>1, <2>2, <3>1, Overtaken, Zenon
    <3>3. \A age \in late : together <= Round + Delay + age
      BY <2>2, Zenon DEF Settled
    <3> QED BY Zenon, <3>2, <3>3
  <2>3. CASE Settled /\ lease.token = m
    <3>1. \A n \in Mounts \ {m} : Behind(mount[n])
      BY <2>3, SettledByMount, Zenon
    <3>2. \A age \in late : together <= Round + Delay + age
      BY <1>3, <2>3, Zenon DEF Settled
    <3> QED BY <3>1, <3>2, Zenon DEF Behind
  <2> QED BY Zenon, <2>1, <2>2, <2>3
<1>5. \A n \in Mounts \ {t} :
        /\ Writing(mount'[n]) /\ mount'[n].call = "none" =>
             together <= Round + 2 * Delay + Since(mount'[n])
        /\ InFlight(mount'[n]) => together <= Round + Delay + mount'[n].age
  BY <1>2, <1>4, Zenon
<1> QED BY Zenon, <1>1, <1>4, <1>5, Landing

\* A late put lands.
LEMMA LateLands ==
  ASSUME TypeOK, TypeOK', HeldSince, Punctual, Unsettled \/ Settled, together > 0,
         LatePut, lease' # lease
  PROVE  Settled'
<1> DEFINE Passed(n) ==
             /\ Writing(mount[n]) /\ mount[n].call = "none" =>
                  together <= Round + 2 * Delay + Since(mount[n])
             /\ InFlight(mount[n]) => together <= Round + Delay + mount[n].age
<1>1. PICK a \in late : late' = late \ {a} /\ lease' = Landed("nobody", a)
  BY Zenon DEF LatePut
<1>2. mount' = mount /\ together' = together
  BY Zenon DEF LatePut
<1>3. a \in Nat /\ a <= Delay
  BY Rounds DEF TypeOK, Punctual
<1>4. /\ \A n \in Mounts : Passed(n)
      /\ \A age \in late : \/ together <= Round + Delay + age
                           \/ \A n \in Mounts : ~InFlight(mount[n])
  <2>1. CASE Unsettled
    <3>1. together <= Round + Delay + a
      BY <2>1, Zenon DEF Unsettled
    <3>2. \A n \in Mounts : Passed(n)
      BY <1>3, <2>1, <3>1, Overtaken, Zenon
    <3> QED BY <2>1, <3>2, Zenon DEF Unsettled
  <2>2. CASE Settled
    <3>1. \A age \in late : \/ together <= Round + Delay + age
                            \/ \A n \in Mounts : ~InFlight(mount[n])
      BY <2>2, Zenon DEF Settled
    <3>2. CASE together <= Round + Delay + a /\ lease.age <= Delay + a
      BY <1>3, <2>2, <3>1, <3>2, Overtaken, Zenon
    <3>3. CASE lease.token = "nobody" /\ \A n \in Mounts : ~InFlight(mount[n])
      <4>1. \A n \in Mounts : Behind(mount[n])
        BY Zenon, <2>2, <3>3, SettledByMount, Fields
      <4> QED BY <3>1, <4>1, Zenon DEF Behind
    <3> QED BY <2>2, <3>2, <3>3, Zenon DEF Settled
  <2> QED BY Zenon, <2>1, <2>2
<1>5. /\ \A n \in Mounts \ {"nobody"} :
           /\ Writing(mount'[n]) /\ mount'[n].call = "none" =>
                together <= Round + 2 * Delay + Since(mount'[n])
           /\ InFlight(mount'[n]) => together <= Round + Delay + mount'[n].age
      /\ \A age \in late' : \/ together <= Round + Delay + age
                            \/ \A n \in Mounts : ~InFlight(mount'[n])
  BY <1>1, <1>2, <1>4, Zenon
<1> QED BY Zenon, <1>1, <1>2, <1>3, <1>5, Landing

\* The count of renewals due is not changed by a renewal that starts, cannot
\* load the lease, or fails.
LEMMA SinceSame ==
  ASSUME NEW r \in Mount
  PROVE  /\ r.call = "none" /\ r.beat = LeaseRefresh =>
              Since([r EXCEPT !.call = "renew", !.age = 0, !.beat = 0]) = Since(r)
         /\ r.call = "none" /\ r.beat = LeaseRefresh /\ r.fails < MaxFails =>
              Since([r EXCEPT !.fails = @ + 1, !.beat = 0]) = Since(r)
         /\ r.call = "renew" /\ r.fails < MaxFails =>
              Since([r EXCEPT !.call = "none", !.age = 0, !.fails = @ + 1]) = Since(r)
<1>1. /\ r.fails \in 0 .. MaxFails /\ r.beat \in Nat
      /\ Missed(r.fails) \in Nat /\ Missed(r.fails + 1) = Missed(r.fails) + LeaseRefresh
  BY Rounds DEF Mount
<1>2. ASSUME r.call = "none", r.beat = LeaseRefresh
      PROVE  Since([r EXCEPT !.call = "renew", !.age = 0, !.beat = 0]) = Since(r)
  <2> DEFINE q == [r EXCEPT !.call = "renew", !.age = 0, !.beat = 0]
  <2>1. q.call = "renew" /\ q.beat = 0 /\ q.fails = r.fails
    BY Zenon DEF Mount
  <2> QED BY <1>1, <1>2, <2>1, Rounds DEF Since
<1>3. ASSUME r.call = "none", r.beat = LeaseRefresh
      PROVE  Since([r EXCEPT !.fails = @ + 1, !.beat = 0]) = Since(r)
  <2> DEFINE q == [r EXCEPT !.fails = @ + 1, !.beat = 0]
  <2>1. q.call = "none" /\ q.beat = 0 /\ q.fails = r.fails + 1
    BY Zenon, <1>3 DEF Mount
  <2> QED BY <1>1, <1>3, <2>1, Rounds DEF Since
<1>4. ASSUME r.call = "renew"
      PROVE  Since([r EXCEPT !.call = "none", !.age = 0, !.fails = @ + 1]) = Since(r)
  <2> DEFINE q == [r EXCEPT !.call = "none", !.age = 0, !.fails = @ + 1]
  <2>1. q.call = "none" /\ q.beat = r.beat /\ q.fails = r.fails + 1
    BY Zenon DEF Mount
  <2> QED BY <1>1, <1>4, <2>1, Rounds DEF Since
<1> QED BY Zenon, <1>2, <1>3, <1>4

\* A step that neither lands a put nor lets a writer in, seen from m.
LEMMA NothingLands ==
  ASSUME TypeOK, Unsettled \/ Settled, NEW m \in Mounts, NEW q, Set(m, q),
         together' = together, late' = late, lease' = lease \/ lease' = Abandoned(m),
         ~InFlight(q), ~Writing(q)
  PROVE  Unsettled' \/ Settled'
<1>1. CASE Unsettled
  <2>1. \A age \in late' : together <= Round + Delay + age
    BY Zenon, <1>1 DEF Unsettled
  <2> QED BY Zenon, <1>1, <2>1, UnsettledSet
<1>2. CASE Settled
  <2>1. /\ lease'.age = lease.age
        /\ \/ lease'.token = lease.token
           \/ lease.token = m /\ lease'.token = "nobody"
    BY Zenon, Leaves
  <2>2. Behind(q)
    BY Zenon DEF Behind
  <2> QED BY Zenon, <1>2, <2>1, <2>2, SettledSet
<1> QED BY Zenon, <1>1, <1>2

\* A step of m takes a split from Unsettled to Settled or leaves it where it
\* is, unless the count starts again.
LEMMA SplitStep ==
  ASSUME TypeOK, TypeOK', HeldSince, Punctual, ~Single, Unsettled \/ Settled,
         together > 0, NEW m \in Mounts,
         Step(m) \/ Crash(m) \/ Freeze(m), together' = together
  PROVE  Unsettled' \/ Settled'
<1> DEFINE r == mount[m]
<1>0. /\ r \in Mount /\ Fitting(r) /\ r.age \in Nat /\ r.beat \in 0 .. LeaseRefresh
      /\ m # "none" /\ m # "nobody"
  BY Zenon, Fields
<1>1. Unsettled => together <= Round + Delay
  <2>1. PICK w \in Writers : TRUE
    BY Zenon DEF Single
  <2>2. Since(mount[w]) <= Round + Delay /\ Since(mount[w]) \in Nat
    BY Zenon, <2>1, Renewing, Fields DEF Writers
  <2> QED BY <2>1, <2>2, Rounds DEF Unsettled, TypeOK
<1>2. Settled /\ Free(m) => lease.token = m
  BY Rounds DEF Settled, Free, expired, TypeOK, Object
<1>3. CASE ClaimLease(m)
  <2>1. PICK q : Set(m, q) /\ q = [r EXCEPT !.call = "claim", !.age = 0]
    BY <1>3, Zenon DEF ClaimLease
  <2>2. late' = late /\ Free(m) /\ r.pc = "out"
    BY Zenon, <1>3 DEF ClaimLease, Ready
  <2>3. q.age = 0 /\ ~Writing(q)
    BY Zenon, <1>0, <2>1, <2>2 DEF Mount, Writing
  <2>4. ~Settled
    BY Zenon, <1>2, <2>2 DEF HeldSince
  <2>5. InFlight(q) => together <= Round + Delay + q.age
    BY <1>1, <2>3, <2>4, Rounds
  <2>6. \A age \in late' : together <= Round + Delay + age
    BY Zenon, <2>2, <2>4 DEF Unsettled
  <2> QED BY <2>1, <2>3, <2>4, <2>5, <2>6, UnsettledSet, Zenon
<1>4. CASE RenewLease(m)
  <2>1. /\ lease' = lease /\ late' = late /\ r.pc = "writer" /\ r.call = "none"
        /\ ~r.frozen
    BY Zenon, <1>4 DEF RenewLease, Ready
  <2>2. r.beat = LeaseRefresh
    BY <1>0, <1>4, Rounds DEF RenewLease
  <2>3. \A age \in late' : Unsettled => together <= Round + Delay + age
    BY Zenon, <2>1 DEF Unsettled
  <2>4. m \in Writers <=> Writing(r)
    BY Zenon DEF Writers, Writing
  <2>5. ASSUME NEW q, Set(m, q), Since(q) = Since(r), Writing(q) => Writing(r),
               \/ ~InFlight(q) /\ q.call = "none"
               \/ Free(m) /\ q.age = 0
        PROVE  Unsettled' \/ Settled'
    <3>1. CASE Unsettled
      <4>1. Writing(q) => together <= Since(q)
        BY Zenon, <2>4, <2>5, <3>1 DEF Unsettled
      <4>2. InFlight(q) => together <= Round + Delay + q.age
        BY <1>1, <2>5, <3>1, Rounds
      <4> QED BY Zenon, <2>3, <2>5, <3>1, <4>1, <4>2, UnsettledSet
    <3>2. CASE Settled
      <4>1. m # lease.token => Behind(q)
        <5> SUFFICES ASSUME m # lease.token
                     PROVE  Behind(q)
          BY Zenon
        <5>1. ~InFlight(q) /\ q.call = "none"
          BY Zenon, <1>2, <2>5, <3>2
        <5>2. Behind(r)
          BY Zenon, <3>2, SettledByMount
        <5> QED BY Zenon, <2>1, <2>5, <5>1, <5>2 DEF Behind
      <4>2. m = lease.token /\ Writing(q) => lease.age <= Delay + Since(q)
        BY Zenon, <2>5, <3>2, SettledByMount
      <4>3. InFlight(q) => lease.token = m
        BY Zenon, <1>2, <2>5, <3>2
      <4> QED BY Zenon, <2>1, <2>5, <3>2, <4>1, <4>2, <4>3, SettledSet
    <3> QED BY Zenon, <3>1, <3>2
  <2>6. ASSUME NEW q, Set(m, q), Free(m),
               q = [r EXCEPT !.call = "renew", !.age = 0, !.beat = 0]
        PROVE  Unsettled' \/ Settled'
    <3>1. Since(q) = Since(r)
      BY <1>0, <2>1, <2>2, <2>6, SinceSame, Zenon
    <3>2. q.age = 0 /\ (Writing(q) => Writing(r))
      BY Zenon, <1>0, <2>6 DEF Mount, Writing
    <3> QED BY <2>5, <2>6, <3>1, <3>2, Zenon
  <2>7. ASSUME NEW q, Set(m, q), r.fails < MaxFails,
               q = [r EXCEPT !.fails = @ + 1, !.beat = 0]
        PROVE  Unsettled' \/ Settled'
    <3>1. Since(q) = Since(r)
      BY <1>0, <2>1, <2>2, <2>7, SinceSame, Zenon
    <3>2. q.call = "none" /\ ~InFlight(q) /\ (Writing(q) => Writing(r))
      BY Zenon, <1>0, <2>1, <2>7 DEF Mount, Writing, InFlight
    <3> QED BY <2>5, <2>7, <3>1, <3>2, Zenon
  <2>8. ASSUME NEW q, Set(m, q), q = [r EXCEPT !.fenced = TRUE, !.beat = 0]
        PROVE  Unsettled' \/ Settled'
    <3>1. ~InFlight(q) /\ ~Writing(q)
      BY Zenon, <1>0, <2>1, <2>8 DEF Mount, Writing, InFlight
    <3> QED BY Zenon, <2>1, <2>8, <3>1, NothingLands
  <2> QED BY <1>4, <2>6, <2>7, <2>8, Zenon DEF RenewLease
<1>5. CASE putLease(m)
  <2>1. r.call \in {"claim", "renew"} /\ ~r.frozen /\ late' = late
        /\ lease' = Landed(m, r.age)
    BY Zenon, <1>5 DEF putLease
  <2>2. PICK q : /\ Set(m, q)
                 /\ q = [r EXCEPT !.pc = "writer", !.call = "none", !.age = 0, !.fails = 0]
    BY <1>5, Zenon DEF putLease
  <2>3. q.call = "none"
    BY Zenon, <1>0, <2>2 DEF Mount
  <2>4. InFlight(r)
    BY Zenon, <2>1 DEF InFlight
  <2> QED BY <2>1, <2>2, <2>3, <2>4, PutLands, Zenon
<1>6. CASE PutFails(m)
  <2>1. r.call \in {"claim", "renew"} /\ ~r.frozen /\ late' = late /\ InFlight(r)
    BY Zenon, <1>6 DEF PutFails, InFlight
  <2>2. CASE r.call = "claim"
    <3>1. Set(m, Out) /\ lease' \in {lease, Landed("nobody", r.age)}
      BY Zenon, <1>6, <2>2 DEF PutFails
    <3>2. Out.call = "none" /\ ~Writing(Out) /\ ~InFlight(Out)
      BY Zenon DEF Out, Writing, InFlight
    <3>3. lease.token # m
      BY Zenon, <1>0, <2>2 DEF HeldSince, Fitting, Mount
    <3>4. CASE lease' = lease
      BY Zenon, <2>1, <3>1, <3>2, <3>4, NothingLands
    <3>5. CASE lease' = Landed("nobody", r.age)
      BY <2>1, <3>1, <3>2, <3>3, <3>5, PutLands, Zenon
    <3> QED BY Zenon, <3>1, <3>4, <3>5
  <2>3. CASE r.call = "renew"
    <3>1. PICK q : /\ Set(m, q) /\ lease' \in {lease, Landed(m, r.age)}
                   /\ r.fails < MaxFails
                   /\ q = [r EXCEPT !.call = "none", !.age = 0, !.fails = @ + 1]
      BY <1>6, <2>3, Zenon DEF PutFails
    <3>2. q.call = "none" /\ ~InFlight(q) /\ (Writing(q) => Writing(r))
      BY Zenon, <1>0, <3>1 DEF Mount, Writing, InFlight
    <3>3. CASE lease' = Landed(m, r.age)
      BY <2>1, <3>1, <3>2, <3>3, PutLands, Zenon
    <3>4. CASE lease' = lease
      <4>1. Since(q) = Since(r) /\ Since(r) \in Nat /\ Since(r) >= LeaseRefresh
        BY <1>0, <2>3, <3>1, SinceSame, Fields, Zenon
      <4>2. m \in Writers <=> Writing(r)
        BY Zenon DEF Writers, Writing
      <4>3. CASE Unsettled
        <5>1. Writing(q) => together <= Since(q)
          BY Zenon, <3>2, <4>1, <4>2, <4>3 DEF Unsettled
        <5>2. \A age \in late' : together <= Round + Delay + age
          BY Zenon, <2>1, <4>3 DEF Unsettled
        <5> QED BY Zenon, <3>1, <3>2, <4>3, <5>1, <5>2, UnsettledSet
      <4>4. CASE Settled
        <5>1. m # lease.token => Behind(q)
          <6> SUFFICES ASSUME m # lease.token
                       PROVE  Behind(q)
            BY Zenon
          <6>1. /\ together <= Round + Delay + r.age /\ lease.age <= Delay + r.age
                /\ r.age <= Delay
            BY Zenon, <2>1, <4>4 DEF Settled, Punctual
          <6>2. lease.age \in Nat /\ together \in Nat
            BY DEF TypeOK, Object
          <6>3. /\ together <= Round + 2 * Delay + Since(q)
                /\ lease.age <= Delay + Since(q)
            BY <1>0, <4>1, <6>1, <6>2, Rounds
          <6> QED BY Zenon, <3>2, <6>3 DEF Behind
        <5>2. m = lease.token /\ Writing(q) => lease.age <= Delay + Since(q)
          BY Zenon, <3>2, <4>1, <4>4, SettledByMount
        <5> QED BY Zenon, <2>1, <3>1, <3>2, <3>4, <4>4, <5>1, <5>2, SettledSet
      <4> QED BY Zenon, <4>3, <4>4
    <3> QED BY Zenon, <3>1, <3>3, <3>4
  <2> QED BY Zenon, <2>1, <2>2, <2>3
<1>7. CASE ReleaseLease(m)
  <2>1. late' = late
    BY Zenon, <1>7 DEF ReleaseLease
  <2>2. ASSUME NEW q, Set(m, q), lease' = lease,
               q = [r EXCEPT !.pc = "leaving", !.call = "release", !.age = 0]
        PROVE  Unsettled' \/ Settled'
    <3>1. ~InFlight(q) /\ ~Writing(q)
      BY Zenon, <1>0, <2>2 DEF Mount, Writing, InFlight
    <3> QED BY Zenon, <2>1, <2>2, <3>1, NothingLands
  <2>3. CASE Set(m, Out) /\ lease' = Abandoned(m)
    <3>1. ~Writing(Out) /\ ~InFlight(Out)
      BY Zenon DEF Out, Writing, InFlight
    <3> QED BY Zenon, <2>1, <2>3, <3>1, NothingLands
  <2> QED BY <1>7, <2>2, <2>3, Zenon DEF ReleaseLease
<1>8. CASE DeleteLease(m)
  BY <1>8 DEF DeleteLease
<1>9. CASE Crash(m)
  <2>1. Set(m, Out) /\ lease' = Abandoned(m) /\ ~r.frozen
    BY <1>9 DEF Crash
  <2>2. ~Writing(Out) /\ ~InFlight(Out)
    BY Zenon DEF Out, Writing, InFlight
  <2>3. CASE r.call \notin {"claim", "renew"}
    <3>1. late' = late
      BY Zenon, <1>9, <2>3 DEF Crash
    <3> QED BY Zenon, <2>1, <2>2, <3>1, NothingLands
  <2>4. CASE r.call \in {"claim", "renew"}
    <3>1. late' = late \cup {r.age} /\ InFlight(r)
      BY Zenon, <1>9, <2>1, <2>4 DEF Crash, InFlight
    <3>2. CASE Unsettled
      <4>1. \A age \in late' : together <= Round + Delay + age
        BY <3>1, <3>2, Zenon DEF Unsettled
      <4> QED BY Zenon, <2>1, <2>2, <3>2, <4>1, UnsettledSet
    <3>3. CASE Settled
      <4>1. /\ lease'.age = lease.age
            /\ \/ lease'.token = lease.token
               \/ lease.token = m /\ lease'.token = "nobody"
        BY Zenon, <2>1, Leaves
      <4>2. Behind(Out)
        BY Zenon, <2>2 DEF Behind
      <4>3. \A age \in late' \ late :
              \/ together <= Round + Delay + age /\ lease.age <= Delay + age
              \/ /\ lease'.token = "nobody"
                 /\ \A n \in Mounts \ {m} : ~InFlight(mount[n])
        <5>1. CASE lease.token # m
          BY <3>1, <3>3, <5>1, Zenon DEF Settled
        <5>2. CASE lease.token = m
          <6>1. ASSUME NEW n \in Mounts \ {m}, InFlight(mount[n])
                PROVE  FALSE
            <7>1. lease.age <= Delay + mount[n].age /\ mount[n].age <= Delay
              BY <3>3, <5>2, <6>1, Zenon DEF Settled, Punctual
            <7>2. lease.age <= 2 * Delay
              BY <7>1, Fields, Rounds DEF TypeOK, Object
            <7> QED BY Zenon, <3>1, <5>2, <7>2, Fresh
          <6> QED BY Zenon, <2>1, <5>2, <6>1, Leaves
        <5> QED BY Zenon, <5>1, <5>2
      <4> QED BY Zenon, <2>1, <2>2, <3>3, <4>1, <4>2, <4>3, SettledSet
    <3> QED BY Zenon, <3>2, <3>3
  <2> QED BY Zenon, <2>3, <2>4
<1>10. CASE Freeze(m)
  <2>1. PICK q : Set(m, q) /\ q = [r EXCEPT !.frozen = TRUE]
    BY <1>10, Zenon DEF Freeze
  <2>2. late' = late /\ lease' = lease
    BY Zenon, <1>10 DEF Freeze
  <2>3. ~InFlight(q) /\ ~Writing(q)
    BY Zenon, <1>0, <2>1 DEF Mount, InFlight, Writing
  <2> QED BY Zenon, <2>1, <2>2, <2>3, NothingLands
<1> QED BY <1>3, <1>4, <1>5, <1>6, <1>7, <1>8, <1>9, <1>10, Zenon DEF Step

\* Two writers that share a phase of the split are within its bound.
LEMMA Bounded ==
  TypeOK /\ Punctual /\ ~Single /\ (Unsettled \/ Settled) => SplitEnds
<1> SUFFICES ASSUME TypeOK, Punctual, ~Single, Unsettled \/ Settled, together > 0
             PROVE  together <= SplitBound
  BY Rounds DEF SplitEnds, TypeOK
<1>1. together \in Nat
  BY Zenon DEF TypeOK
<1>2. PICK w \in Writers : w # lease.token
  BY Zenon DEF Single
<1>3. /\ w \in Mounts /\ Since(mount[w]) <= Round + Delay /\ Since(mount[w]) \in Nat
      /\ mount[w].age \in Nat /\ mount[w].pc = "writer" /\ ~mount[w].frozen
  BY Zenon, <1>2, Renewing, Fields DEF Writers
<1>4. CASE Unsettled
  <2>1. together <= Since(mount[w])
    BY Zenon, <1>2, <1>4 DEF Unsettled
  <2> QED BY <1>1, <1>3, <2>1, Rounds
<1>5. CASE Settled
  <2>1. CASE mount[w].call = "none"
    <3>1. together <= Round + 2 * Delay + Since(mount[w])
      BY <1>2, <1>5, <2>1, Zenon DEF Settled
    <3>2. Since(mount[w]) <= Round
      BY Zenon, <1>3, <2>1, Fields
    <3> QED BY <1>1, <1>3, <3>1, <3>2, Rounds
  <2>2. CASE mount[w].call # "none"
    <3>1. InFlight(mount[w])
      BY Zenon, <1>3, <2>2, Fields DEF Fitting, InFlight
    <3>2. together <= Round + Delay + mount[w].age /\ mount[w].age <= Delay
      BY <1>2, <1>3, <1>5, <3>1, Zenon DEF Settled, Punctual
    <3> QED BY <1>1, <1>3, <3>2, Rounds
  <2> QED BY Zenon, <2>1, <2>2
<1> QED BY Zenon, <1>4, <1>5

\* A tick makes everybody older, the split and the lease by no more.
LEMMA SplitTick ==
  ASSUME TypeOK, TypeOK', Outlives, ~Single, Unsettled \/ Settled, Tick
  PROVE  Unsettled' \/ Settled'
<1>1. together' \in Nat /\ together \in Nat /\ together' <= together + 1
  <2>1. together' = IF Single THEN 0 ELSE Capped(together, SplitBound + 1)
    BY Zenon DEF Tick
  <2>2. together \in Nat
    BY Zenon DEF TypeOK
  <2> QED BY <2>1, <2>2, Rounds DEF Capped
<1>2. ASSUME NEW n \in Mounts
      PROVE  mount'[n].frozen = mount[n].frozen
  BY Fields, Zenon DEF Tick, Mount
<1>3. ASSUME NEW n \in Mounts, Writing(mount'[n])
      PROVE  /\ Writing(mount[n]) /\ n \in Writers /\ mount'[n].call = mount[n].call
             /\ Since(mount'[n]) = Since(mount[n]) + 1
  <2>1. ~mount[n].frozen
    BY Zenon, <1>2, <1>3 DEF Writing
  <2>2. /\ mount'[n].pc = mount[n].pc /\ mount'[n].fenced = mount[n].fenced
        /\ mount'[n].call = mount[n].call
        /\ mount[n].pc = "writer" => Since(mount'[n]) = Since(mount[n]) + 1
    BY Zenon, <2>1, TickMount
  <2> QED BY <1>3, <2>1, <2>2, Zenon DEF Writing, Writers
<1>4. ASSUME NEW n \in Mounts, InFlight(mount'[n])
      PROVE  InFlight(mount[n]) /\ mount'[n].age = mount[n].age + 1
  <2>1. ~mount[n].frozen
    BY Zenon, <1>2, <1>4 DEF InFlight
  <2>2. /\ mount'[n].call = mount[n].call
        /\ mount[n].call # "none" => mount'[n].age = mount[n].age + 1
    BY <2>1, TickMount, Zenon
  <2> QED BY Zenon, <1>4, <2>1, <2>2 DEF InFlight
<1>5. /\ late' = {age + 1 : age \in late}
      /\ \A age \in late : age \in Nat
  <2>1. late' = {age + 1 : age \in late}
    BY Zenon DEF Tick
  <2>2. \A age \in late : age \in Nat
    BY Rounds DEF TypeOK
  <2> QED BY Zenon, <2>1, <2>2
<1>6. \A n \in Mounts : Since(mount[n]) \in Nat /\ mount[n].age \in Nat
  BY Zenon, NumbersLater
<1>7. CASE Unsettled
  <2>1. ASSUME NEW n \in Writers'
        PROVE  together' <= Since(mount[n])'
    <3>1. n \in Mounts /\ Writing(mount'[n])
      BY Zenon DEF Writers, Writing
    <3>2. together <= Since(mount[n])
      BY Zenon, <1>3, <1>7, <3>1 DEF Unsettled
    <3>3. Since(mount'[n]) = Since(mount[n]) + 1
      BY Zenon, <1>3, <3>1
    <3>4. together' <= Since(mount'[n])
      BY <1>1, <1>6, <3>1, <3>2, <3>3
    <3> QED BY Zenon, <3>4 DEF Since
  <2>2. ASSUME NEW n \in Mounts, InFlight(mount'[n])
        PROVE  together' <= Round + Delay + mount'[n].age
    <3>1. together <= Round + Delay + mount[n].age /\ mount'[n].age = mount[n].age + 1
      BY Zenon, <1>4, <1>7, <2>2 DEF Unsettled
    <3> QED BY <1>1, <1>6, <3>1, Rounds
  <2>3. ASSUME NEW age \in late'
        PROVE  together' <= Round + Delay + age
    <3>1. PICK a \in late : age = a + 1
      BY Zenon, <1>5, <2>3
    <3>2. together <= Round + Delay + a
      BY Zenon, <1>7 DEF Unsettled
    <3> QED BY <1>1, <1>5, <3>1, <3>2, Rounds
  <2>4. Unsettled'
    BY <2>1, <2>2, <2>3, Zenon DEF Unsettled, InFlight
  <2> QED BY Zenon, <2>4
<1>8. CASE Settled
  <2>1. /\ lease'.token = lease.token /\ lease.token # "none"
        /\ lease'.age \in Nat /\ lease.age \in Nat
        /\ lease'.age <= lease.age + 1
    BY <1>8, TickLease DEF Settled, TypeOK, Object
  <2>2. lease'.age <= LeaseTTL
    <3>1. PICK w \in Writers : w # lease.token
      BY Zenon DEF Single
    <3>2. w \in Mounts /\ mount[w].pc = "writer" /\ ~mount[w].frozen
      BY Zenon, <3>1 DEF Writers
    <3>3. CASE mount[w].call = "none"
      <4>1. lease.age <= Delay + Since(mount[w])
        BY <1>8, <3>1, <3>3, Zenon DEF Settled
      <4>2. mount[w].beat < LeaseRefresh
        <5>1. OnTime(w)
          BY <3>2, Zenon DEF Tick
        <5> QED BY Zenon, <3>2, <3>3, <5>1 DEF OnTime, Ready
      <4>3. Since(mount[w]) < Round
        BY <3>2, <3>3, <4>2, Fields, Rounds DEF Since
      <4> QED BY <1>6, <2>1, <3>2, <4>1, <4>3, Rounds DEF Outlives
    <3>4. CASE mount[w].call # "none"
      <4>1. InFlight(mount[w])
        BY Zenon, <3>2, <3>4, Fields DEF Fitting, InFlight
      <4>2. lease.age <= Delay + mount[w].age
        BY <1>8, <3>1, <3>2, <4>1, Zenon DEF Settled
      <4>3. mount[w].age < Delay
        BY Zenon, <3>2, <3>4, TickMount
      <4> QED BY <1>6, <2>1, <3>2, <4>2, <4>3, Rounds
    <3> QED BY Zenon, <3>3, <3>4
  <2>3. ASSUME NEW n \in Mounts, n # lease'.token
        PROVE  Behind(mount[n])'
    <3>1. Behind(mount[n])
      BY Zenon, <1>8, <2>1, <2>3, SettledByMount
    <3>2. ASSUME Writing(mount'[n]), mount'[n].call = "none"
          PROVE  /\ together' <= Round + 2 * Delay + Since(mount'[n])
                 /\ lease'.age <= Delay + Since(mount'[n])
      <4>1. /\ Since(mount'[n]) = Since(mount[n]) + 1
            /\ together <= Round + 2 * Delay + Since(mount[n])
            /\ lease.age <= Delay + Since(mount[n])
        BY Zenon, <1>3, <3>1, <3>2 DEF Behind
      <4> QED BY <1>1, <1>6, <2>1, <4>1, Rounds
    <3>3. ASSUME InFlight(mount'[n])
          PROVE  /\ together' <= Round + Delay + mount'[n].age
                 /\ lease'.age <= Delay + mount'[n].age
      <4>1. /\ mount'[n].age = mount[n].age + 1
            /\ together <= Round + Delay + mount[n].age
            /\ lease.age <= Delay + mount[n].age
        BY Zenon, <1>4, <3>1, <3>3 DEF Behind
      <4> QED BY <1>1, <1>6, <2>1, <4>1, Rounds
    <3>4. Since(mount'[n]) = Since(mount[n])'
      BY Zenon DEF Since
    <3> QED BY <3>2, <3>3, <3>4, Zenon DEF Behind, Writing, InFlight
  <2>4. ASSUME NEW n \in Mounts, n = lease'.token, Writing(mount'[n])
        PROVE  lease'.age <= Delay + Since(mount[n])'
    <3>1. /\ Since(mount'[n]) = Since(mount[n]) + 1
          /\ lease.age <= Delay + Since(mount[n])
      BY Zenon, <1>3, <1>8, <2>1, <2>4, SettledByMount
    <3>2. lease'.age <= Delay + Since(mount'[n])
      BY <1>6, <2>1, <3>1, Rounds
    <3> QED BY Zenon, <3>2 DEF Since
  <2>5. ASSUME NEW age \in late'
        PROVE  \/ together' <= Round + Delay + age /\ lease'.age <= Delay + age
               \/ lease'.token = "nobody" /\ \A n \in Mounts : ~InFlight(mount'[n])
    <3>1. PICK a \in late : age = a + 1
      BY Zenon, <1>5, <2>5
    <3>2. CASE together <= Round + Delay + a /\ lease.age <= Delay + a
      <4>1. together' <= Round + Delay + age /\ lease'.age <= Delay + age
        BY <1>1, <1>5, <2>1, <3>1, <3>2, Rounds
      <4> QED BY Zenon, <4>1
    <3>3. CASE lease.token = "nobody" /\ \A n \in Mounts : ~InFlight(mount[n])
      BY <1>4, <2>1, <3>3, Zenon
    <3> QED BY <1>8, <3>1, <3>2, <3>3, Zenon DEF Settled
  <2> QED BY <2>1, <2>2, <2>3, <2>4, <2>5, SettledLater, Zenon
<1> QED BY Zenon, <1>7, <1>8

\* Nobody starts to write, except at a claim, which starts the count again.
LEMMA WritersShrink ==
  ASSUME TypeOK, NEW m \in Mounts, Step(m) \/ Crash(m) \/ Freeze(m), together' # 0
  PROVE  Writers' \subseteq Writers /\ together' = together
<1> DEFINE r == mount[m]
<1>0. r \in Mount /\ Fitting(r)
  BY Zenon, Fields
<1>1. together' = together
  <2>1. CASE Step(m)
    BY Zenon, <2>1 DEF Step, ClaimLease, RenewLease, putLease, PutFails, ReleaseLease,
       DeleteLease
  <2>2. CASE Crash(m) \/ Freeze(m)
    BY Zenon, <2>2 DEF Crash, Freeze
  <2> QED BY Zenon, <2>1, <2>2
<1>2. ASSUME NEW q, Set(m, q), Writing(q) => Writing(r)
      PROVE  Writers' \subseteq Writers
  <2>1. \A n \in Writers' : n \in Mounts
    BY Zenon DEF Writers
  <2> QED BY Zenon, <1>2, <2>1, WritersSet
<1>3. CASE ClaimLease(m) \/ RenewLease(m)
  <2>1. PICK q : Set(m, q) /\ q \in {
            [r EXCEPT !.call = "claim", !.age = 0],
            [r EXCEPT !.call = "renew", !.age = 0, !.beat = 0],
            [r EXCEPT !.fenced = TRUE, !.beat = 0],
            [r EXCEPT !.fails = @ + 1, !.beat = 0]}
    BY <1>3, Zenon DEF ClaimLease, RenewLease
  <2>2. q.pc = r.pc /\ q.frozen = r.frozen /\ (q.fenced = r.fenced \/ q.fenced)
    BY <1>0, <2>1, Zenon DEF Mount
  <2>3. Writing(q) => Writing(r)
    BY Zenon, <2>2 DEF Writing
  <2> QED BY <1>1, <1>2, <2>1, <2>3, Zenon
<1>4. CASE putLease(m)
  <2>1. PICK q : /\ Set(m, q)
                 /\ q = [r EXCEPT !.pc = "writer", !.call = "none", !.age = 0, !.fails = 0]
    BY <1>4, Zenon DEF putLease
  <2>2. q.frozen = r.frozen /\ q.fenced = r.fenced
    BY Zenon, <1>0, <2>1 DEF Mount
  <2>3. r.call = "renew"
    BY Zenon, <1>4 DEF putLease
  <2>4. r.pc = "writer"
    BY Zenon, <1>0, <2>3 DEF Fitting, Mount
  <2>5. Writing(q) => Writing(r)
    BY Zenon, <2>2, <2>4 DEF Writing
  <2> QED BY <1>1, <1>2, <2>1, <2>5, Zenon
<1>5. CASE PutFails(m)
  <2>1. PICK q : /\ Set(m, q)
                 /\ q \in {[r EXCEPT !.call = "none", !.age = 0, !.fails = @ + 1], Out}
    BY <1>5, Zenon DEF PutFails
  <2>2. CASE q = Out
    <3>1. ~Writing(q)
      BY Zenon, <2>2 DEF Writing, Out
    <3> QED BY <1>1, <1>2, <2>1, <3>1, Zenon
  <2>3. CASE q # Out
    <3>1. q.pc = r.pc /\ q.frozen = r.frozen /\ q.fenced = r.fenced
      BY <1>0, <2>1, <2>3, Zenon DEF Mount
    <3>2. Writing(q) => Writing(r)
      BY Zenon, <3>1 DEF Writing
    <3> QED BY <1>1, <1>2, <2>1, <3>2, Zenon
  <2> QED BY Zenon, <2>2, <2>3
<1>6. CASE ReleaseLease(m) \/ DeleteLease(m) \/ Crash(m) \/ Freeze(m)
  <2>1. PICK q : /\ Set(m, q)
                 /\ q \in {[r EXCEPT !.pc = "leaving", !.call = "release", !.age = 0],
                           [r EXCEPT !.frozen = TRUE], Out}
    BY <1>6, Zenon DEF ReleaseLease, DeleteLease, Crash, Freeze
  <2>2. CASE q = Out
    <3>1. ~Writing(q)
      BY Zenon, <2>2 DEF Writing, Out
    <3> QED BY <1>1, <1>2, <2>1, <3>1, Zenon
  <2>3. CASE q # Out
    <3>1. q.pc = "leaving" \/ q.frozen
      BY <1>0, <2>1, <2>3, Zenon DEF Mount
    <3>2. Writing(q) => Writing(r)
      BY Zenon, <3>1 DEF Writing
    <3> QED BY <1>1, <1>2, <2>1, <3>2, Zenon
  <2> QED BY Zenon, <2>2, <2>3
<1> QED BY <1>1, <1>3, <1>4, <1>5, <1>6, Zenon DEF Step

\* SplitInv is inductive.
LEMMA SplitNext == Outlives /\ SplitInv /\ [Next]_vars => SplitInv'
<1> SUFFICES ASSUME Outlives, SplitInv, [Next]_vars
             PROVE  SplitInv'
  BY Zenon
<1>0. /\ TypeOK /\ HeldSince /\ Punctual /\ SplitEnds
      /\ Single \/ Unsettled \/ Settled
  BY Zenon DEF SplitInv
<1>1. TypeOK' /\ HeldSince' /\ Punctual'
  BY Zenon, <1>0, TypeNext, HeldNext, PunctualNext
<1>2. together \in Nat /\ together' \in Nat
  BY Zenon, <1>0, <1>1 DEF TypeOK
<1> SUFFICES /\ SplitEnds'
             /\ (Single \/ Unsettled \/ Settled)'
  BY <1>1, Zenon DEF SplitInv
<1>3. CASE together' = 0
  <2>1. /\ \A n \in Mounts : Since(mount[n])' \in Nat /\ mount'[n].age \in Nat
        /\ \A age \in late' : age \in Nat
        /\ Writers' \subseteq Mounts
    BY <1>1, NumbersLater, Rounds DEF TypeOK, Writers
  <2>2. Unsettled'
    BY <1>3, <2>1, Rounds DEF Unsettled
  <2>3. SplitEnds'
    BY <1>3, Rounds DEF SplitEnds, SplitBound, Round
  <2> QED BY Zenon, <2>2, <2>3
<1>4. CASE UNCHANGED vars
  <2>1. SplitEnds'
    BY Zenon, <1>0, <1>4 DEF vars, SplitEnds, SplitBound, Round
  <2>2. Single => Single'
    BY Zenon, <1>4 DEF vars, Single, Writers
  <2>3. Unsettled => Unsettled'
    BY Zenon, <1>4 DEF vars, Unsettled, Writers, Since, InFlight
  <2>4. Settled => Settled'
    BY Zenon, <1>4 DEF vars, Settled, Writers, Since, InFlight
  <2> QED BY Zenon, <1>0, <2>1, <2>2, <2>3, <2>4
<1>5. CASE LatePut /\ together' # 0
  <2>1. mount' = mount /\ together' = together /\ late' \subseteq late
    BY Zenon, <1>5 DEF LatePut
  <2>2. together > 0
    BY <1>2, <1>5, <2>1
  <2>3. SplitEnds'
    BY Zenon, <1>0, <2>1 DEF SplitEnds, SplitBound, Round
  <2>4. Single => Single'
    BY Zenon, <2>1 DEF Single, Writers
  <2>5. CASE lease' = lease
    <3>1. Unsettled => Unsettled'
      BY Zenon, <2>1 DEF Unsettled, Writers, Since, InFlight
    <3>2. Settled => Settled'
      BY Zenon, <2>1, <2>5 DEF Settled, Writers, Since, InFlight
    <3> QED BY Zenon, <1>0, <2>3, <2>4, <3>1, <3>2
  <2>6. CASE lease' # lease
    BY Zenon, <1>0, <1>1, <1>5, <2>2, <2>3, <2>4, <2>6, LateLands
  <2> QED BY Zenon, <2>5, <2>6
<1>6. CASE Tick /\ together' # 0
  <2>1. ~Single
    <3>1. together' = IF Single THEN 0 ELSE Capped(together, SplitBound + 1)
      BY <1>6, Zenon DEF Tick
    <3> QED BY Zenon, <1>6, <3>1
  <2>2. Unsettled' \/ Settled'
    BY Zenon, <1>0, <1>1, <1>6, <2>1, SplitTick
  <2>3. Writers \subseteq Writers'
    <3>1. ASSUME NEW n \in Writers
          PROVE  n \in Writers'
      <4>1. /\ n \in Mounts /\ mount[n].pc = "writer" /\ ~mount[n].fenced
            /\ ~mount[n].frozen
        BY Zenon DEF Writers
      <4>2. /\ mount'[n].pc = mount[n].pc /\ mount'[n].fenced = mount[n].fenced
            /\ ~mount'[n].frozen
        BY <1>0, <1>6, <4>1, TickMount, Zenon
      <4> QED BY <4>1, <4>2, Zenon DEF Writers
    <3> QED BY Zenon, <3>1
  <2>4. ~Single'
    BY Zenon, <2>1, <2>3 DEF Single
  <2>5. (TypeOK /\ Punctual /\ ~Single /\ (Unsettled \/ Settled) => SplitEnds)'
    BY Bounded, PTL
  <2> QED BY Zenon, <1>1, <2>2, <2>4, <2>5
<1>7. ASSUME NEW m \in Mounts, Step(m) \/ Crash(m) \/ Freeze(m), together' # 0
      PROVE  SplitEnds' /\ (Single \/ Unsettled \/ Settled)'
  <2>1. Writers' \subseteq Writers /\ together' = together
    BY Zenon, <1>0, <1>7, WritersShrink
  <2>2. SplitEnds' /\ together > 0
    BY <1>0, <1>2, <1>7, <2>1 DEF SplitEnds, SplitBound, Round
  <2>3. Single => Single'
    BY Zenon, <2>1 DEF Single
  <2>4. ~Single => Unsettled' \/ Settled'
    BY Zenon, <1>0, <1>1, <1>7, <2>1, <2>2, SplitStep
  <2> QED BY Zenon, <2>2, <2>3, <2>4
<1>8. ASSUME NEW m \in Mounts, Thaw(m)
      PROVE  together' = 0
  BY Zenon, <1>8 DEF Thaw
<1> QED BY <1>3, <1>4, <1>5, <1>6, <1>7, <1>8, Zenon DEF Next

\* Split-brain detection (RenewLease, MarkLeaseLost): however a second writer
\* came about, once nobody comes, leaves or wakes any more, two rounds of
\* renewals later one of the writers is fenced or out.
THEOREM LeaseSplitEnds == ASSUME Outlives PROVE Spec => []SplitEnds
<1>1. Init => SplitInv
  <2> SUFFICES ASSUME Init
               PROVE  SplitInv
    BY Zenon
  <2>1. TypeOK
    BY Zenon, NoRaceInit DEF NoRaceInv
  <2>2. /\ together = 0 /\ late = {} /\ lease.token = "none"
        /\ \A m \in Mounts : mount[m] = Out
    BY Zenon DEF Init, NoLease
  <2>3. HeldSince /\ Single
    BY <2>1, <2>2, Fields DEF HeldSince, Single, Writers, Out
  <2>4. Punctual /\ SplitEnds
    BY <2>2, Rounds DEF Punctual, SplitEnds
  <2> QED BY Zenon, <2>1, <2>3, <2>4 DEF SplitInv
<1>2. SplitInv => SplitEnds
  BY Zenon DEF SplitInv
<1> QED BY <1>1, <1>2, SplitNext, PTL DEF Spec
============================================================================
