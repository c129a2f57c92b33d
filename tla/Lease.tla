------------------------------- MODULE Lease -------------------------------
(***************************************************************************)
(* The writer lease of one session (internal/registry/lease.go) and the    *)
(* mounts that claim, renew and release it (internal/daemon/lifecycle.go). *)
(*                                                                         *)
(* The lease is an S3 object without conditional writes: a claim, renewal  *)
(* or release loads it, decides, and then puts or deletes it in a second   *)
(* request.  Requests take time, fail, and fail although they took effect; *)
(* mounts crash, and freeze for as long as they like.  Time is discrete    *)
(* and kept as ages, so behaviours need no bound.                          *)
(***************************************************************************)
EXTENDS Naturals

CONSTANTS
  Mounts,         \* processes that may mount the session
  LeaseRefresh,   \* ticks between heartbeats
  LeaseTTL,       \* ticks a lease lives without one
  Delay,          \* ticks a request takes at most, while its process runs
  MaxFails        \* bound: renewals that fail in a row

\* Two writers whose requests took half a heartbeat could renew past each
\* other for ever.
ASSUME LeaseAssumption ==
  /\ LeaseRefresh \in Nat /\ LeaseTTL = 3 * LeaseRefresh
  /\ Delay \in Nat /\ 2 * Delay < LeaseRefresh
  /\ MaxFails \in Nat
  /\ Mounts \cap {"none", "nobody"} = {}

VARIABLES
  lease,     \* the object: token, and the age of its AcquiredAt
  mount,     \* mount[m]: what process m is and does
  late,      \* ages of puts whose process is dead
  raced,     \* history: two second requests overlapped, or a process froze
  together   \* history: ticks with two unfenced writers running, in a row,
             \* since the last process came, left or was frozen

vars == <<lease, mount, late, raced, together>>

\* Tokens are fresh for each mount.  The token of a mount that ended is
\* foreign to everyone, "nobody".
NoLease == [token |-> "none", age |-> 0]

\* Mutant of expired: the refresh interval is taken for the TTL.
expiredEarly == lease.age > LeaseRefresh

expired == lease.age > LeaseTTL

\* Mutant of Free: the tokens are not compared.
FreeNoToken(m) == lease.token = "none" \/ expired

\* The check of ClaimLease and RenewLease, for token m.
Free(m) == lease.token \in {"none", m} \/ expired

\* call: the second request in flight; age: since its putLease took the time;
\* beat: since the last tick of the heartbeat; fails: renewals failed in a row.
Out == [pc |-> "out", call |-> "none", age |-> 0, beat |-> 0, fails |-> 0,
        fenced |-> FALSE, frozen |-> FALSE]

Init ==
  /\ lease = NoLease /\ mount = [m \in Mounts |-> Out] /\ late = {}
  /\ raced = FALSE /\ together = 0

Set(m, r) == mount' = [mount EXCEPT ![m] = r]

\* m starts a second request; so far it may overlap another.
Overlaps(m) == late # {} \/ \E n \in Mounts \ {m} : mount[n].call # "none"

Ready(m, pc) == mount[m].pc = pc /\ mount[m].call = "none" /\ ~mount[m].frozen

\* What a put of m, m dead or not, makes of the lease.
Landed(token, age) == [token |-> token, age |-> age]
----------------------------------------------------------------------------
\* A locked session is refused, and nothing changes.
ClaimLease(m) ==
  /\ Ready(m, "out") /\ Free(m)
  /\ Set(m, [mount[m] EXCEPT !.call = "claim", !.age = 0])
  /\ raced' = (raced \/ Overlaps(m))
  /\ UNCHANGED <<lease, late, together>>

\* Mutant of RenewLease: ErrLocked is logged like any other error.
RenewLeaseBlind(m) ==
  /\ Ready(m, "writer") /\ mount[m].beat >= LeaseRefresh
  /\ \/ /\ Free(m)
        /\ Set(m, [mount[m] EXCEPT !.call = "renew", !.age = 0, !.beat = 0])
        /\ raced' = (raced \/ Overlaps(m))
     \/ ~Free(m) /\ Set(m, [mount[m] EXCEPT !.beat = 0]) /\ UNCHANGED raced
     \/ /\ mount[m].fails < MaxFails
        /\ Set(m, [mount[m] EXCEPT !.fails = @ + 1, !.beat = 0])
        /\ UNCHANGED raced
  /\ UNCHANGED <<lease, late, together>>

\* The heartbeat ticks.  A load that fails is retried at the next tick.
RenewLease(m) ==
  /\ Ready(m, "writer") /\ mount[m].beat >= LeaseRefresh
  /\ \/ /\ Free(m)
        /\ Set(m, [mount[m] EXCEPT !.call = "renew", !.age = 0, !.beat = 0])
        /\ raced' = (raced \/ Overlaps(m))
     \/ /\ ~Free(m)      \* ErrLocked: MarkLeaseLost
        /\ Set(m, [mount[m] EXCEPT !.fenced = TRUE, !.beat = 0])
        /\ UNCHANGED raced
     \/ /\ mount[m].fails < MaxFails
        /\ Set(m, [mount[m] EXCEPT !.fails = @ + 1, !.beat = 0])
        /\ UNCHANGED raced
  /\ UNCHANGED <<lease, late, together>>

\* The put of a claim or renewal lands and is answered.
putLease(m) ==
  /\ mount[m].call \in {"claim", "renew"} /\ ~mount[m].frozen
  /\ lease' = Landed(m, mount[m].age)
  /\ Set(m, [mount[m] EXCEPT !.pc = "writer", !.call = "none", !.age = 0,
                            !.fails = 0])
  /\ together' = IF mount[m].call = "claim" THEN 0 ELSE together
  /\ UNCHANGED <<late, raced>>

\* The put fails, landed or not.  A failed claim ends the mount, its token
\* forgotten.
PutFails(m) ==
  /\ mount[m].call \in {"claim", "renew"} /\ ~mount[m].frozen
  /\ \/ /\ mount[m].call = "claim" /\ Set(m, Out)
        /\ lease' \in {lease, Landed("nobody", mount[m].age)}
     \/ /\ mount[m].call = "renew" /\ mount[m].fails < MaxFails
        /\ Set(m, [mount[m] EXCEPT !.call = "none", !.age = 0, !.fails = @ + 1])
        /\ lease' \in {lease, Landed(m, mount[m].age)}
  /\ UNCHANGED <<late, raced, together>>

\* The lease that m leaves behind belongs to nobody.
Abandoned(m) ==
  IF lease.token = m THEN [lease EXCEPT !.token = "nobody"] ELSE lease

\* release, serving stopped and the heartbeat joined: another's lease is left
\* alone, and so is anything when the load fails.
ReleaseLease(m) ==
  /\ Ready(m, "writer")
  /\ \/ /\ lease.token \in {"none", m}
        /\ Set(m, [mount[m] EXCEPT !.pc = "leaving", !.call = "release",
                                  !.age = 0])
        /\ raced' = (raced \/ Overlaps(m))
        /\ UNCHANGED lease
     \/ Set(m, Out) /\ lease' = Abandoned(m) /\ UNCHANGED raced
  /\ UNCHANGED <<late, together>>

\* The delete is done, or fails.
DeleteLease(m) ==
  /\ mount[m].call = "release" /\ ~mount[m].frozen
  /\ lease' \in {NoLease, Abandoned(m)}
  /\ Set(m, Out)
  /\ together' = 0
  /\ UNCHANGED <<late, raced>>
----------------------------------------------------------------------------
(* The environment *)

\* A put in flight outlives its process.
Crash(m) ==
  /\ mount[m].pc # "out" \/ mount[m].call # "none"
  /\ lease' = Abandoned(m)
  /\ late' = IF mount[m].call \in {"claim", "renew"}
             THEN late \cup {mount[m].age} ELSE late
  /\ Set(m, Out)
  /\ together' = IF mount[m].frozen THEN 0 ELSE together
  /\ UNCHANGED raced

LatePut ==
  /\ \E age \in late : /\ late' = late \ {age}
                       /\ lease' \in {lease, Landed("nobody", age)}
  /\ UNCHANGED <<mount, raced, together>>

Freeze(m) ==
  /\ ~mount[m].frozen /\ (mount[m].pc # "out" \/ mount[m].call # "none")
  /\ Set(m, [mount[m] EXCEPT !.frozen = TRUE])
  /\ raced' = TRUE
  /\ UNCHANGED <<lease, late, together>>

Thaw(m) ==
  /\ mount[m].frozen
  /\ Set(m, [mount[m] EXCEPT !.frozen = FALSE])
  /\ together' = 0
  /\ UNCHANGED <<lease, late, raced>>

\* Who commits without knowing better.
Writers ==
  {m \in Mounts : mount[m].pc = "writer" /\ ~mount[m].fenced /\ ~mount[m].frozen}

Single == \A m, n \in Writers : m = n

\* Running processes are on time: their heartbeat ticks when it is due and
\* their requests end within Delay, as do those of the dead.
OnTime(m) ==
  /\ Ready(m, "writer") => mount[m].beat < LeaseRefresh
  /\ mount[m].call # "none" => mount[m].age < Delay

\* One round of renewals may find the lease expired, when a frozen put brought
\* an old time, or gone; in the next round all writers but one see another.
Round == (MaxFails + 1) * LeaseRefresh
SplitBound == 2 * (Round + Delay)

Capped(n, max) == IF n < max THEN n + 1 ELSE n

Tick ==
  /\ \A m \in Mounts : mount[m].frozen \/ OnTime(m)
  /\ \A age \in late : age < Delay
  /\ lease' = IF lease.token = "none" THEN lease
              ELSE [lease EXCEPT !.age = Capped(@, LeaseTTL + 1)]
  /\ mount' = [m \in Mounts |->
       [mount[m] EXCEPT
          !.age = IF mount[m].call = "none" THEN @ ELSE Capped(@, LeaseTTL + 1),
          !.beat = IF mount[m].pc = "writer" THEN Capped(@, LeaseRefresh)
                   ELSE @]]
  /\ late' = {age + 1 : age \in late}
  /\ together' = IF Single THEN 0 ELSE Capped(together, SplitBound + 1)
  /\ UNCHANGED raced
----------------------------------------------------------------------------
Step(m) ==
  \/ ClaimLease(m) \/ RenewLease(m) \/ putLease(m) \/ PutFails(m)
  \/ ReleaseLease(m) \/ DeleteLease(m)

Next ==
  \/ \E m \in Mounts : Step(m) \/ Crash(m) \/ Freeze(m) \/ Thaw(m)
  \/ LatePut \/ Tick

Spec == Init /\ [][Next]_vars
----------------------------------------------------------------------------
(* Properties *)

\* Mount refuses a second healthy writer: as long as no two requests overlap
\* and nobody freezes, there is one unfenced writer at most, whatever crashes
\* or expires, and although up to MaxFails renewals in a row fail.  The code
\* bounds neither that number nor the time of a request, Delay (ClaimLease,
\* expired, LeaseTTL).
OneWriter == ~raced => Single

\* A healthy writer is not fenced: the lease survives up to MaxFails failed
\* renewals in a row (RenewLease, LeaseTTL against LeaseRefresh).
NoFalseFence == ~raced => \A m \in Mounts : ~mount[m].fenced

\* Split-brain detection: two unfenced writers, however they came about, do
\* not run side by side for longer than the heartbeat allows (RenewLease).
SplitEnds == together <= SplitBound
----------------------------------------------------------------------------
(* What makes them inductive *)

Mount ==
  [pc: {"out", "writer", "leaving"}, call: {"none", "claim", "renew", "release"},
   age: 0 .. LeaseTTL + 1, beat: 0 .. LeaseRefresh, fails: 0 .. MaxFails,
   fenced: BOOLEAN, frozen: BOOLEAN]

\* A request belongs to a place of its mount, and the heartbeat starts with
\* the writer.
Fitting(r) ==
  /\ r.pc = "out" => r.call \in {"none", "claim"} /\ r.beat = 0 /\ r.fails = 0
                     /\ ~r.fenced
  /\ r.pc = "writer" => r.call \in {"none", "renew"}
  /\ r.pc = "leaving" => r.call = "release"
  /\ r.call = "renew" => r.beat <= r.age

Object == [token: Mounts \cup {"none", "nobody"}, age: 0 .. LeaseTTL + 1]

\* What the variables hold.
TypeOK ==
  /\ lease \in Object
  /\ mount \in [Mounts -> Mount] /\ \A m \in Mounts : Fitting(mount[m])
  /\ late \subseteq 0 .. LeaseTTL + 1
  /\ raced \in BOOLEAN /\ together \in Nat

Missed(n) == n * LeaseRefresh

\* Ticks since a writer last started a renewal that succeeded.
Since(r) ==
  Missed(r.fails) + r.beat + (IF r.call = "renew" THEN LeaseRefresh ELSE 0)

\* As long as nothing raced: one second request at most is under way, whoever
\* is not out has the lease, and it is as old as the failed renewals make it.
NoRace ==
  /\ \A m \in Mounts : ~mount[m].frozen /\ ~mount[m].fenced
  /\ \A m \in Mounts : mount[m].call # "none" =>
       /\ mount[m].age <= Delay
       /\ \A n \in Mounts : mount[n].call # "none" => n = m
  /\ late # {} \/ (\E m \in Mounts : mount[m].call = "claim") =>
       \A n \in Mounts : mount[n].pc = "out"
  /\ late # {} => \A n \in Mounts : mount[n].call = "none"
  /\ \A m \in Mounts : mount[m].pc # "out" => lease.token = m
  /\ \A m \in Mounts :
       mount[m].pc = "writer" => lease.age <= Delay + Since(mount[m])
  /\ \A m \in Mounts :
       mount[m].pc = "leaving" => lease.age <= Delay + Round + mount[m].age

\* A put that is under way while its process runs.
InFlight(r) == r.call \in {"claim", "renew"} /\ ~r.frozen

\* The split began and no put landed since: every writer is about to renew.
Unsettled ==
  /\ \A m \in Writers : together <= Since(mount[m])
  /\ \A m \in Mounts : InFlight(mount[m]) =>
       together <= Round + Delay + mount[m].age
  /\ \A age \in late : together <= Round + Delay + age

\* Somebody's put landed, and the lease lives: all other writers loaded it
\* before that, and see it when they load it again.
Settled ==
  /\ lease.token # "none" /\ lease.age <= LeaseTTL
  /\ \A m \in Writers \ {lease.token} : mount[m].call = "none" =>
       /\ together <= Round + 2 * Delay + Since(mount[m])
       /\ lease.age <= Delay + Since(mount[m])
  /\ \A m \in Mounts \ {lease.token} : InFlight(mount[m]) =>
       /\ together <= Round + Delay + mount[m].age
       /\ lease.age <= Delay + mount[m].age
  /\ \A age \in late :
       \/ together <= Round + Delay + age /\ lease.age <= Delay + age
       \/ lease.token = "nobody" /\ \A m \in Mounts : ~InFlight(mount[m])
  /\ \A m \in Writers : lease.token = m => lease.age <= Delay + Since(mount[m])

\* The holder is not out, and its lease is older than its heartbeat.
HeldSince ==
  \A m \in Mounts : lease.token = m =>
    /\ mount[m].pc # "out"
    /\ lease.age >= mount[m].beat
                    + (IF mount[m].call = "renew" THEN LeaseRefresh ELSE 0)

\* A request that outlived its time is answered at once.
Punctual ==
  together > 0 =>
    /\ \A m \in Mounts : InFlight(mount[m]) => mount[m].age <= Delay
    /\ \A age \in late : age <= Delay

NoRaceInv == TypeOK /\ (~raced => NoRace)
SplitInv ==
  TypeOK /\ HeldSince /\ Punctual /\ SplitEnds
         /\ (Single \/ Unsettled \/ Settled)
============================================================================
