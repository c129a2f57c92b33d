------------------------------ MODULE Requests ------------------------------
(***************************************************************************)
(* Concurrent FUSE requests over Overlay.  A handler works out its path    *)
(* and checks the merged view; only later does the session, under its      *)
(* lock, check the event again and apply it (internal/fs/merged.go,        *)
(* internal/session).  In between other requests commit.  What keeps two   *)
(* of them apart is the kernel, which holds inodes locked while a request  *)
(* is with the daemon.  The move of a renamed entry in go-fuse's inode     *)
(* tree, which follows the answer, is taken with the commit.               *)
(***************************************************************************)
EXTENDS Overlay

CONSTANT
  Handlers     \* requests that can be in flight

ASSUME HandlersAssumption == IsFiniteSet(Handlers)

VARIABLES
  pending,     \* pending[h]: the request of h, its event checked, or Idle
  moved        \* history: a directory was renamed with a request below it
               \* in flight

rvars == <<vars, pending, moved>>

\* event: what the handler will commit.  at: the same with the paths its
\* inodes have by now, as the reference tree sees it.
Idle == [event |-> [op |-> "none"], at |-> [op |-> "none"]]

Busy == {h \in Handlers : pending[h] # Idle}

RInit == Init /\ pending = [h \in Handlers |-> Idle] /\ moved = FALSE
----------------------------------------------------------------------------
(* The kernel *)

\* The inodes, by path, that are locked for a request: the directory whose
\* entries change, the victim, the file that is written or moved.  A
\* directory that is moved is not locked itself.
Locked(e) ==
  CASE e.op \in {"create", "mkdir", "symlink"} -> {Parent(e.path)}
    [] e.op \in {"unlink", "rmdir"} -> {Parent(e.path), e.path}
    [] e.op \in {"write", "truncate", "chmod"} -> {e.path}
    [] e.op = "rename" ->
         {Parent(e.path), Parent(e.to), e.to}
           \cup (IF IsDir(e.path) THEN {} ELSE {e.path})

\* Renames from one directory to another exclude each other.
Crosses(e) == e.op = "rename" /\ Parent(e.path) # Parent(e.to)

Admitted(e) ==
  \A h \in Busy :
    /\ Locked(e) \cap Locked(pending[h].at) = {}
    /\ ~(Crosses(e) /\ Crosses(pending[h].at))
----------------------------------------------------------------------------
\* Mutant of AllEvents: Create does not ask whether the name is taken.
AllEventsTaken ==
  {[op |-> "create", path |-> p] : p \in {q \in mount.named : InDir(q)}}
    \cup Fresh("mkdir") \cup Fresh("symlink") \cup WriteEvents
    \cup TruncateEvents \cup ChmodEvents \cup UnlinkEvents \cup RmdirEvents
    \cup RenameEvents

\* What the handlers let through.
AllEvents ==
  Fresh("create") \cup Fresh("mkdir") \cup Fresh("symlink") \cup WriteEvents
    \cup TruncateEvents \cup ChmodEvents \cup UnlinkEvents \cup RmdirEvents
    \cup RenameEvents

\* Bound: a directory keeps its depth, what is created in it while it moves
\* would otherwise end below MaxDepth.
Level(e) == e.op = "rename" /\ IsDir(e.path) => Len(e.path) = Len(e.to)

\* The handler resolves its path and checks the merged view.
Begin(h) ==
  /\ pending[h] = Idle
  /\ \E e \in AllEvents :
       /\ e.op \in mount.requests /\ Level(e)
       /\ Admitted(e)
       /\ pending' = [pending EXCEPT ![h] = [event |-> e, at |-> e]]
  /\ UNCHANGED <<vars, moved>>

\* The paths of a request still in flight follow the directory that moved.
Follow(e, move) ==
  LET Now(p) == IF move.op = "rename" /\ AtOrUnder(p, move.path)
                THEN Rebase(p, move.path, move.to) ELSE p
  IN IF e.op = "rename" THEN [e EXCEPT !.path = Now(@), !.to = Now(@)]
     ELSE [e EXCEPT !.path = Now(@)]

\* The session checks the event and applies it, or refuses the request.
Finish(h) ==
  LET r == pending[h]
      others == Busy \ {h}
      still == [g \in Handlers |->
                  IF g \in others
                  THEN [pending[g] EXCEPT !.at = Follow(@, r.at)] ELSE Idle]
  IN /\ h \in Busy
     /\ \/ /\ Check(upper, r.event)
           /\ upper' = Apply(upper, r.event)
           /\ tree' = Reference(tree, r.at)
           /\ pending' = still
           /\ moved' = (moved \/ \E g \in others : still[g] # pending[g])
        \/ /\ ~Check(upper, r.event)
           /\ pending' = [pending EXCEPT ![h] = Idle]
           /\ UNCHANGED <<upper, tree, moved>>
     /\ UNCHANGED mount

RNext == \E h \in Handlers : Begin(h) \/ Finish(h)

RSpec == RInit /\ [][RNext]_rvars
----------------------------------------------------------------------------
(* Properties *)

\* Unless a directory is renamed under a request in flight, the mount shows
\* what an ordinary file system would after the requests answered so far,
\* however they interleaved: the same paths, objects and modes (the merged
\* view is checked by the handler, the commit comes later).
SameAsOrdinary == ~moved => View = tree

\* What the handlers let through on the merged view, upper.Check accepts at
\* the commit, whatever committed in between: no request fails for one that
\* ran beside it.
NeverRefused == ~moved => \A h \in Busy : Check(upper, pending[h].event)

\* However requests overlap, each takes effect at its commit and as a whole:
\* what its handler checked before still holds, so that the commit is a step
\* of Overlay, where check and commit are one.
CommitsAtomic == [][~moved' => [Next]_vars]_rvars
----------------------------------------------------------------------------
(* What makes them inductive *)

\* The shape of a request, whatever the state.
Shaped(e) ==
  /\ e.op \in mount.requests
  /\ \/ \E op \in {"create", "mkdir", "symlink"}, p \in mount.named :
          e = [op |-> op, path |-> p]
     \/ \E p \in Paths, fall \in BOOLEAN :
          e = [op |-> "write", path |-> p, fall |-> fall]
     \/ \E op \in {"truncate", "chmod", "unlink", "rmdir"}, p \in Paths :
          e = [op |-> op, path |-> p]
     \/ Bare(mount) /\ \E p \in Paths, to \in mount.named :
          e = [op |-> "rename", path |-> p, to |-> to, fromLower |-> FALSE]

DirIn(t, p) == p \in DOMAIN t /\ t[p].kind = "dir"
EmptyIn(t, p) == \A q \in Paths : Parent(q) = p => q \notin DOMAIN t

\* Tree t takes request e: what the handlers ask of the merged view.
Takes(t, e) ==
  LET p == e.path
      In(q) == Parent(q) = NoPath \/ DirIn(t, Parent(q))
  IN \/ e.op \in {"create", "mkdir", "symlink"} /\ In(p) /\ p \notin DOMAIN t
     \/ e.op = "write" /\ p \in DOMAIN t /\ t[p].kind = "file" /\ e.fall = ~t[p].own
     \/ e.op = "truncate" /\ p \in DOMAIN t /\ t[p].kind = "file"
     \/ e.op = "chmod" /\ p \in DOMAIN t
     \/ e.op = "unlink" /\ p \in DOMAIN t /\ ~DirIn(t, p)
     \/ e.op = "rmdir" /\ DirIn(t, p) /\ EmptyIn(t, p)
     \/ /\ e.op = "rename" /\ p \in DOMAIN t /\ In(e.to)
        /\ e.to \in DOMAIN t => (DirIn(t, e.to) <=> DirIn(t, p)) /\ EmptyIn(t, e.to)
        /\ DirIn(t, p) => ~Under(e.to, p) /\ Len(e.to) = Len(p)

\* The paths locked for it.
Locks(t, e) ==
  CASE e.op \in {"create", "mkdir", "symlink"} -> {Parent(e.path)}
    [] e.op \in {"unlink", "rmdir"} -> {Parent(e.path), e.path}
    [] e.op \in {"write", "truncate", "chmod"} -> {e.path}
    [] e.op = "rename" ->
         {Parent(e.path), Parent(e.to), e.to}
           \cup (IF DirIn(t, e.path) THEN {} ELSE {e.path})

\* On a mount that shows the reference tree, that tree still takes every
\* request in flight, and their locks keep them apart.
RequestsInv ==
  /\ DOMAIN pending = Handlers
  /\ ~moved /\ Agreeing(mount) =>
       /\ OverlayInv
       /\ \A h \in Busy :
            LET e == pending[h].event
            IN /\ pending[h] = [event |-> e, at |-> e]
               /\ Shaped(e) /\ Takes(tree, e)
       /\ \A g, h \in Busy :
            g # h => Locks(tree, pending[g].event)
                       \cap Locks(tree, pending[h].event) = {}
=============================================================================
