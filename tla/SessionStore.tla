---------------------------- MODULE SessionStore ---------------------------
(***************************************************************************)
(* Session implements Store: the mapping from the logs and the session     *)
(* objects to durable trees and what the mounts show.                      *)
(***************************************************************************)
EXTENDS SessionInv

\* A mount has its session from the moment OpenSession or NewSession returns.
Shows(v) ==
  /\ v.role = "mount"
  /\ \/ v.pc \in {"loaded", "open"}
     \/ v.pc \in {"append", "sent"} /\ v.op \in Ops

TreesOf(t) == {t[n].tree : n \in 1 .. Len(t)}

StateOf == [s \in SessionIds |-> Current(s).tree]

PastOf == [s \in SessionIds |-> TreesOf(truth[s])]

Nothing == [sid |-> NoSession, tree |-> EmptyTree]

Sees(v) ==
  IF Shows(v) THEN [sid |-> v.sid, tree |-> v.upper.tree] ELSE Nothing

ViewOf == [p \in Procs |-> Sees(proc[p])]

Abstract == INSTANCE Store
  WITH state <- StateOf, past <- PastOf, view <- ViewOf, NoView <- Nothing

\* A step of Session, as Store sees it.
StoreStep == [Abstract!Next]_Abstract!svars

\* Commits, lost acknowledgements, crashes, checkpoints, resumes and branches
\* do no more than Store: a durable tree changes only by an accepted mutation
\* of the one mount that shows it, after the change and before the answer
\* nothing else happens to it, a resumed mount starts with all of it, and a
\* child begins as a state of its parent (commitLocked, reconstruct, Branch).
ImplementsStore == Abstract!Spec
============================================================================
