------------------------------- MODULE Store -------------------------------
(***************************************************************************)
(* What the sessions of kfuse promise, without logs, images, leases or     *)
(* crashes: a set of durable trees.  A mount shows one of them, is alone   *)
(* with it, and changes it one accepted mutation at a time, the change     *)
(* being durable before the mount shows it.  A new tree is a copy of one   *)
(* an older session had.  SessionStore states that Session implements it.  *)
(***************************************************************************)
CONSTANTS
  SessionIds, Procs, Trees, EmptyTree, Ops,
  Check(_, _), Mutate(_, _),
  NoView       \* a process that shows no session

VARIABLES
  state,    \* state[s]: the durable tree of session s
  past,     \* past[s]: the trees s has had
  view      \* view[p]: the session p has mounted and the tree it shows

svars == <<state, past, view>>

Init ==
  /\ state = [s \in SessionIds |-> EmptyTree]
  /\ past = [s \in SessionIds |-> {EmptyTree}]
  /\ view = [p \in Procs |-> NoView]

Shown(s) == \E p \in Procs : view[p] # NoView /\ view[p].sid = s

Set(s, t) ==
  /\ state' = [state EXCEPT ![s] = t]
  /\ past' = [past EXCEPT ![s] = @ \cup {t}]

\* A mount starts with all of its session.
Mount(p, s) ==
  /\ view[p] = NoView /\ ~Shown(s)
  /\ view' = [view EXCEPT ![p] = [sid |-> s, tree |-> state[s]]]
  /\ UNCHANGED <<state, past>>

\* A mutation of what p shows is durable.
Perform(p, o) ==
  /\ view[p] # NoView
  /\ view[p].tree = state[view[p].sid]
  /\ Check(view[p].tree, o)
  /\ Set(view[p].sid, Mutate(view[p].tree, o))
  /\ UNCHANGED view

\* The user has the answer: the mount shows the mutation.
Answer(p) ==
  /\ view[p] # NoView
  /\ view' = [view EXCEPT ![p] = [sid |-> @.sid, tree |-> state[@.sid]]]
  /\ UNCHANGED <<state, past>>

\* A session nobody has mounted begins as a tree that s had.
Fork(s, c) ==
  /\ ~Shown(c)
  /\ \E t \in past[s] : Set(c, t)
  /\ UNCHANGED view

\* A clean end or a crash.
Stop(p) ==
  /\ view' = [view EXCEPT ![p] = NoView]
  /\ UNCHANGED <<state, past>>

Next ==
  \/ \E p \in Procs : Stop(p) \/ Answer(p)
  \/ \E p \in Procs, s \in SessionIds : Mount(p, s)
  \/ \E p \in Procs, o \in Ops : Perform(p, o)
  \/ \E s, c \in SessionIds : Fork(s, c)

Spec == Init /\ [][Next]_svars
============================================================================
