----------------------------- MODULE MCSession -----------------------------
(***************************************************************************)
(* Session for TLC.  The overlay is one path, as internal/upper treats it: *)
(* the node at the path, and the whiteout an unlink without node leaves.   *)
(***************************************************************************)
EXTENDS SessionStore, TLC

CONSTANTS p1, p2

MCTrees == [node: {"none", "empty", "data"}, whiteout: BOOLEAN]
MCEmptyTree == [node |-> "none", whiteout |-> FALSE]
MCCheck(t, o) == o = "create" => t.node = "none"
MCMutate(t, o) ==
  CASE o = "create" -> [t EXCEPT !.node = "empty"]
    [] o = "write" -> [t EXCEPT !.node = "data"]
    [] o = "unlink" -> IF t.node = "none" THEN [t EXCEPT !.whiteout = TRUE]
                       ELSE [t EXCEPT !.node = "none"]

\* Mutations: create has a precondition, write needs a blob, unlink changes
\* the tree in two ways.
AllOps == {"create", "write", "unlink"}
FewOps == {"write", "unlink"}
OneOp == {"unlink"}
WriteOps == {"write"}
NoWrites == {}

\* Who runs what.
Mounts == [p \in Procs |-> {"mount"}]
MountsAndTools == [p \in Procs |-> {"mount", "tool"}]
MountAndBranch == [p \in Procs |-> IF p = p1 THEN {"mount"} ELSE {"branch"}]

\* All sessions on one partition, or each on its own.
OnePartition == {"q"}
Together == [s \in SessionIds |-> "q"]
OwnPartition == [s \in SessionIds |-> s]

Symmetry == Permutations(SessionIds)
ProcSymmetry == Permutations(Procs)

NoFaults == {}
============================================================================
