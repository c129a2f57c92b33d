SPECIFICATION Spec
CONSTANTS
  SessionIds = {s1, s2}
  NoSession = NoSession
  Procs = {p1, p2}
  p1 = p1
  p2 = p2
  May <- MountAndBranch
  Partitions <- OnePartition
  PartitionFor <- Together
  Trees <- MCTrees
  EmptyTree <- MCEmptyTree
  Ops <- OneOp
  Writes <- NoWrites
  Check <- MCCheck
  Mutate <- MCMutate
  Faults <- NoFaults
  MaxLog = 3
INVARIANTS
  ReplayAccepted
  ImagesExact
  LineageExact
  ObjectExact
SYMMETRY Symmetry
