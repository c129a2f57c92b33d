SPECIFICATION Spec
CONSTANTS
  SessionIds = {s1}
  NoSession = NoSession
  Procs = {p1, p2}
  p1 = p1
  p2 = p2
  May <- Mounts
  Partitions <- OnePartition
  PartitionFor <- Together
  Trees <- MCTrees
  EmptyTree <- MCEmptyTree
  Ops <- AllOps
  Writes <- WriteOps
  Check <- MCCheck
  Mutate <- MCMutate
  Faults = {"trim"}
  MaxLog = 4
INVARIANTS
  NeverPoisoned
  WriterCurrent
PROPERTIES
  ImagesKept
  ImplementsStore
SYMMETRY ProcSymmetry
