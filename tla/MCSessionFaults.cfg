SPECIFICATION Spec
CONSTANTS
  SessionIds = {s1}
  NoSession = NoSession
  Procs = {p1, p2}
  p1 = p1
  p2 = p2
  May <- MountsAndTools
  Partitions <- OnePartition
  PartitionFor <- Together
  Trees <- MCTrees
  EmptyTree <- MCEmptyTree
  Ops <- WriteOps
  Writes <- WriteOps
  Check <- MCCheck
  Mutate <- MCMutate
  Faults = {"overlap", "expire", "retry", "late"}
  MaxLog = 2
INVARIANTS
  TypeOK
  BlobsDurable
  ImageTagged
SYMMETRY ProcSymmetry
