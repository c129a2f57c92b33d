SPECIFICATION Spec
CONSTANTS
  Mounts = {m1, m2}
  LeaseRefresh = 3
  LeaseTTL = 9
  Delay = 1
  MaxFails = 1
SYMMETRY Symmetry
INVARIANTS
  OneWriter
  NoFalseFence
  SplitEnds
