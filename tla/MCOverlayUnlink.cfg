SPECIFICATION Spec
CONSTANTS
  Names = {"d", "f", "g"}
  MaxDepth = 2
  Mounts <- UnlinkMounts
INVARIANTS
  NothingReappears
CHECK_DEADLOCK FALSE
