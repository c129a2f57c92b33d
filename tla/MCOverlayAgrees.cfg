SPECIFICATION Spec
CONSTANTS
  Names = {"d", "f", "g"}
  MaxDepth = 2
  Mounts <- AgreeingMounts
INVARIANTS
  TypeOK
  NothingReappears
  NothingLost
  ObjectsKept
  ModesKept
  ListingAgrees
