SPECIFICATION RSpec
CONSTANTS
  Names = {"d", "f"}
  MaxDepth = 2
  Mounts <- SharedMounts
  Handlers = {h1, h2}
SYMMETRY Symmetry
INVARIANTS
  SameAsOrdinary
  NeverRefused
PROPERTY CommitsAtomic
