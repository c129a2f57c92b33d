SPECIFICATION Spec
CONSTANTS
  Tags = {"x", "y"}
  Fds = {f1, f2}
  LowerSize = 2
  MaxSize = 4
  MaxWrite = 3
SYMMETRY Symmetry
INVARIANTS
  ExtentsTidy
  BornExact
  WritesKept
