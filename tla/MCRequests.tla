----------------------------- MODULE MCRequests -----------------------------
(* Uses of a mount by concurrent requests. *)
EXTENDS MCOverlay, Requests

Symmetry == Permutations(Handlers)

\* A file at the top or in a directory.
Files == {p \in Paths : Len(p) = 1 \/ Base(p) = "f"}

SharedMounts ==
  {Use(NoLower, Files, {"create", "mkdir", "rename"}),
   Use(NoLower, Flat, AllRequests),
   Use(NoLower, Deep, {"create", "mkdir", "chmod", "unlink", "rmdir"}),
   Use(SmallLower, Deep, {"create", "mkdir", "unlink", "rmdir"}),
   Use(SmallLower, Deep, {"create", "mkdir", "symlink", "write", "chmod"}),
   Use(EmptyDir, Flat, {"create", "mkdir", "chmod", "rename"})}
=============================================================================
