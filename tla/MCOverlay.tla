----------------------------- MODULE MCOverlay -----------------------------
(* Lower trees and uses of a mount for Overlay. *)
EXTENDS Overlay, TLC

\* The three names: d and f at every depth, g at the top only.
Deep == {p \in Paths : \A n \in DOMAIN p : p[n] # "g"}
Flat == {p \in Paths : Len(p) = 1}

NoLower == [p \in {} |-> "dir"]

\* A file beside an empty directory.
FileAndDir == (<<"f">> :> "file") @@ (<<"d">> :> "dir")

\* A directory with a file in it, and a file beside it.
SmallLower == FileAndDir @@ (<<"d", "f">> :> "file")

EmptyDir == <<"d">> :> "dir"

Use(lower, named, requests) ==
  [lower |-> lower, named |-> named, requests |-> requests]

\* Mixes of requests under which the mount shows what it should.
AgreeingMounts ==
  {Use(NoLower, Deep, AllRequests),
   Use(SmallLower, Deep, {"create", "mkdir", "chmod", "unlink", "rmdir"}),
   Use(SmallLower, Deep, {"create", "mkdir", "symlink", "write", "chmod"}),
   Use(FileAndDir, Flat, {"create", "mkdir", "chmod", "rename"})}

\* Written lower files are removed.
UnlinkMounts == {Use(SmallLower, Deep, {"write", "unlink"})}
============================================================================
