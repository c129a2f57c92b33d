------------------------------ MODULE MCLease ------------------------------
(* Two interchangeable mounts. *)
EXTENDS Lease, TLC

Symmetry == Permutations(Mounts)
============================================================================
