---------------------------- MODULE MCFileData ----------------------------
(* FileData for TLC: the constants are given in the configurations.  The   *)
(* descriptors are interchangeable.                                        *)
EXTENDS FileData, TLC

Symmetry == Permutations(Fds)
============================================================================
