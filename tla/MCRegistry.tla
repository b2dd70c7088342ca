------------------------------ MODULE MCRegistry ------------------------------
(* Small instances of Registry. *)
EXTENDS Registry, TLC

InodeSymmetry == Permutations(Inode)
Symmetry == Permutations(Locked) \cup InodeSymmetry
=============================================================================
