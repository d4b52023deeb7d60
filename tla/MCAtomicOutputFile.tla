------------------------- MODULE MCAtomicOutputFile -------------------------
(* Instances of AtomicOutputFile for TLC. *)
EXTENDS AtomicOutputFile, TLC

Symmetry == Permutations(Writers)
=============================================================================
