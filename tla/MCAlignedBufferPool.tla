------------------------ MODULE MCAlignedBufferPool -------------------------
(* Instances of AlignedBufferPool for TLC. *)
EXTENDS AlignedBufferPool, TLC

Symmetry == Permutations(Threads)
=============================================================================
