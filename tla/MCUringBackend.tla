--------------------------- MODULE MCUringBackend ---------------------------
(* UringBackend for TLC: the reads are interchangeable, and so are the frames. *)
EXTENDS UringBackend, TLC

Symmetry == Permutations(Requests) \cup Permutations(Frames)
=============================================================================
