----------------------------- MODULE MCMetrics -----------------------------
(* Metrics for TLC: the threads are interchangeable; the samples are the   *)
(* two bounds and one above them.                                          *)
EXTENDS Metrics, TLC

Bounds == <<0, 2>>
Symmetry == Permutations(Threads)
=============================================================================
