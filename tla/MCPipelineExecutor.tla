------------------------- MODULE MCPipelineExecutor -------------------------
(* Instances of PipelineExecutor for TLC. *)
EXTENDS PipelineExecutor, TLC

(* The buffers of the pool are interchangeable. *)
Symmetry == Permutations(Buffers)
=============================================================================
