-------------------------- MODULE MCPipelineSetup --------------------------
(* PipelineSetup for TLC: instrumented pipelines are interchangeable, and  *)
(* so are executors.                                                       *)
EXTENDS StageChecksum

Symmetry == Permutations(Instrumented) \cup Permutations(Executors)
=============================================================================
