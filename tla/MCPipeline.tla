----------------------------- MODULE MCPipeline -----------------------------
(* Instances of Pipeline for TLC. *)
EXTENDS PipelineProps, TLC

Symmetry == Permutations(Threads)
=============================================================================
