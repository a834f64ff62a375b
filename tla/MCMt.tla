-------------------------------- MODULE MCMt --------------------------------
(* Instances of MtPipeline for TLC. *)
EXTENDS MtPipeline, PipelineProps
=============================================================================
