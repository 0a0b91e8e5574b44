------------------------------ MODULE MCHistory ------------------------------
(* Small instances of the invoice pipeline with its history. *)
EXTENDS MCPipeline, PipelineHistory
=============================================================================
