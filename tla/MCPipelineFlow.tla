---------------------------- MODULE MCPipelineFlow ----------------------------
(* Instances of PipelineFlow for TLC. *)
EXTENDS PipelineFlow
===============================================================================
