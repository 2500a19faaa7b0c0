----------------------------- MODULE PipelineRunMC -----------------------------
(* Small instances of PipelineRun. *)
EXTENDS PipelineRun

CONSTANTS e1, e2
================================================================================
