---------------------------- MODULE MCBatchPipeline ----------------------------
(* Two coordinators of one batch identity, after an interrupted run.       *)
EXTENDS BatchPipeline

CONSTANTS a, b

MCCoordinators == {a, b}
=============================================================================
