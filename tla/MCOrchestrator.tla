--------------------------- MODULE MCOrchestrator ---------------------------
(* Orchestrator, and replay beside it, on small instances.                 *)
EXTENDS Replay

PlanOrRun == AllModes
=============================================================================
