--------------------------- MODULE MCOrchestrator ---------------------------
(***************************************************************************)
(* Orchestrator on small instances.  No symmetry: the properties are       *)
(* liveness properties too.                                                *)
(***************************************************************************)
EXTENDS Orchestrator
=============================================================================
