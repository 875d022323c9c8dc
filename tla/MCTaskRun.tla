----------------------------- MODULE MCTaskRun -----------------------------
(***************************************************************************)
(* TaskRun on small instances.  No symmetry: the properties are liveness   *)
(* properties too.                                                         *)
(***************************************************************************)
EXTENDS TaskRun
=============================================================================
