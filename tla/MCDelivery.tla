----------------------------- MODULE MCDelivery -----------------------------
(***************************************************************************)
(* Delivery on small instances.  Tasks are interchangeable; files are not, *)
(* since their extensions decide the risk.                                 *)
(***************************************************************************)
EXTENDS Delivery, TLC

Interchangeable == Permutations(Task)
=============================================================================
