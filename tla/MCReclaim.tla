----------------------------- MODULE MCReclaim -----------------------------
(* Reclaim on small instances: the .cfg files choose the actors.           *)
EXTENDS Reclaim
=============================================================================
