---------------------------- MODULE MCPublication ----------------------------
(* Publication on small instances: the .cfg files choose the actors.       *)
EXTENDS Publication
=============================================================================
