------------------------------ MODULE MCActor ------------------------------
(* The actor on small instances, for TLC.                                  *)
EXTENDS Actor
=============================================================================
