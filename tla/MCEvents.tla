------------------------------ MODULE MCEvents ------------------------------
(* Events on small instances: the .cfg files give the constants, with the  *)
(* messages and the listeners as model values.                             *)
EXTENDS Events, TLC
=============================================================================
