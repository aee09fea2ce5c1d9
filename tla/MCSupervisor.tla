---------------------------- MODULE MCSupervisor ----------------------------
(* Supervisor on small instances: the .cfg files give the constants, with  *)
(* the callers as model values.                                            *)
EXTENDS Supervisor, TLC
=============================================================================
