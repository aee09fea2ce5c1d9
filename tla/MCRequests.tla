----------------------------- MODULE MCRequests -----------------------------
(* Requests on small instances.  Sends are interchangeable, and so are     *)
(* pings; the symmetry is used in runs without liveness only.              *)
EXTENDS Requests, TLC

Symmetry == Permutations(Sends) \cup Permutations(Pings)
=============================================================================
