----------------------------- MODULE MCCluster -----------------------------
EXTENDS Cluster
CONSTANTS n1, n2, n3, u1, u2

MCIngress == [u \in Users |-> CASE u = u1 -> n1 [] OTHER -> n2]
MCFailovers == <<<<u1, n3>>, <<u2, n1>>>>
MCOrder == <<u1, u2>>
=============================================================================
