SPECIFICATION Spec
CONSTANTS
    n1 = n1  n2 = n2  n3 = n3  u1 = u1  u2 = u2
    Nodes = {n1, n2, n3}
    Users = {u1, u2}
    Ingress <- MCIngress
    Failovers <- MCFailovers
    Order <- MCOrder
    None = None
    Settle = 2
    Pause = 1
    Slow = 1
    Limit = 3
    Activation = 1
    MaxDeaths = 1
INVARIANTS SettledEvidence OneClientPerIdentity RunLeavesNothing RefusalEndsRun
PROPERTIES RunEnds
CHECK_DEADLOCK FALSE
