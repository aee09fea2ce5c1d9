SPECIFICATION Spec
CONSTANTS
    Sends = {s1, s2}
    Pings = {p1}
    MaxPendingRequests = 2
    Nobody = Nobody
    Receiver = Receiver
CHECK_DEADLOCK FALSE
SYMMETRY Symmetry
INVARIANTS
    CapacityConserved
    OneWriter
    SuccessIsAnswered
PROPERTIES
    ImplementsSession
