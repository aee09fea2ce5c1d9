SPECIFICATION Spec
CONSTANTS
    Sends = {s1}
    Pings = {p1}
    MaxPendingRequests = 1
    Nobody = Nobody
    Receiver = Receiver
CHECK_DEADLOCK FALSE
INVARIANTS
    OverloadSparesHeartbeat
