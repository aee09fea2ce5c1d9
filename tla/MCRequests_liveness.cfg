SPECIFICATION Spec
CONSTANTS
    Sends = {s1}
    Pings = {p1}
    MaxPendingRequests = 2
    Nobody = Nobody
    Receiver = Receiver
CHECK_DEADLOCK FALSE
PROPERTIES
    DeadSessionDisposed
    DeadPeerDetected
    ImplementsContract
