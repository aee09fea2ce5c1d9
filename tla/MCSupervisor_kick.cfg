SPECIFICATION Spec
CONSTANTS
    Callers = {c1}
    MaxReconnectAttempts = 1
    AutoReconnect = TRUE
    MaxReady = 2
CHECK_DEADLOCK FALSE
INVARIANTS
    KickStopsRetry
