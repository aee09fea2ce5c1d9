SPECIFICATION Spec
CONSTANTS
    Callers = {c1, c2}
    MaxReconnectAttempts = 2
    AutoReconnect = TRUE
    MaxReady = 3
CHECK_DEADLOCK FALSE
INVARIANTS
    NoOrphan
    NoStaleSuccess
    ConnectedOnlyWhileLive
    NoTaskOutlivesSession
    RetryBudget
    StoppedRunStaysStopped
PROPERTIES
    CallsReturn
    ImplementsLifecycle
    ImplementsSession
