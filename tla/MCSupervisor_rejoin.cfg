SPECIFICATION Spec
CONSTANTS
    Callers = {c1, c2}
    MaxReconnectAttempts = 1
    AutoReconnect = TRUE
    MaxReady = 3
CHECK_DEADLOCK FALSE
PROPERTIES
    ConnectAuthenticates
