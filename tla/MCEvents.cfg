SPECIFICATION Spec
CONSTANTS
    Messages = {m1}
    Listeners = {l1, l2}
    Observed = {"connected", "disconnected", "sendack"}
    MaxQueuedEvents = 2
    MaxSessions = 2
CHECK_DEADLOCK FALSE
INVARIANTS
    OverflowNotAcked
    SessionsInOrder
    ExactlyOnce
    NoCallbackAfterDisposal
PROPERTIES
    QueuedIsHandled
    DisposeCompletes
    ImplementsSession
