SPECIFICATION Spec
CONSTANTS
    Messages = {m1}
    Listeners = {l1}
    Observed = {"connected"}
    MaxQueuedEvents = 2
    MaxSessions = 1
CHECK_DEADLOCK FALSE
INVARIANTS
    AckMeansAdmission
