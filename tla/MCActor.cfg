SPECIFICATION Spec
CONSTANTS
    Commands = {c1}
    Exit = exit
    Waiters = {w1}
    Kinds = {"message"}
    MaxEvents = 2
    Pipe = 1
CHECK_DEADLOCK FALSE
INVARIANTS
    RepliesMatch
    FailureOnlyWithoutMatch
    EndReachesAll
    ClosedLeavesNothing
PROPERTIES
    EndIsTold
