SPECIFICATION Spec
CONSTANTS
    Clients = {csharp}
    Invalid = {invalid}
    Proxies = {csharp, invalid}
    Handlers = {1, 2}
    MaxLosses = 1
INVARIANTS ClosedRelayIsQuiet RunLeavesNothing
PROPERTIES CasesAreTrue CleanupEnds
CHECK_DEADLOCK FALSE
