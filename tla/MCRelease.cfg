SPECIFICATION Spec
CONSTANTS
    c1 = c1  c2 = c2  c3 = c3  v1 = v1
    Commits = {c1, c2, c3}
    Versions = {v1}
    Files = {f1, f2}
    Version <- MCVersion
    Releasable = {c1, c2}
    OnMain = {c1, c3}
    None = None
    Wait = 3
    Pause = 2
    Slow = 1
    MaxRuns = 3
INVARIANTS AnnouncedIsPublic
PROPERTIES WaitUsesItsTime RunEnds
CHECK_DEADLOCK FALSE
