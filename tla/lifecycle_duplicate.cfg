SPECIFICATION Spec
CONSTANTS
    None = None
    Ids = {i1, i2}
    Paths = {p, q}
    Calls = {c1, c2}
    MaxSessions = 2
    Faults = {}
    WatchdogRuns = FALSE
    MaxCrashes = 0
INVARIANTS OneSessionPerBinary
CHECK_DEADLOCK FALSE
