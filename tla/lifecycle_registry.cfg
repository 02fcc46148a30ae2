SPECIFICATION Spec
CONSTANTS
    None = None
    Ids = {i1, i2, i3}
    Paths = {p, q}
    Calls = {c1, c2}
    MaxSessions = 2
    Faults = {}
    WatchdogRuns = FALSE
    MaxCrashes = 1
SYMMETRY AllSymmetry
INVARIANTS IndexSound SessionFound WithinLimit SessionsPersisted
PROPERTIES ImplementsPool
CHECK_DEADLOCK FALSE
