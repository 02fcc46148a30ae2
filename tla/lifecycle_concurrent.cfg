SPECIFICATION Spec
CONSTANTS
    None = None
    Ids = {i1, i2}
    Paths = {p}
    Calls = {c1, c2}
    MaxSessions = 2
    Faults = {"save", "kill", "remove"}
    WatchdogRuns = TRUE
    MaxCrashes = 1
SYMMETRY AllSymmetry
CONSTRAINT FewMissed
INVARIANTS RecordsOwned WorkersOwned CloseRemoves TierSettles
PROPERTIES CloseIsFinal
CHECK_DEADLOCK FALSE
