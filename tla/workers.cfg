SPECIFICATION FairSpec
CONSTANTS
    Id = s1
    Requests = {r1, r2}
    Stoppers = {c1, c2}
    Faults = {"launch", "exit", "kill", "save", "open", "corrupt"}
INVARIANTS UpReachable NothingLost
PROPERTIES ImplementsPool CloseUnblocks
CHECK_DEADLOCK FALSE
