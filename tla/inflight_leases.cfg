SPECIFICATION FairSpec
CONSTANTS
    Calls = {c1, c2}
    Jobs = {j1}
    Opener = opener
    Timeout = 2
INVARIANTS LeasesCounted
PROPERTIES IdleBeforeStop Reclaimed
CHECK_DEADLOCK FALSE
