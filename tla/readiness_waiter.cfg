SPECIFICATION FairSpec
CONSTANTS
    Opener = opener
    Analyzers = {}
    Waiters = {w1}
    Listers = {}
    Faults = {}
    SkipAnalysis = {FALSE}
    AnalyzeEarly = FALSE
    Watching = FALSE
    Closing = FALSE
PROPERTIES WaiterServed
CHECK_DEADLOCK FALSE
