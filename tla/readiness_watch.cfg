SPECIFICATION Spec
CONSTANTS
    Opener = opener
    Analyzers = {}
    Waiters = {}
    Listers = {}
    Faults = {}
    SkipAnalysis = {FALSE}
    AnalyzeEarly = FALSE
    Watching = TRUE
    Closing = FALSE
INVARIANTS GateSound
CHECK_DEADLOCK FALSE
