SPECIFICATION Spec
CONSTANTS
    Opener = opener
    Analyzers = {a1}
    Waiters = {w1}
    Listers = {l1}
    Faults = {"open", "plan", "exit"}
    SkipAnalysis = {TRUE, FALSE}
    AnalyzeEarly = TRUE
    Watching = TRUE
    Closing = TRUE
INVARIANTS OnePass GuardHeld GateSoundUndisturbed Rests LeftoversExcused
PROPERTIES StageAdvances
CHECK_DEADLOCK FALSE
