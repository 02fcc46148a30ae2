SPECIFICATION Spec
CONSTANTS
    s1 = s1
    s2 = s2
    c1 = c1
    c2 = c2
    Sessions <- MCSessions
    Callers = {c1, c2}
    ToolsOf <- MCToolsOf
    Pager = c1
    enablePyEval = TRUE
    defaultPageLimit = 2
    maxPageLimit = 3
    defaultMaxOutputChars = 2
    MaxInt = 9
    MaxOutputs = 3
    maxCacheEntries = 2
    cacheEntryTTL = 1
    MaxTime = 2
    Lengths = {1, 4}
    Limits <- MCLimits
    Offsets <- MCOffsets
INVARIANTS SchemaGuards RefusedUntouched FailuresTold NoOrphans NotesKept CachesClosed TierTools EntriesKept PagesInBounds PagesReassemble
CONSTRAINT Bounded
ACTION_CONSTRAINT RepliesFirst
CHECK_DEADLOCK FALSE
