CONSTANTS
    TskLimit = 2
    PriNum = 2
    IpcList = {}
    TaskOps = {"create", "yield", "delay", "delete"}
    IsrOps = {}
    Unguarded = {}
    Attrs <- MCPlain
    MaxLock = 1
SPECIFICATION StopFairSpec
INVARIANT StopsWhenDone
PROPERTIES RoundRobin DelayEnds StopComes
CHECK_DEADLOCK FALSE
