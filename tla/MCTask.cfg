CONSTANTS
    TskLimit = 2
    PriNum = 3
    IpcList = {}
    TaskOps = {"create", "resume", "suspend", "delete", "yield", "delay", "lock", "priset"}
    IsrOps = {"suspend", "resume", "delete"}
    Unguarded = {}
    Attrs <- MCPlain
    MaxLock = 1
SPECIFICATION TaskSpec
INVARIANTS TaskTypeOK NoFault SchedConsistent NoTaskLost BlockedLeaves TopPriorityRuns
PROPERTY YieldGivesWay
