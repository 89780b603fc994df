CONSTANTS
    TskLimit = 2
    PriNum = 3
    IpcList = {m1, m2}
    TaskOps = {"create", "delete", "muxcreate", "muxdelete", "muxpend", "muxpost"}
    IsrOps = {}
    Unguarded = {}
    Attrs <- MCPlain
    MaxLock = 0
    MaxNest = 2
    NoTask = NoTask
SPECIFICATION MuxSpec
SYMMETRY MCSym
INVARIANTS PendMakesOwner NoWaitForFree PriorityRestored
