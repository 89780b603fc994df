CONSTANTS
    TskLimit = 3
    PriNum = 2
    IpcList = {}
    TaskOps = {"create", "delete", "join", "detach"}
    IsrOps = {"delete"}
    Unguarded = {}
    Attrs <- MCAttrs
    MaxLock = 1
SPECIFICATION TaskSpec
INVARIANT TcbOwned
