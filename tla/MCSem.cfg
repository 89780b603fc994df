SPECIFICATION SemSpec
CONSTANTS
    TskLimit = 2
    PriNum = 2
    IpcList = {s1}
    TaskOps = {"create", "delete", "semcreate", "semdelete", "sempend", "sempost"}
    IsrOps = {"suspend", "resume", "sempost"}
    Unguarded = {}
    Attrs <- MCPlain
    MaxLock = 0
    MaxCounts = {1, 2}
INVARIANTS
    SemTypeOK
    NoWaitBesideTokens
    WaitersInPend
PROPERTIES
    SemRefinesAbs
