CONSTANTS
    TskLimit = 1
    PriNum = 2
    IpcList = {}
    TaskOps = {"create", "suspend"}
    IsrOps = {"resume"}
    Unguarded = {"isr_resumes_running"}
    Attrs <- MCPlain
    MaxLock = 0
SPECIFICATION TaskSpec
INVARIANT NoFault
