SPECIFICATION EventSpec
CONSTANTS
    TskLimit = 2
    PriNum = 2
    IpcList = {e1}
    TaskOps = {"create", "evinit", "evdestroy", "evread", "evwrite", "delete", "evclear"}
    IsrOps = {"evwrite", "suspend"}
    Unguarded = {}
    Attrs <- MCPlain
    MaxLock = 0
    b1 = b1
    b2 = b2
    Bits <- MCBits
    Reads <- MCReads
INVARIANTS
    
    ReadersInRead
PROPERTIES
    ReaderLeaves
