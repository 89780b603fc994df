SPECIFICATION QueueSpec
CONSTANTS
    TskLimit = 2
    PriNum = 2
    q1 = q1
    q2 = q2
    Queues <- MCOneQueue
    IpcList <- MCLists
    TaskOps = {"create", "qcreate", "qdelete", "read", "write", "mailalloc", "mailfree"}
    IsrOps = {"write"}
    Unguarded = {}
    Attrs <- MCPlain
    MaxLock = 0
    Lens = {2}
    Msgs = {a, b}
    NoMsg = NoMsg
    Forever = {FALSE}
    MailNum = 1
INVARIANTS
    SlotsAccounted
    NoSleepBesideItems
    MailConserved
    MailReturnHasBlock
PROPERTIES
    QueueRefinesAbs
SYMMETRY MCSymmetry
