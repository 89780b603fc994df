CONSTANTS
    Threads = {t0, t1, t2, t3}
    Main = t0
    NoThread = NoThread
    TaskNum = 3
    THREAD_NUMBER = 3
    Calls = {"schedule"}
    MaxFrames = 2
SPECIFICATION Spec
INVARIANT OnlyOneRunner
