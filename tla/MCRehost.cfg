CONSTANTS
    Threads = {t0, t1, t2, t3}
    Main = t0
    NoThread = NoThread
    TaskNum = 4
    THREAD_NUMBER = 3
    Calls = {"schedule", "exit", "delete"}
    MaxFrames = 3
SPECIFICATION FairSpec
CONSTRAINT ToFirstHurt
INVARIANTS OneRunnerUnhurt RunnerIsRunTask LeavesByOwnSlot AssertsHold
PROPERTY SwitchCompletes
