CONSTANTS
    TaskNum = 2
    Prio <- MCPrio
    WaitTicks = {0, 1, 2}
    MaxLock = 1
    Ops = {"delay", "pend", "yield", "wake", "lock"}
    g_schedTimeSlice = 16
    g_schedTimeSliceMin = 1
    g_schedTickMinPeriod = 4
    g_tickResponsePrecision = 3
    OS_CYCLE_PER_TICK = 8
    periodMax = 40
    Word = 64
    OS_SCHED_MAX_RESPONSE_TIME = 10000
SPECIFICATION Spec
INVARIANTS ClockForward ResponseIsRunners LateByOneTick ResponseCoversLink
