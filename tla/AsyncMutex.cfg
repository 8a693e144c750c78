SPECIFICATION Spec
CONSTANT MaxCalls = 5
INVARIANT
    MutualExclusion
PROPERTIES
    IsFifoLock
    EveryCallRuns
CHECK_DEADLOCK FALSE
