SPECIFICATION FairSpec
CONSTANTS
    Threads = {t1, t2}
    Objects = {o1}
    Monitors = {m1, m2}
    NoMonitor = NoMonitor
    NoObject = NoObject
    Available = Available
    OnFreeList = OnFreeList
    EnterTimeouts = {"timed", "infinite"}
    WaitTimeouts = {"infinite"}
    Exceptions = {}
    MaxDepth = 2
    SemaphoreMax = 2
CHECK_DEADLOCK FALSE
INVARIANT HeldIsOwned
PROPERTIES ExitTerminates SomeoneEnters
