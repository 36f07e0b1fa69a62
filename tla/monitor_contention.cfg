SPECIFICATION Spec
CONSTANTS
    Threads = {t1, t2, t3}
    Objects = {o1}
    Monitors = {m1, m2}
    NoMonitor = NoMonitor
    NoObject = NoObject
    Available = Available
    OnFreeList = OnFreeList
    EnterTimeouts = {"timed"}
    WaitTimeouts = {"infinite"}
    Exceptions = {}
    MaxDepth = 1
    SemaphoreMax = 2
CHECK_DEADLOCK FALSE
SYMMETRY Symmetry
INVARIANTS NoLostWakeup WaitersCanBePulsed
PROPERTY ImplementsPromise
