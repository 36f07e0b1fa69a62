SPECIFICATION Spec
CONSTANTS
    Threads = {t1, t2}
    Objects = {o1}
    Monitors = {m1, m2}
    NoMonitor = NoMonitor
    NoObject = NoObject
    Available = Available
    OnFreeList = OnFreeList
    EnterTimeouts = {"infinite"}
    WaitTimeouts = {"infinite"}
    Exceptions = {"interrupt"}
    MaxDepth = 1
    SemaphoreMax = 2
CHECK_DEADLOCK FALSE
SYMMETRY Symmetry
PROPERTY WaitReturnsLocked
