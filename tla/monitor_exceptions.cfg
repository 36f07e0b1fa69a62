SPECIFICATION Spec
CONSTANTS
    Threads = {t1, t2, t3}
    Objects = {o1}
    Monitors = {m1, m2}
    NoMonitor = NoMonitor
    NoObject = NoObject
    Available = Available
    OnFreeList = OnFreeList
    EnterTimeouts = {"infinite"}
    WaitTimeouts = {}
    Exceptions = {"interrupt", "abort"}
    MaxDepth = 1
    SemaphoreMax = 2
CHECK_DEADLOCK FALSE
SYMMETRY Symmetry
INVARIANTS RecyclingIsSafe NoLostWakeup
