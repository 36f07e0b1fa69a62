SPECIFICATION Spec
CONSTANTS
    Threads = {t1, t2}
    Objects = {o1, o2}
    Monitors = {m1, m2, m3}
    NoMonitor = NoMonitor
    NoObject = NoObject
    Available = Available
    OnFreeList = OnFreeList
    EnterTimeouts = {"zero", "infinite"}
    WaitTimeouts = {"timed", "zero"}
    Exceptions = {}
    MaxDepth = 1
    SemaphoreMax = 2
CHECK_DEADLOCK FALSE
SYMMETRY Symmetry
INVARIANTS TypeOK MutualExclusion HeldIsOwned RecyclingIsSafe
PROPERTY AcquiredIsInstalled
