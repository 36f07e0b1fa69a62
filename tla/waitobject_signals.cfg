SPECIFICATION Spec
CONSTANTS
    Threads = {t1, t2, t3}
    NoThread = NoThread
    Types = {"semaphore", "mutex", "autoReset", "manualReset"}
    Abandonable = {"autoReset", "manualReset"}
    MaximumValue = 3
    MaxRecursion = 2
    MaxAPCs = 0
SYMMETRY Symmetry
INVARIANTS TypeOK NoLostWakeup OneOwner
