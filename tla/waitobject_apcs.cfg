SPECIFICATION FairSpec
CONSTANTS
    Threads = {t1, t2}
    NoThread = NoThread
    Types = {"semaphore", "mutex"}
    Abandonable = {"mutex"}
    MaximumValue = 2
    MaxRecursion = 2
    MaxAPCs = 1
INVARIANTS NoMissedAPC
PROPERTIES SignalReachesSleepers APCIsHandled
