SPECIFICATION FairSpec
CONSTANTS
    Main = main
    Finalizer = finalizer
    Internal = {i1}
    Started = {i1}
    Foreign = {f1}
    Targets = {i1}
    Waiters = {i1, f1}
    NoData = NoData
    MaxStatics = 1
    MaxAPCs = 1
CHECK_DEADLOCK FALSE
INVARIANTS TypeOK StaticsAreAllocated AttachedExactly InterruptPending
PROPERTY AbortAllEnds
