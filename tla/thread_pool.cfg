SPECIFICATION Spec
CONSTANTS
    Workers = {w1, w2}
    Requesters = {r1, r2}
    Monitor = monitor
    MaxOutstanding = 2
    CpuCount = 2
    MaxLimit = 2
    MaxPerSecond = 1
    MaxTries = 1
    MaxFaults = 0
SYMMETRY Symmetry
INVARIANTS TypeOK CountersExact OneMonitor MonitorWatches NoSleeperLeft
