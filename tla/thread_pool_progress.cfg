SPECIFICATION FairSpec
CONSTANTS
    Workers = {w1}
    Requesters = {r1}
    Monitor = monitor
    MaxOutstanding = 1
    CpuCount = 1
    MaxLimit = 2
    MaxPerSecond = 1
    MaxTries = 2
    MaxFaults = 1
PROPERTIES RequestsAreServed ShutdownEnds
