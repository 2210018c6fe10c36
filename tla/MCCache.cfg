\* Two processes, two goroutines in one of them, an L2 that outlives L1.
SPECIFICATION FairSpec
CONSTANTS
    p1 = p1
    p2 = p2
    w1 = w1
    w2 = w2
    w3 = w3
    Processes <- TwoProcesses
    Workers <- ThreeWorkers
    Owner <- TwoAndOne
    L1TTL = 1
    TTL = 2
    Jitter = 1
    MaxHold = 1
    MaxUpdates = 1
    MaxFaults = 1
INVARIANTS
    TypeOK
    BoundedStaleness
PROPERTIES
    CallsReturn
