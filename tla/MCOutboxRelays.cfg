\* Two relays and no failure: do they share a record?
SPECIFICATION Spec
CONSTANTS
    p1 = p1
    p2 = p2
    g1 = g1
    g2 = g2
    Relays <- TwoProcesses
    Goroutines <- TwoGoroutines
    NumEvents = 2
    BatchSize = 2
    MaxRetries = 2
    MaxFaults = 0
INVARIANTS
    BatchesDisjoint
CHECK_DEADLOCK FALSE
