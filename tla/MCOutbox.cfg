\* The outbox: two processes, two events, one handler goroutine, one failure.
SPECIFICATION FairSpec
CONSTANTS
    p1 = p1
    p2 = p2
    g1 = g1
    g2 = g2
    Relays <- TwoProcesses
    Goroutines <- OneGoroutine
    NumEvents = 2
    BatchSize = 2
    MaxRetries = 2
    MaxFaults = 1
INVARIANTS
    TypeOK
    NothingVanishes
    UnmarkedIsInHand
PROPERTIES
    EventuallyPublished
    DeliversAtLeastOnce
CHECK_DEADLOCK FALSE
