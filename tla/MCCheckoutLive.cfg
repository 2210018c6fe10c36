\* Liveness of the checkout: fair goroutines, no crash, no symmetry.
SPECIFICATION FairSpec
CONSTANTS
    o1 = o1
    w1 = w1
    w2 = w2
    w3 = w3
    None = None
    Orders <- OneOrder
    Workers <- TwoWorkers
    IntentStatuses <- PendingOrSucceeded
    MaxRetries = 2
    MaxRequests = 3
    MaxFaults = 1
    MaxCrashes = 1
PROPERTIES
    Quiesces
    PaymentReachesOrder
CHECK_DEADLOCK FALSE
