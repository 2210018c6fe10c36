\* A refund that took effect but was reported as failed, and its retry.
SPECIFICATION Spec
CONSTANTS
    o1 = o1
    w1 = w1
    w2 = w2
    w3 = w3
    None = None
    Orders <- OneOrder
    Workers <- OneWorker
    IntentStatuses <- PendingOrSucceeded
    MaxRetries = 2
    MaxRequests = 4
    MaxFaults = 1
    MaxCrashes = 0
INVARIANT
    NoDoubleRefund
CHECK_DEADLOCK FALSE
