\* Safety of the checkout: one order, two goroutines at a time, a crash.
SPECIFICATION Spec
CONSTANTS
    o1 = o1
    w1 = w1
    w2 = w2
    w3 = w3
    None = None
    Orders <- OneOrder
    Workers <- TwoWorkers
    IntentStatuses <- PendingOrSucceeded
    MaxRetries = 2
    MaxRequests = 5
    MaxFaults = 2
    MaxCrashes = 1
SYMMETRY WorkerSymmetry
INVARIANTS
    TypeOK
    PaidMeansCaptured
    NoStepSkipped
    RefundsAreBacked
    AutoRefundFollowsCancel
    PaymentNotForgotten
    CancelledMoneyAccounted
PROPERTIES
    KeepsSale
CHECK_DEADLOCK FALSE
