\* Stock under concurrent, failing requests: two locations, two goroutines.
SPECIFICATION Spec
CONSTANTS
    k1 = k1
    k2 = k2
    r1 = r1
    r2 = r2
    w1 = w1
    w2 = w2
    Locations <- TwoLocations
    Reservations <- TwoReservations
    Workers <- TwoWorkers
    Amounts = {1}
    Levels = {0, 3}
    Limits = {1}
    Quantities <- SmallQuantities
    InitialStock = 1
    MaxRequests = 3
    MaxFaults = 1
SYMMETRY WorkerSymmetry
INVARIANTS
    TypeOK
    BelowZeroIsBackordered
    UnitsConserved
CHECK_DEADLOCK FALSE
