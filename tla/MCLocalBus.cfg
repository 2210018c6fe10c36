\* The event bus: two events, two handlers, two calls of Close, a channel of one.
SPECIFICATION FairSpec
CONSTANTS
    e1 = e1
    e2 = e2
    h1 = h1
    h2 = h2
    c1 = c1
    c2 = c2
    Events <- TwoEvents
    Handlers <- TwoHandlers
    Closers <- TwoClosers
    MaxRetries = 2
    DLQSize = 1
INVARIANTS
    TypeOK
PROPERTIES
    ShutsDownInOrder
    CloseReturns
    KeepsPromise
CHECK_DEADLOCK FALSE
