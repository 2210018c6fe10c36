SPECIFICATION Spec
CONSTANTS
    Events = {v1}
    Handlers = {h1, h2}
    Tiers = 1
    MaxLosses = 2
    Operators = {o1, o2}
    Plan <- MCPlan
    Files <- MCFiles
    Expected <- MCExpected
    Collections <- MCCollections
    Idempotent = {"events"}
    Linked = {"core"}
    Modules = {m1, m2, m3}
SYMMETRY Symmetric
CONSTRAINT Bound
INVARIANTS
    TypeOK
    AcceptedIsAccounted
    MigrationsSound
    DependenciesFirst
CHECK_DEADLOCK FALSE
