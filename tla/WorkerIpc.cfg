\* Two runs of one Worker, each with an event and a permission: the protocol from one run to the next.
CONSTANTS
    MaxRuns = 2
    MaxEvents = 1
    MaxSpawns = 1
    Leaving = {"owned"}
    InitTimer = TRUE
SPECIFICATION Spec
INVARIANTS
    InStep
    NothingLost
    PendingOwned
PROPERTIES
    KeepsPromise
CHECK_DEADLOCK FALSE
