\* Two runs of one resumable ACP Session on the shared model gateway that publish an artifact or
\* declare outputs, a crash at any point and start-up recovery.
CONSTANTS
    Sessions = {s1}
    Runs = {r1, r2}
    Perms = {}
    Artifacts = {a1}
    Keys = {}
    Hashes = {h1}
    Options = {}
    BackendIds = {b1, b2}
    None = None
    DriverOf <- AllAcp
    EngineOf <- OneEngine
    Resumable = {s1}
    Routed = {s1}
    WithOutputs = {r1, r2}
    MaxConcurrency = 1
    MaxPerEngine = 1
    MaxQueuedRuns = 2
    MaxWorkers = 2
    MaxMessages = 1
    MaxCrashes = 1
SPECIFICATION Spec
SYMMETRY Alike
INVARIANTS
    NoLostRun
    ClosedSessionQuiet
    TypeOK
    DeadlineHeld
    AcceptedOrder
    SuspendedIdle
PROPERTIES
    FirstStopWins
    NoArtifactAfterStop
    ImplementsLifecycle
CHECK_DEADLOCK FALSE
