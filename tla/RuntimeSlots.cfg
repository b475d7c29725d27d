\* Two CLI Sessions of one engine and two runs: queueing, limits, Worker capacity, and turns
\* that give their Worker back.
CONSTANTS
    Sessions = {s1, s2}
    Runs = {r1, r2}
    Perms = {}
    Artifacts = {}
    Keys = {}
    Hashes = {h1}
    Options = {}
    BackendIds = {}
    None = None
    DriverOf <- AllCli
    EngineOf <- OneEngine
    Resumable = {}
    Routed = {}
    WithOutputs = {}
    MaxConcurrency = 2
    MaxPerEngine = 1
    MaxQueuedRuns = 2
    MaxWorkers = 1
    MaxMessages = 0
    MaxCrashes = 0
SPECIFICATION Spec
SYMMETRY Alike
INVARIANTS
    SlotLimits
    CleanupTruthful
    QueueServed
CHECK_DEADLOCK FALSE
