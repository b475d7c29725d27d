\* One ACP run on the shared model gateway under fairness, with a permission, declared outputs
\* and a crash; its engine may never answer.
CONSTANTS
    Sessions = {s1}
    Runs = {r1}
    Perms = {p1}
    Artifacts = {}
    Keys = {}
    Hashes = {h1}
    Options = {o1}
    BackendIds = {}
    None = None
    DriverOf <- AllAcp
    EngineOf <- OneEngine
    Resumable = {s1}
    Routed = {s1}
    WithOutputs = {r1}
    MaxConcurrency = 1
    MaxPerEngine = 1
    MaxQueuedRuns = 2
    MaxWorkers = 2
    MaxMessages = 2
    MaxCrashes = 1
SPECIFICATION FairSpec
INVARIANTS
    OpenPermissionLive
PROPERTIES
    EveryRunEnds
    ClosingEnds
CHECK_DEADLOCK FALSE
