\* The instance of Gateway.cfg, with a call more.
CONSTANTS
    c1 = c1
    c2 = c2
    k1 = k1
    k2 = k2
    d1 = d1
    d2 = d2
    None = None
    Calls = {c1, c2}
    Keys = {k1, k2}
    Creds = {d1, d2}
    KeyOf <- OneEach
    SessionKeys = {k2}
    Plans <- FirstThenSecond
    HostOf <- Apart
    NeedsVision = {d1}
    Searching = {d1}
    Unsendable = {d1}
    Kinds = {"other", "auth"}
    Cap = 1
    MaxReserve = 0
    MaxUse = 0
    SlotLimit = 1
    SlotQueue <- QueueAtFirst
    PerCandidate = 1
    TotalAttempts = 2
    OpensAt = 2
    MaxCalls = 3
    MaxFaults = 1
SPECIFICATION Spec
INVARIANTS
    LimitKept
CHECK_DEADLOCK FALSE
