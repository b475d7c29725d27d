\* Calls of the only Gateway Key, whose failures are counted.
CONSTANTS
    c1 = c1
    c2 = c2
    k1 = k1
    k2 = k2
    d1 = d1
    d2 = d2
    None = None
    Calls = {c1, c2}
    Keys = {k1}
    Creds = {d1}
    KeyOf <- OneKey
    SessionKeys = {}
    Plans <- OnlyFirst
    HostOf <- Alone
    NeedsVision = {}
    Searching = {}
    Unsendable = {}
    Kinds = {"other"}
    Cap = 1
    MaxReserve = 0
    MaxUse = 0
    SlotLimit = 2
    SlotQueue <- NoneWaits
    PerCandidate = 1
    TotalAttempts = 2
    OpensAt = 2
    MaxCalls = 2
    MaxFaults = 0
SPECIFICATION Spec
INVARIANTS
    OneKeyRestsShort
CHECK_DEADLOCK FALSE
