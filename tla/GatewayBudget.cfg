\* Calls of one Gateway Key with a budget: reservations and usage of different sizes.
CONSTANTS
    c1 = c1
    c2 = c2
    k1 = k1
    k2 = k2
    d1 = d1
    d2 = d2
    None = None
    Calls = {c1, c2}
    Keys = {k1}
    Creds = {d1}
    KeyOf <- OneKey
    SessionKeys = {}
    Plans <- OnlyFirst
    HostOf <- Alone
    NeedsVision = {}
    Searching = {}
    Unsendable = {}
    Kinds = {"request"}
    Cap = 2
    MaxReserve = 2
    MaxUse = 3
    SlotLimit = 2
    SlotQueue <- NoneWaits
    PerCandidate = 0
    TotalAttempts = 2
    OpensAt = 2
    MaxCalls = 3
    MaxFaults = 1
SPECIFICATION Spec
INVARIANTS
    BudgetHeld
CHECK_DEADLOCK FALSE
