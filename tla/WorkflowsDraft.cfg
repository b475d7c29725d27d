\* A crash while a draft is being approved.
CONSTANTS
    Workflows = {w1}
    N = 2
    Planner = Planner
    MaxStarts = 1
    MaxFaults = 0
SPECIFICATION Spec
INVARIANTS
    DraftKept
CHECK_DEADLOCK FALSE
