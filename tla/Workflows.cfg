CONSTANTS
    Workflows = {w1}
    N = 3
    Planner = Planner
    MaxStarts = 1
    MaxFaults = 1
SPECIFICATION FairSpec
INVARIANTS
    StepsInOrder
    RunsAdopted
    RecordTruthful
    SessionsReleased
PROPERTIES
    StartsWhileWanted
    ResultFinal
    PlanSettles
CHECK_DEADLOCK FALSE
