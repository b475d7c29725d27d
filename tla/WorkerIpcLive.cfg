\* One run with a permission and its Worker's end, under fairness, with every kind of descendant
\* outside the process group.
CONSTANTS
    MaxRuns = 1
    MaxEvents = 0
    MaxSpawns = 1
    Leaving = {"owned", "linked"}
    InitTimer = FALSE
SPECIFICATION FairSpec
INVARIANTS
    CleanupProven
PROPERTIES
    RunSettles
CHECK_DEADLOCK FALSE
