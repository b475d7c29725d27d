\* Two Sessions and two runs; at most four events are stored before the last call.
CONSTANTS
    Sessions = {s1, s2}
    Runs = {r1, r2}
    Perms = {p1, p2}
    Artifacts = {a1}
    Keys = {k1}
    Hashes = {h1}
    Options = {o1, o2}
    BackendIds = {b1, b2}
    None = None
    MaxEvents = 4
    MaxSource = 2
SPECIFICATION Spec
SYMMETRY Symmetry
INVARIANTS
    TypeOK
    EventsNumbered
    TerminalEventLast
    NoOpenPermissionAfterEnd
    SourceRecordedOnce
    GenerationsUnique
    KeyNamesOneRun
PROPERTIES
    FinalStands
CHECK_DEADLOCK FALSE
