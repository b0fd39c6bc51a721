\* The user's tools on two names and two spaces, the expirer between the
\* tools, and one kill or failed write; do they implement WsLife?
SPECIFICATION Spec
SYMMETRY Symmetry
\* The bounds on time, calls and faults stop the system.
CHECK_DEADLOCK FALSE
CONSTANTS
    i1 = i1
    i2 = i2
    s1 = s1
    s2 = s2
    p1 = p1
    p2 = p2
    d1 = d1
    d2 = d2
    Ids = {i1, i2}
    Spaces = {s1, s2}
    Procs = {p1}
    Data = {d1}
    Ops = {"allocate", "extend", "release", "wipe", "restore"}
    Durations = {0, 1}
    MaxTime = 3
    MaxExt = 1
    MaxCalls = 3
    MaxFaults = 1
    KeepTime = 1
    Grace = 0
    Quiet = TRUE
    None = None
    Empty = Empty
    Unwritten = Unwritten
    Gone = Gone
    Stray = Stray
    Broken = Broken
INVARIANTS
    TypeOK
    EntryHasDir
PROPERTIES
    RestorableUntilDue
    LifeImplemented
