\* A tool and the expirer interleave, and one of them is killed.
\* Fairness, for the liveness property.
SPECIFICATION FairSpec

\* The bounds on time, calls and faults stop the system.
CHECK_DEADLOCK FALSE
CONSTANTS
    i1 = i1
    i2 = i2
    s1 = s1
    s2 = s2
    p1 = p1
    p2 = p2
    d1 = d1
    d2 = d2
    Ids = {i1}
    Spaces = {s1}
    Procs = {p1}
    Data = {d1}
    Ops = {"allocate", "extend", "release", "wipe", "restore", "admin"}
    Durations = {0}
    MaxTime = 3
    MaxExt = 1
    MaxCalls = 2
    MaxFaults = 1
    KeepTime = 0
    Grace = 0
    Quiet = FALSE
    None = None
    Empty = Empty
    Unwritten = Unwritten
    Gone = Gone
    Stray = Stray
    Broken = Broken
PROPERTY EventuallyClean
