\* Defaults and lists change while workspaces are removed and restored.
SPECIFICATION RecoverySpec
CONSTANTS
    s1 = s1
    s2 = s2
    d1 = d1
    d2 = d2
    Locations = {1, 2}
    Spaces = {s1, s2}
    Settings <- Changing
    Defaults = {1}
    Given = {None, 2}
    Days = {0, 1}
    None = None
    Data = {d1}
    Callers = {"user", "root"}
    Restorable = {1, 2}
INVARIANTS
    Reachable
    FindsAllocated
PROPERTIES
    EntryKept
