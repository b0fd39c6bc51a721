\* No workspace of the second location can be restored.
SPECIFICATION RecoverySpec
CONSTANTS
    s1 = s1
    s2 = s2
    d1 = d1
    d2 = d2
    Locations = {1, 2}
    Spaces = {s1}
    Settings <- Changing
    Defaults = {1}
    Given = {None, 2}
    Days = {0}
    None = None
    Data = {d1}
    Callers = {"user"}
    Restorable = {1}
INVARIANT ListedRestorable
