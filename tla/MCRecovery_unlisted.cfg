\* The global default is a location that does not admit the user.
SPECIFICATION RecoverySpec
CONSTANTS
    s1 = s1
    s2 = s2
    d1 = d1
    d2 = d2
    Locations = {1, 2}
    Spaces = {s1}
    Settings <- ClosedDefault
    Defaults = {1}
    Given = {None, 2}
    Days = {0}
    None = None
    Data = {d1}
    Callers = {"user"}
    Restorable = {1, 2}
PROPERTY ListedAll
