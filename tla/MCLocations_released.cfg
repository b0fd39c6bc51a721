\* The administrator moves the default.
SPECIFICATION Spec
CONSTANTS
    s1 = s1
    s2 = s2
    Locations = {1, 2}
    Spaces = {s1, s2}
    Settings <- AllOpen
    Defaults = {1, 2}
    Given = {None}
    Days = {0, 1, 2}
    None = None
PROPERTY ReleaseEndsPrinted
