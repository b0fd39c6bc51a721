\* A location of ws.conf has two spaces.
SPECIFICATION Spec
CONSTANTS
    s1 = s1
    s2 = s2
    Locations = {1, 2}
    Spaces = {s1, s2}
    Settings <- AllOpen
    Defaults = {1}
    Given = {None}
    Days = {0}
    None = None
INVARIANT LinksCurrent
