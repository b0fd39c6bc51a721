\* The workspace is not in the location a colleague looks in first.
SPECIFICATION Spec
CONSTANTS
    s1 = s1
    s2 = s2
    Locations = {1, 2}
    Spaces = {s1, s2}
    Settings <- AllOpen
    Defaults = {1}
    Given = {None, 2}
    Days = {0, 1, 2}
    None = None
INVARIANT ColleagueExtends
