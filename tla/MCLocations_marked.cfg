\* A default of the user and another one of his group.
SPECIFICATION Spec
CONSTANTS
    s1 = s1
    s2 = s2
    Locations = {1, 2}
    Spaces = {s1, s2}
    Settings <- TwoDefaults
    Defaults = {1}
    Given = {None}
    Days = {0, 1, 2}
    None = None
INVARIANT MarkedIsChosen
