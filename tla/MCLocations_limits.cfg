\* Colleagues extend, and at times no location admits them.
SPECIFICATION Spec
CONSTANTS
    s1 = s1
    s2 = s2
    Locations = {1, 2}
    Spaces = {s1, s2}
    Settings <- OwnLocations
    Defaults = {1, 2}
    Given = {None}
    Days = {0, 1, 2}
    None = None
INVARIANTS
    LocTypeOK
PROPERTIES
    WithinLimit
