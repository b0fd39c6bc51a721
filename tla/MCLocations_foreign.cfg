\* No location admits the colleague.
SPECIFICATION Spec
CONSTANTS
    s1 = s1
    s2 = s2
    Locations = {1, 2}
    Spaces = {s1}
    Settings <- Closed
    Defaults = {1}
    Given = {None}
    Days = {0, 1}
    None = None
PROPERTY EntryKept
