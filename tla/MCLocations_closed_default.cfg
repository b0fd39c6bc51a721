\* The global default is a location that does not admit the user.
SPECIFICATION Spec
CONSTANTS
    s1 = s1
    s2 = s2
    Locations = {1, 2}
    Spaces = {s1, s2}
    Settings <- ClosedDefault
    Defaults = {1}
    Given = {None}
    Days = {0, 1, 2}
    None = None
PROPERTY StablePath
