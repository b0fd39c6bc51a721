\* Defaults and maintenance flags change between the calls of one user.
SPECIFICATION Spec
CONSTANTS
    s1 = s1
    s2 = s2
    Locations = {1, 2}
    Spaces = {s1, s2}
    Settings <- WanderingDefaults
    Defaults = {1, 2}
    Given = {None}
    Days = {0, 1, 2}
    None = None
PROPERTY StablePath
