\* The path of a space is the start of the path of another one.
SPECIFICATION Spec
CONSTANTS
    l1 = l1
    l2 = l2
    s1 = s1
    s2 = s2
    s3 = s3
    w1 = w1
    w2 = w2
    w3 = w3
    Order <- OnlyFirst
    SpacesOf <- FirstSpaces
    SpaceOf <- FirstSpaceOf
    LocationOf <- InFirst
    Workspaces = {w1, w2}
    Spaces = {s1, s2, s3}
    NoSpace = NoSpace
    Selected = s1
    Containing = {s1, s2}
    Endless = {}
    Failing = {}
    Steady = TRUE
    MaxOutages = 0
PROPERTY OthersUntouched
