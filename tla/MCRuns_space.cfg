\* The space of the second location is selected, without -w.
SPECIFICATION Spec
CONSTANTS
    l1 = l1
    l2 = l2
    s1 = s1
    s2 = s2
    s3 = s3
    w1 = w1
    w2 = w2
    w3 = w3
    Order <- MCOrder
    SpacesOf <- MCSpacesOf
    SpaceOf <- MCSpaceOf
    LocationOf <- MCLocationOf
    Workspaces = {w1, w2, w3}
    Spaces = {s1, s2, s3}
    NoSpace = NoSpace
    Selected = s3
    Containing = {s3}
    Endless = {}
    Failing = {}
    Steady = TRUE
    MaxOutages = 0
PROPERTY Served
