\* The child cannot be forked.
SPECIFICATION Spec
\* Nothing happens any more when all calls are made and all is purged.
CHECK_DEADLOCK FALSE
CONSTANTS
    Data = {d1, d2}
    Faults = {"fork"}
    MaxCalls = 4
    None = None
PROPERTY RestoreSuccessful
