\* An expired workspace on a file system without renames of directories.
SPECIFICATION Spec
\* Nothing happens any more when all calls are made and all is purged.
CHECK_DEADLOCK FALSE
CONSTANTS
    Data = {d1, d2}
    Faults = {}
    MaxCalls = 4
    None = None
PROPERTY AllFallBack
