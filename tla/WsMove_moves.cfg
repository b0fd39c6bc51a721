\* Everything may go wrong.
SPECIFICATION Spec
\* Nothing happens any more when all calls are made and all is purged.
CHECK_DEADLOCK FALSE
CONSTANTS
    Data = {d1, d2}
    Faults = {"fork", "exec", "kill", "mv"}
    MaxCalls = 4
    None = None
INVARIANT MoveTypeOK
INVARIANT NothingLost
PROPERTY NoneLeftBehind
