\* The DB is on a file system with root_squash.
SPECIFICATION Spec
\* A tool ends.
CHECK_DEADLOCK FALSE
CONSTANTS
    Builds = {"setuid"}
    Callers = {"user", "root"}
    Squashed = TRUE
INVARIANT SquashSafe
