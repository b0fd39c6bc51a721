\* All tools, in both builds, for a user and for root.
SPECIFICATION Spec
\* A tool ends.
CHECK_DEADLOCK FALSE
CONSTANTS
    Builds = {"setuid", "cap"}
    Callers = {"user", "root"}
    Squashed = FALSE
INVARIANTS
    Entitled
    NeverRefused
    NothingRaised
