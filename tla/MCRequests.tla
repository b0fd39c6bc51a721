----------------------------- MODULE MCRequests -----------------------------
(* Values for the constants of WsRequests: a user with two addresses.      *)
EXTENDS WsRequests

CONSTANTS a1, a2

NoFile  == [form |-> "blank", mail |-> None, rem |-> None, dur |-> None]
OldFile == [form |-> "old", mail |-> a1, rem |-> None, dur |-> None]

\* No file, the old format, and YAML files that start in different ways.
AnyFile == {NoFile, OldFile,
            [form |-> "key", mail |-> a1, rem |-> 2, dur |-> 1],
            [form |-> "key", mail |-> None, rem |-> 0, dur |-> None],
            [form |-> "mark", mail |-> a1, rem |-> None, dur |-> 2]}

OnlyOld == {OldFile}

\* Arguments of -d: -1 stands for anything below 0, 4 for anything too long.
AnyDays == {-1, 0, 1, 3, 4}

\* What is left on the stack: a negative number, a valid one, a large one.
AnyInt == {-1, 2, 4}
=============================================================================
