----------------------------- MODULE MCRecovery -----------------------------
(* Two locations of ws.conf, as in MCLocations, with removed workspaces. *)
EXTENDS WsRecovery

CONSTANTS s1, s2, d1, d2

Open == [userAcl |-> None, groupAcl |-> None, userDefault |-> FALSE,
         groupDefault |-> FALSE, allocatable |-> TRUE, extendable |-> TRUE,
         limit |-> 1, extensions |-> 1]

Short == [Open EXCEPT !.limit = 0]

\* The second location admits now all, now the user, now another group of his,
\* and now others only, and is his default at times, but only when it admits
\* him.  The first one admits everybody, so that a colleague may always use it.
Changing ==
    [l \in Locations |->
        IF l = 1 THEN {Open}
        ELSE {Short, [Short EXCEPT !.groupAcl = {"project"}],
              [Short EXCEPT !.userAcl = {"other"}],
              [Short EXCEPT !.userAcl = {Me}, !.groupAcl = {"project"},
                            !.userDefault = TRUE]}]

\* The global default does not admit the user.
ClosedDefault == [l \in Locations |-> {[Open EXCEPT !.userAcl = {"other"}]}]
=============================================================================
