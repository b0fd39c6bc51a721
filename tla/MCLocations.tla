---------------------------- MODULE MCLocations ----------------------------
(* Values for the constants of WsLocations: two locations in ws.conf.      *)
EXTENDS WsLocations

CONSTANTS s1, s2

\* A section without any restriction, and how it is varied.
Open == [userAcl |-> None, groupAcl |-> None, userDefault |-> FALSE,
         groupDefault |-> FALSE, allocatable |-> TRUE, extendable |-> TRUE,
         limit |-> 2, extensions |-> 1]

Small == [Open EXCEPT !.limit = 1]

\* The defaults wander, the locations open and close for allocation, and
\* the user is always admitted: by his name, or by his group.
WanderingDefaults ==
    [l \in Locations |->
        IF l = 1
        THEN {[Open EXCEPT !.userAcl = {Me, "other"}, !.userDefault = u, !.allocatable = a,
                           !.extendable = x] : u, a, x \in BOOLEAN}
        ELSE {[Small EXCEPT !.groupAcl = {MyGroup}, !.userDefault = u, !.groupDefault = g,
                            !.allocatable = a] : u, g, a \in BOOLEAN}]

\* Each location admits now all and now the user alone, so that a colleague may
\* at times use none of them.
OwnLocations ==
    [l \in Locations |->
        LET any == IF l = 1 THEN Open ELSE Small
        IN  {[any EXCEPT !.userAcl = a] : a \in {None, {Me}}}]

\* The lists name the user, and no group.
Closed == [l \in Locations |-> {[Open EXCEPT !.userAcl = {Me}]}]

\* The global default does not admit the user.
ClosedDefault == [l \in Locations |-> {[Open EXCEPT !.userAcl = {"other"}]}]

\* The first location is a default of the user, the second one of his group.
TwoDefaults ==
    [l \in Locations |-> {[Open EXCEPT !.userDefault = l = 1, !.groupDefault = l = 2]}]

\* Two locations, open to all.
AllOpen == [l \in Locations |-> {Open}]
=============================================================================
