------------------------------- MODULE MCRuns -------------------------------
(* Two locations: l1 with the spaces s1 and s2, l2 with the space s3. *)
EXTENDS WsRuns

CONSTANTS l1, l2, s1, s2, s3, w1, w2, w3

MCOrder      == <<l1, l2>>
OnlyFirst    == <<l1>>
MCSpacesOf   == [l \in {l1, l2} |-> IF l = l1 THEN {s1, s2} ELSE {s3}]
FirstSpaces  == [l \in {l1} |-> {s1, s2}]
MCSpaceOf    == [w \in {w1, w2, w3} |-> CASE w = w1 -> s1 [] w = w2 -> s2 [] w = w3 -> s3]
MCLocationOf == [w \in {w1, w2, w3} |-> IF w = w3 THEN l2 ELSE l1]
FirstSpaceOf == [w \in {w1, w2} |-> IF w = w1 THEN s1 ELSE s2]
InFirst      == [w \in {w1, w2} |-> l1]
=============================================================================
