------------------------------ MODULE MCSystem ------------------------------
(* Small instances of one workspace location for TLC. *)
EXTENDS WsRefinement, TLC

CONSTANTS i1, i2, s1, s2, p1, p2, d1, d2

\* Processes, spaces and names are interchangeable: nothing orders them.
Symmetry == {f @@ g @@ h : f \in Permutations(Procs), g \in Permutations(Spaces),
                           h \in Permutations(Ids)}
=============================================================================
