--------------------------- MODULE WsRuns_proofs ---------------------------
(***************************************************************************)
(* Proofs about WsRuns, for any number of locations, spaces and            *)
(* workspaces: the check of the magic keeps the data as long as no DB      *)
(* disappears between the check and the end of the visit, and a run with   *)
(* --space leaves the other spaces alone as long as no other path contains *)
(* the path of the space.                                                  *)
(***************************************************************************)
EXTENDS WsRuns, TLAPS

Stages == {"live", "deleted", "none"}

Phases == {"idle", "stray", "expire", "purge"}

RunType ==
    /\ phase \in Phases
    /\ entry \in [Workspaces -> Stages]
    /\ dir \in [Workspaces -> Stages]
    /\ work \subseteq Workspaces
    /\ spot = "delete" => phase = "stray"

\* After the check in the phase for strays the DB is there.
StillMounted ==
    phase = "stray" /\ spot \in {"list", "visit", "delete"} => Here \in mounted

\* What was seen before the DB is listed is still in place.
SeenInPlace ==
    phase = "stray" /\ spot \in {"magic", "list"} =>
        \A w \in seen : w \in At(Here) /\ dir[w] = "live"

\* What is moved or deleted as a stray has no entry.
StraysOnly ==
    phase = "stray" /\ spot \in {"visit", "delete"} => \A w \in work : entry[w] = "none"

DataInv == RunType /\ StillMounted /\ SeenInPlace /\ StraysOnly /\ DataKept

-----------------------------------------------------------------------------
\* Leaving a location, or ending the run, forgets what was seen and is to be done.
LEMMA LeaveForgets ==
    ASSUME phase \in Phases \ {"idle"}, Leave \/ EndRun
    PROVE  /\ seen' = {} /\ work' = {} /\ phase' \in Phases
           /\ spot' \in {"none", "look", "magic"}
BY DEF Leave, EndRun, Enter, Following, Phases

LEMMA DataInit == Init => DataInv
BY DEF Init, DataInv, RunType, StillMounted, SeenInPlace, StraysOnly, DataKept, Stages, Phases

\* A step to another location, or to the end, with the data in order.
LEMMA LeaveInv ==
    ASSUME phase \in Phases \ {"idle"}, Leave \/ EndRun, DataKept',
           entry' \in [Workspaces -> Stages], dir' \in [Workspaces -> Stages]
    PROVE  DataInv'
BY LeaveForgets DEF DataInv, RunType, StillMounted, SeenInPlace, StraysOnly

\* A deletion ends the run, or goes on to the next with at most this directory gone.
LEMMA DeleteTreeDir ==
    ASSUME NEW w, DeleteTree(w)
    PROVE  \/ EndRun /\ dir' = dir
           \/ Done(w) /\ (dir' = dir \/ dir' = [dir EXCEPT ![w] = "none"])
BY DEF DeleteTree

LEMMA DataStep ==
    ASSUME Steady, DataInv, [Next]_vars
    PROVE  DataInv'
<1> USE DEF DataInv, RunType
<1>1. CASE Start
  BY <1>1 DEF Start, Enter, StillMounted, SeenInPlace, StraysOnly, DataKept, disk, Phases
<1>2. CASE Look
  BY <1>2 DEF Look, Visiting, StillMounted, SeenInPlace, StraysOnly, DataKept, disk, At, Here
<1>3. CASE CheckMagic
  <2>1. CASE Here \in mounted
    BY <1>3, <2>1 DEF CheckMagic, Visiting, StillMounted, SeenInPlace, StraysOnly, DataKept,
                      disk, At, Here
  <2>2. CASE Here \notin mounted
    BY <1>3, <2>2, LeaveInv DEF CheckMagic, Visiting, DataKept, disk
  <2> QED BY <2>1, <2>2
<1>4. CASE List
  <2>1. CASE Selected \notin SpacesOf[Here] \cup {NoSpace}
    BY <1>4, <2>1, LeaveInv DEF List, Visiting, DataKept, disk
  <2>2. CASE ~(Selected \notin SpacesOf[Here] \cup {NoSpace})
    <3>1. /\ spot = "list" /\ spot' = "visit" /\ phase # "idle"
          /\ UNCHANGED <<entry, dir, mounted, phase, todo, seen>>
      BY <1>4, <2>2 DEF List, Visiting, disk
    <3>2. work' = CASE phase = "stray"  -> (seen \ Entries("live")) \cap InSpace
                    [] phase = "expire" -> Entries("live") \cap InPath
                    [] phase = "purge"  -> Entries("deleted") \cap InPath
      BY <1>4, <2>2 DEF List
    <3>3. CASE phase = "stray"
      <4>1. work' = (seen \ Entries("live")) \cap InSpace
        BY <3>2, <3>3
      <4>2. ASSUME NEW w \in work' PROVE w \in Workspaces /\ entry[w] = "none"
        <5>1. w \in At(Here) /\ w \in Workspaces /\ dir[w] = "live" /\ Here \in mounted
          BY <4>1, <4>2, <3>1, <3>3 DEF StillMounted, SeenInPlace, InSpace
        <5>2. entry[w] # "live"
          BY <4>1, <4>2, <5>1 DEF Entries
        <5> QED BY <5>1, <5>2 DEF DataKept, Stages
      <4> QED BY <3>1, <3>3, <4>2 DEF StillMounted, SeenInPlace, StraysOnly, DataKept, Here
    <3>4. CASE phase # "stray"
      <4>1. work' \subseteq Workspaces
        BY <3>1, <3>2, <3>4 DEF Entries, At, Phases
      <4> QED BY <3>1, <3>4, <4>1 DEF StillMounted, SeenInPlace, StraysOnly, DataKept
    <3> QED BY <3>3, <3>4
  <2> QED BY <2>1, <2>2
<1>5. ASSUME NEW w \in Workspaces, MoveStray(w) PROVE DataInv'
  BY <1>5
  DEF MoveStray, Visiting, Done, StillMounted, SeenInPlace, StraysOnly, DataKept, Stages, Here
<1>6. CASE ListDeleted
  <2>1. ASSUME NEW w \in work' PROVE w \in Workspaces /\ entry[w] = "none"
    <3>1. w \in At(Here) /\ dir[w] = "deleted" /\ w \notin Entries("deleted") /\ Here \in mounted
      BY <1>6, <2>1 DEF ListDeleted, Visiting, StillMounted
    <3> QED BY <3>1 DEF Entries, At, DataKept, Stages
  <2> QED BY <1>6, <2>1 DEF ListDeleted, Visiting, StillMounted, SeenInPlace, StraysOnly,
                            DataKept, disk, Here
<1>7. ASSUME NEW w \in Workspaces, DeleteStray(w) PROVE DataInv'
  <2>1. /\ spot = "delete" /\ phase = "stray" /\ w \in work
        /\ UNCHANGED <<entry, mounted>> /\ DeleteTree(w)
    BY <1>7 DEF DeleteStray, Visiting
  <2>2. CASE EndRun /\ dir' = dir
    BY <2>1, <2>2, LeaveInv DEF DataKept
  <2>3. CASE Done(w) /\ (dir' = dir \/ dir' = [dir EXCEPT ![w] = "none"])
    <3>1. dir' \in [Workspaces -> Stages] /\ \A v \in Workspaces \ {w} : dir'[v] = dir[v]
      BY <2>3 DEF Stages
    <3>2. DataKept'
      BY <2>1, <3>1 DEF DataKept, StraysOnly
    <3> QED BY <2>1, <2>3, <3>1, <3>2 DEF Done, StillMounted, SeenInPlace, StraysOnly, Here
  <2> QED BY <2>1, <2>2, <2>3, DeleteTreeDir
<1>8. ASSUME NEW w \in Workspaces, Expire(w) PROVE DataInv'
  <2>1. phase = "expire" /\ spot = "visit" /\ w \in work /\ mounted' = mounted
    BY <1>8 DEF Expire, Visiting
  <2>2. CASE Here \in mounted /\ due[w]
    <3>1. /\ entry' = [entry EXCEPT ![w] = "deleted"] /\ dir' = [dir EXCEPT ![w] = "deleted"]
          /\ Done(w)
      BY <1>8, <2>2 DEF Expire
    <3> QED BY <2>1, <3>1 DEF Done, StillMounted, SeenInPlace, StraysOnly, DataKept, Stages
  <2>3. CASE ~(Here \in mounted /\ due[w])
    <3>1. UNCHANGED <<entry, dir>> /\ (Done(w) \/ EndRun)
      BY <1>8, <2>3 DEF Expire, disk
    <3>2. CASE Done(w)
      BY <2>1, <3>1, <3>2 DEF Done, StillMounted, SeenInPlace, StraysOnly, DataKept
    <3> QED BY <2>1, <3>1, <3>2, LeaveInv DEF DataKept
  <2> QED BY <2>2, <2>3
<1>9. ASSUME NEW w \in Workspaces, Purge(w) PROVE DataInv'
  <2>1. phase = "purge" /\ spot = "visit" /\ w \in work /\ mounted' = mounted
    BY <1>9 DEF Purge, Visiting
  <2>2. CASE Here \in mounted /\ due[w]
    <3>1. entry' = [entry EXCEPT ![w] = "none"] /\ DeleteTree(w)
      BY <1>9, <2>2 DEF Purge
    <3>2. entry' \in [Workspaces -> Stages] /\ \A v \in Workspaces \ {w} : entry'[v] = entry[v]
      BY <3>1 DEF Stages
    <3>3. dir' \in [Workspaces -> Stages] /\ \A v \in Workspaces \ {w} : dir'[v] = dir[v]
      BY <3>1, DeleteTreeDir DEF Stages
    <3>4. DataKept'
      BY <3>1, <3>2, <3>3 DEF DataKept
    <3>5. CASE Done(w)
      BY <2>1, <3>2, <3>3, <3>4, <3>5 DEF Done, StillMounted, SeenInPlace, StraysOnly
    <3> QED BY <2>1, <3>1, <3>2, <3>3, <3>4, <3>5, DeleteTreeDir, LeaveInv
  <2>3. CASE ~(Here \in mounted /\ due[w])
    <3>1. UNCHANGED <<entry, dir>> /\ (Done(w) \/ EndRun)
      BY <1>9, <2>3 DEF Purge, disk
    <3>2. CASE Done(w)
      BY <2>1, <3>1, <3>2 DEF Done, StillMounted, SeenInPlace, StraysOnly, DataKept
    <3> QED BY <2>1, <3>1, <3>2, LeaveInv DEF DataKept
  <2> QED BY <2>2, <2>3
<1>10. CASE Finished
  BY <1>10, LeaveInv DEF Finished, Visiting, DataKept, disk
<1>11. ASSUME NEW w \in Workspaces, FallDue(w) PROVE DataInv'
  BY <1>11 DEF FallDue, run, StillMounted, SeenInPlace, StraysOnly, DataKept, At, Here
<1>12. ASSUME NEW l \in Locations, Unmount(l) PROVE DataInv'
  <2>1. UNCHANGED <<entry, dir, run>> /\ mounted' = mounted \ {l} /\ l \notin Checked
    BY <1>12 DEF Unmount, disk
  <2>2. StillMounted'
    BY <2>1 DEF StillMounted, Checked, Here, run
  <2> QED BY <2>1, <2>2 DEF run, SeenInPlace, StraysOnly, DataKept, At, Here
<1>13. ASSUME NEW l \in Locations, Mount(l) PROVE DataInv'
  BY <1>13 DEF Mount, disk, run, StillMounted, SeenInPlace, StraysOnly, DataKept, At, Here
<1>14. CASE UNCHANGED vars
  BY <1>14 DEF vars, disk, run, StillMounted, SeenInPlace, StraysOnly, DataKept, At, Here
<1> QED
  BY <1>1, <1>2, <1>3, <1>4, <1>5, <1>6, <1>7, <1>8, <1>9, <1>10, <1>11, <1>12, <1>13, <1>14
  DEF Next, Expirer

\* If no DB disappears during the visit of its location, the expirer neither
\* moves nor deletes the directory of a workspace that has an entry, however
\* often DBs are missing in between, whatever fails, for all numbers of locations.
THEOREM DataIsKept ==
    ASSUME Steady
    PROVE  Spec => []DataKept
<1>1. DataInv /\ [Next]_vars => DataInv'
  BY DataStep
<1>2. DataInv => DataKept
  BY DEF DataInv
<1> QED BY DataInit, <1>1, <1>2, PTL DEF Spec

-----------------------------------------------------------------------------
\* What is left to do, or was seen, is in the selected space.
Chosen == work \subseteq InSpace

Known == /\ phase \in Phases
         /\ entry \in [Workspaces -> Stages]
         /\ dir \in [Workspaces -> Stages]

LEMMA KnownStep == Known /\ [Next]_vars => Known'
<1> SUFFICES ASSUME Known, [Next]_vars PROVE Known'
  OBVIOUS
<1> USE DEF Known, Stages, disk
<1>1. CASE Start \/ Look \/ CheckMagic \/ List \/ ListDeleted \/ Finished
  BY <1>1, LeaveForgets DEF Start, Look, CheckMagic, List, ListDeleted, Finished, Visiting, Enter,
                            Phases
<1>2. ASSUME NEW w \in Workspaces, MoveStray(w) PROVE Known'
  BY <1>2 DEF MoveStray, Done
<1>3. ASSUME NEW w \in Workspaces, DeleteStray(w) PROVE Known'
  BY <1>3, DeleteTreeDir, LeaveForgets DEF DeleteStray, Visiting, Done, Phases
<1>4. ASSUME NEW w \in Workspaces, Expire(w) PROVE Known'
  BY <1>4, LeaveForgets DEF Expire, Visiting, Done, Phases
<1>5. ASSUME NEW w \in Workspaces, Purge(w) PROVE Known'
  BY <1>5, DeleteTreeDir, LeaveForgets DEF Purge, Visiting, Done, Phases
<1>6. CASE \/ \E w \in Workspaces : FallDue(w)
           \/ \E l \in Locations : Unmount(l) \/ Mount(l)
           \/ UNCHANGED vars
  BY <1>6 DEF FallDue, Unmount, Mount, vars, run
<1> QED
  BY <1>1, <1>2, <1>3, <1>4, <1>5, <1>6 DEF Next, Expirer

LEMMA LeaveChosen ==
    ASSUME Leave \/ EndRun
    PROVE  work' = {}
BY DEF Leave, EndRun, Enter

\* A step works on one workspace of the selected space, or on none.
LEMMA ChosenStep ==
    ASSUME InPath = InSpace, Chosen, Known, [Next]_vars
    PROVE  /\ Chosen'
           /\ \A v \in Workspaces \ InSpace : entry'[v] = entry[v] /\ dir'[v] = dir[v]
<1> DEFINE Others == \A v \in Workspaces \ InSpace : entry'[v] = entry[v] /\ dir'[v] = dir[v]
<1>1. CASE Start \/ Look \/ CheckMagic \/ Finished
  BY <1>1, LeaveChosen DEF Chosen, Start, Enter, Look, CheckMagic, Finished, InSpace, disk
<1>2. CASE List
  <2>1. UNCHANGED <<entry, dir>>
    BY <1>2 DEF List, disk
  <2>2. CASE Selected \notin SpacesOf[Here] \cup {NoSpace}
    BY <1>2, <2>1, <2>2, LeaveChosen DEF Chosen, List
  <2>3. CASE ~(Selected \notin SpacesOf[Here] \cup {NoSpace})
    <3>1. work' = CASE phase = "stray"  -> (seen \ Entries("live")) \cap InSpace
                    [] phase = "expire" -> Entries("live") \cap InPath
                    [] phase = "purge"  -> Entries("deleted") \cap InPath
      BY <1>2, <2>3 DEF List
    <3>2. work' \subseteq InSpace
      BY <1>2, <3>1 DEF List, Visiting, Known, Phases, Entries, At, InSpace
    <3> QED BY <2>1, <3>2 DEF Chosen, InSpace
  <2> QED BY <2>2, <2>3
<1>3. ASSUME NEW w \in Workspaces, MoveStray(w) PROVE Chosen' /\ Others
  <2>1. w \in InSpace /\ work' \subseteq work /\ entry' = entry
        /\ dir' = [dir EXCEPT ![w] = "deleted"]
    BY <1>3 DEF MoveStray, Done, Chosen
  <2> QED BY <2>1 DEF Chosen, InSpace, Known
<1>4. CASE ListDeleted
  BY <1>4 DEF ListDeleted, Chosen, InSpace, disk
<1>5. ASSUME NEW w \in Workspaces, DeleteStray(w) PROVE Chosen' /\ Others
  <2>1. w \in InSpace /\ entry' = entry /\ DeleteTree(w)
    BY <1>5 DEF DeleteStray, Chosen
  <2> QED BY <2>1, DeleteTreeDir, LeaveChosen DEF Chosen, InSpace, Done, Known
<1>6. ASSUME NEW w \in Workspaces, Expire(w) PROVE Chosen' /\ Others
  <2>1. w \in InSpace /\ (Done(w) \/ EndRun)
    BY <1>6 DEF Expire, Chosen
  <2>2. Chosen'
    BY <2>1, LeaveChosen DEF Chosen, InSpace, Done
  <2>3. \/ UNCHANGED <<entry, dir>>
        \/ entry' = [entry EXCEPT ![w] = "deleted"] /\ dir' = [dir EXCEPT ![w] = "deleted"]
    BY <1>6 DEF Expire, disk
  <2> QED BY <2>1, <2>2, <2>3 DEF Known
<1>7. ASSUME NEW w \in Workspaces, Purge(w) PROVE Chosen' /\ Others
  <2>1. w \in InSpace
    BY <1>7 DEF Purge, Chosen
  <2>2. \/ UNCHANGED <<entry, dir>> /\ (Done(w) \/ EndRun)
        \/ entry' = [entry EXCEPT ![w] = "none"] /\ DeleteTree(w)
    BY <1>7 DEF Purge, disk
  <2>3. Chosen'
    BY <2>1, <2>2, DeleteTreeDir, LeaveChosen DEF Chosen, InSpace, Done
  <2> QED BY <2>1, <2>2, <2>3, DeleteTreeDir DEF Known
<1>8. CASE \/ \E w \in Workspaces : FallDue(w)
           \/ \E l \in Locations : Unmount(l) \/ Mount(l)
           \/ UNCHANGED vars
  BY <1>8 DEF FallDue, Unmount, Mount, vars, run, disk, Chosen, InSpace
<1> QED
  BY <1>1, <1>2, <1>3, <1>4, <1>5, <1>6, <1>7, <1>8 DEF Next, Expirer

\* A run with --space leaves everything outside of the space as it is, if the path
\* of the space is part of no path but those of its own workspaces.
THEOREM OthersAreUntouched ==
    ASSUME Containing \subseteq {Selected}
    PROVE  Spec => OthersUntouched
<1>1. InPath = InSpace
  BY RunsAssumption DEF InPath, InSpace
<1>2. Init => Chosen /\ Known
  BY DEF Init, Chosen, Known, Phases, Stages
<1>3. Chosen /\ Known /\ [Next]_vars =>
        Chosen' /\ Known' /\ [\A w \in Workspaces \ InSpace :
                                    entry'[w] = entry[w] /\ dir'[w] = dir[w]]_vars
  BY <1>1, ChosenStep, KnownStep
<1> QED BY <1>2, <1>3, PTL DEF Spec, OthersUntouched
=============================================================================
