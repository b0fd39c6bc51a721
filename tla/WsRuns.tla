------------------------------- MODULE WsRuns -------------------------------
(***************************************************************************)
(* The nightly runs of ws_expirer over all locations: three phases, each   *)
(* over the list of the locations, and in each location the check of       *)
(* .ws_db_magic before the DB is listed.  A DB may be unmounted and come   *)
(* back, a deletion may run into deldir_timeout, and one that raises ends  *)
(* the run.  What happens inside one location while its users work is the  *)
(* subject of WsExpirer; here the expirer is alone, and a workspace is its *)
(* entry and its directory.                                                *)
(***************************************************************************)
EXTENDS Naturals, Sequences

CONSTANTS
    Order,       \* the locations, in the order of the configuration or of -w
    Workspaces,
    Spaces,
    LocationOf, SpaceOf,  \* of a workspace
    SpacesOf,    \* of a location
    Selected,    \* the space given with --space, or NoSpace
    NoSpace,
    Containing,  \* the spaces whose path contains the selected one
    Endless,     \* workspaces whose deletion takes longer than deldir_timeout
    Failing,     \* workspaces whose deletion raises, as for a file held by NFS
    Steady,      \* no DB disappears between its check and the end of the visit
    MaxOutages   \* bound on the number of times a DB is unmounted

Locations == {Order[i] : i \in 1..Len(Order)}

ASSUME RunsAssumption ==
    /\ LocationOf \in [Workspaces -> Locations]
    /\ SpacesOf \in [Locations -> SUBSET Spaces]
    /\ SpaceOf \in [Workspaces -> Spaces]
    /\ \A w \in Workspaces : SpaceOf[w] \in SpacesOf[LocationOf[w]]
    /\ NoSpace \notin Spaces /\ Selected \in Spaces \cup {NoSpace}
    /\ Containing \subseteq Spaces
    /\ Selected # NoSpace => Selected \in Containing
    /\ Endless \subseteq Workspaces /\ Failing \subseteq Workspaces
    /\ Steady \in BOOLEAN /\ MaxOutages \in Nat

VARIABLES
    entry, dir,  \* of a workspace: "live", in "deleted", or "none"
    due,         \* the time of the workspace's entry, live or deleted, is over
    mounted,     \* the locations whose DB is there
    outages,
    phase,       \* "idle", "stray", "expire" or "purge"
    todo,        \* the locations that the phase has not left yet
    spot,        \* where the visit of the first of them stands
    seen,        \* the directories listed before the DB
    work         \* the workspaces that are left to look at

disk == <<entry, dir, due>>
run  == <<phase, todo, spot, seen, work>>
vars == <<disk, mounted, outages, run>>

Here == Head(todo)
At(l) == {w \in Workspaces : LocationOf[w] = l}

\* The glob of the DB of the location, or of its deleted entries.
Entries(stage) == {w \in At(Here) : Here \in mounted /\ entry[w] = stage}

\* The phase for strays goes by the space, the others by the path of the workspace.
InSpace == {w \in Workspaces : Selected \in {NoSpace, SpaceOf[w]}}
InPath  == {w \in Workspaces : Selected = NoSpace \/ SpaceOf[w] \in Containing}

\* A directory that no entry names.
Orphan(w) == entry[w] = "none" /\ dir[w] # "none"

-----------------------------------------------------------------------------
\* Workspaces in use, restorable ones, and directories whose entry is gone.
Init ==
    /\ entry \in [Workspaces -> {"live", "deleted", "none"}]
    /\ dir \in [Workspaces -> {"live", "deleted"}]
    /\ \A w \in Workspaces : entry[w] # "none" => dir[w] = entry[w]
    /\ due = [w \in Workspaces |-> FALSE]
    /\ mounted = Locations /\ outages = 0
    /\ phase = "idle" /\ todo = <<>> /\ spot = "none" /\ seen = {} /\ work = {}

Enter(p, locations) ==
    /\ phase' = p /\ todo' = locations /\ seen' = {} /\ work' = {}
    /\ spot' = IF p = "idle" THEN "none" ELSE IF p = "stray" THEN "look" ELSE "magic"

EndRun == Enter("idle", <<>>)

Following == [stray |-> "expire", expire |-> "purge", purge |-> "idle"]

\* To the next location, or to the next phase after the last one.
Leave ==
    IF Len(todo) > 1 THEN Enter(phase, Tail(todo))
    ELSE IF phase = "purge" THEN EndRun
    ELSE Enter(Following[phase], Order)

Visiting(s) == phase # "idle" /\ spot = s

\* cron starts ws_expirer -c.
Start == phase = "idle" /\ Enter("stray", Order) /\ UNCHANGED <<disk, mounted, outages>>

\* The directories are fetched before the entries.
Look ==
    /\ Visiting("look")
    /\ seen' = {w \in At(Here) : dir[w] = "live"}
    /\ spot' = "magic"
    /\ UNCHANGED <<disk, mounted, outages, phase, todo, work>>

\* Mutation: the magic is not looked at.
PassMagic ==
    /\ Visiting("magic")
    /\ spot' = "list" /\ UNCHANGED <<phase, todo, seen, work>>
    /\ UNCHANGED <<disk, mounted, outages>>

\* A location whose DB is not there is skipped.
CheckMagic ==
    /\ Visiting("magic")
    /\ IF Here \in mounted THEN spot' = "list" /\ UNCHANGED <<phase, todo, seen, work>>
       ELSE Leave
    /\ UNCHANGED <<disk, mounted, outages>>

\* spaces.remove raises in a location that does not have the selected space.
List ==
    /\ Visiting("list")
    /\ IF Selected \notin SpacesOf[Here] \cup {NoSpace} THEN EndRun
       ELSE /\ work' = CASE phase = "stray"  -> (seen \ Entries("live")) \cap InSpace
                         [] phase = "expire" -> Entries("live") \cap InPath
                         [] phase = "purge"  -> Entries("deleted") \cap InPath
            /\ spot' = "visit"
            /\ UNCHANGED <<phase, todo, seen>>
    /\ UNCHANGED <<disk, mounted, outages>>

Done(w) == work' = work \ {w} /\ UNCHANGED <<phase, todo, spot, seen>>

MoveStray(w) ==
    /\ Visiting("visit") /\ phase = "stray" /\ w \in work
    /\ dir' = [dir EXCEPT ![w] = "deleted"]
    /\ Done(w)
    /\ UNCHANGED <<entry, due, mounted, outages>>

\* The deleted directories whose names are not among the deleted entries; the
\* magic is not checked again.
ListDeleted ==
    /\ Visiting("visit") /\ phase = "stray" /\ work = {}
    /\ work' = {w \in At(Here) \cap InSpace : dir[w] = "deleted"} \ Entries("deleted")
    /\ spot' = "delete"
    /\ UNCHANGED <<disk, mounted, outages, phase, todo, seen>>

\* Mutation: the timeout is not caught.
DeleteTreeUncaught(w) ==
    IF w \in Failing \cup Endless THEN EndRun /\ UNCHANGED dir
    ELSE dir' = [dir EXCEPT ![w] = "none"] /\ Done(w)

\* fastdeldir under an alarm: only the timeout is caught.
DeleteTree(w) ==
    CASE w \in Failing -> EndRun /\ UNCHANGED dir
      [] w \in Endless \ Failing -> Done(w) /\ UNCHANGED dir
      [] OTHER -> dir' = [dir EXCEPT ![w] = "none"] /\ Done(w)

DeleteStray(w) ==
    /\ Visiting("delete") /\ w \in work
    /\ DeleteTree(w)
    /\ UNCHANGED <<entry, due, mounted, outages>>

\* An entry that cannot be read is skipped, one that cannot be renamed any more
\* ends the run.
Expire(w) ==
    /\ Visiting("visit") /\ phase = "expire" /\ w \in work
    /\ IF Here \in mounted /\ due[w]
       THEN /\ entry' = [entry EXCEPT ![w] = "deleted"]
            /\ dir' = [dir EXCEPT ![w] = "deleted"]
            /\ due' = [due EXCEPT ![w] = FALSE]
            /\ Done(w)
       ELSE /\ Done(w) \/ (Here \notin mounted /\ EndRun)
            /\ UNCHANGED disk
    /\ UNCHANGED <<mounted, outages>>

\* The same for a deleted entry; its directory follows.
Purge(w) ==
    /\ Visiting("visit") /\ phase = "purge" /\ w \in work
    /\ IF Here \in mounted /\ due[w]
       THEN /\ entry' = [entry EXCEPT ![w] = "none"]
            /\ due' = [due EXCEPT ![w] = FALSE]
            /\ DeleteTree(w)
       ELSE /\ Done(w) \/ (Here \notin mounted /\ EndRun)
            /\ UNCHANGED disk
    /\ UNCHANGED <<mounted, outages>>

Finished ==
    /\ Visiting(IF phase = "stray" THEN "delete" ELSE "visit") /\ work = {}
    /\ Leave
    /\ UNCHANGED <<disk, mounted, outages>>

-----------------------------------------------------------------------------
(* The world around the expirer                                            *)

FallDue(w) ==
    /\ entry[w] # "none" /\ ~due[w]
    /\ due' = [due EXCEPT ![w] = TRUE]
    /\ UNCHANGED <<entry, dir, mounted, outages, run>>

\* The location whose magic was checked in the visit that is under way.
Checked == IF phase = "idle" \/ spot \in {"look", "magic"} THEN {} ELSE {Here}

Unmount(l) ==
    /\ l \in mounted /\ outages < MaxOutages
    /\ Steady => l \notin Checked
    /\ mounted' = mounted \ {l} /\ outages' = outages + 1
    /\ UNCHANGED <<disk, run>>

Mount(l) ==
    /\ l \notin mounted
    /\ mounted' = mounted \cup {l}
    /\ UNCHANGED <<disk, outages, run>>

Expirer ==
    \/ Start
    \/ Look
    \/ CheckMagic
    \/ List
    \/ \E w \in Workspaces : MoveStray(w)
    \/ ListDeleted
    \/ \E w \in Workspaces : DeleteStray(w)
    \/ \E w \in Workspaces : Expire(w)
    \/ \E w \in Workspaces : Purge(w)
    \/ Finished

Next ==
    \/ Expirer
    \/ \E w \in Workspaces : FallDue(w)
    \/ \E l \in Locations : Unmount(l)
    \/ \E l \in Locations : Mount(l)

\* cron starts a run every night, which goes on to its end; a DB that is
\* missing is mounted again.
Fairness == WF_vars(Expirer) /\ \A l \in Locations : WF_vars(Mount(l))

Spec == Init /\ [][Next]_vars /\ Fairness

-----------------------------------------------------------------------------
\* ws_expirer: the check of the magic is there "to avoid that DB is not existing
\* and all workspaces get wiped by accident": the directory of a workspace that
\* has an entry is where the entry says, deleted by nobody and moved by nobody.
DataKept == \A w \in Workspaces : entry[w] # "none" => dir[w] = entry[w]

\* Every workspace whose time is over is dealt with some night, and every
\* directory without an entry deleted, if it can be within the time limit,
\* whatever the other locations and the other workspaces are like.
Served ==
    \A w \in InSpace :
        /\ due[w] ~> ~due[w]
        /\ w \notin Endless \cup Failing => Orphan(w) ~> ~Orphan(w)

\* With --space, nothing outside of the space is touched.
OthersUntouched ==
    [][\A w \in Workspaces \ InSpace :
          entry'[w] = entry[w] /\ dir'[w] = dir[w]]_vars
=============================================================================
