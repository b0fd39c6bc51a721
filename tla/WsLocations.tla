---------------------------- MODULE WsLocations ----------------------------
(***************************************************************************)
(* The locations of ws.conf, as one user meets them under one workspace    *)
(* name: which location a tool picks without -F, where it looks for an     *)
(* existing workspace, who may use a location, and what ws_find and        *)
(* ws_register make of it.  The administrator edits ws.conf between the    *)
(* calls.  Every call is one step: the interleavings of the calls are the  *)
(* subject of WsSystem.                                                    *)
(***************************************************************************)
EXTENDS Naturals, FiniteSetsExt

CONSTANTS
    Locations,  \* positions of the locations in ws.conf, a set of numbers
    Spaces,     \* the spaces of each location
    Settings,   \* [Locations -> SUBSET Setting]: what the administrator sets
    Defaults,   \* the values of "default", a location or None
    Given,      \* the arguments of -F users give, a location or None
    Days,       \* the durations users ask for
    None        \* no list, no location, no file

Me       == "me"                    \* the caller ...
MyGroup  == "staff"                 \* ... his current group
MyGroups == {"staff", "project"}    \* ... and all his groups
Colleague == "colleague"            \* a member of his current group

\* The section of a location in ws.conf.  A list of an ACL may be missing;
\* limit and extensions have the exceptions for the user worked in.
Setting == [userAcl : {None} \cup SUBSET {Me, "other"},
            groupAcl : {None} \cup SUBSET (MyGroups \cup {"guests"}),
            userDefault : BOOLEAN, groupDefault : BOOLEAN,
            allocatable : BOOLEAN, extendable : BOOLEAN,
            limit : Nat, extensions : Nat]

ASSUME LocationAssumption ==
    /\ IsFiniteSet(Locations) /\ Locations \subseteq Nat
    /\ None \notin Locations \cup Spaces
    /\ Settings \in [Locations -> SUBSET Setting]
    /\ Defaults \subseteq Locations \cup {None}
    /\ Given \subseteq Locations \cup {None}
    /\ Days \subseteq Nat

\* The directories a workspace of the caller can be in: the name of one begins
\* with that of the user whose call has made it.
Dirs == [name : {Me, Colleague}, space : Spaces]

Workspace == [dir : Dirs, left : Nat, ext : Nat]

\* No entry of a DB, and no directory, is taken for a missing one.
ASSUME NoneAssumption == None \notin Dirs \cup Workspace

VARIABLES
    conf,     \* the sections of ws.conf
    default,  \* the global default of ws.conf
    entry,    \* [Locations -> Workspace \cup {None}]: the DB of each location
    link,     \* [Locations -> Dirs \cup {None}]: the user's links, by target
    last,     \* the last call: its command and the location it used
    printed   \* history: the path the last ws_allocate without -F printed

vars == <<conf, default, entry, link, last, printed>>

Commands == {"none", "allocate", "extend", "extend for", "release", "register",
             "list", "restore"}

LocTypeOK ==
    /\ conf \in [Locations -> Setting]
    /\ default \in Locations \cup {None}
    /\ entry \in [Locations -> Workspace \cup {None}]
    /\ link \in [Locations -> Dirs \cup {None}]
    /\ last \in [cmd : Commands, at : Locations \cup {None}]
    /\ printed \in (Locations \X Dirs) \cup {None}

-----------------------------------------------------------------------------
(* Who may use a location                                                  *)

Listed(acl) == IF acl = None THEN {} ELSE acl

Names(l) == \/ Me \in Listed(conf[l].userAcl)
            \/ MyGroup \in Listed(conf[l].groupAcl)

\* Mutation: the lists are ignored.
MayAnyone(l) == TRUE

\* Mutation: lists that are missing or empty admit nobody.
MayNamed(l) == Names(l)

\* ws_allocate, ws_release: an empty list is like a missing one, and only
\* the current group counts.
May(l) == \/ Listed(conf[l].userAcl) = {} /\ Listed(conf[l].groupAcl) = {}
          \/ Names(l)

InGroup(l) == MyGroups \cap Listed(conf[l].groupAcl) # {}

\* ws_find, ws_register: a list that exists closes the location.
FindMay(l) == \/ conf[l].userAcl = None /\ conf[l].groupAcl = None
              \/ Me \in Listed(conf[l].userAcl)
              \/ InGroup(l)

\* ws_find prints the directory of the workspace in a location.
Finds(l) == FindMay(l) /\ entry[l] # None

\* A colleague of the owner, whom no list names.
ColleagueMay(l) ==
    \/ Listed(conf[l].userAcl) = {} /\ Listed(conf[l].groupAcl) = {}
    \/ MyGroup \in Listed(conf[l].groupAcl)

-----------------------------------------------------------------------------
(* Which location is meant                                                 *)

\* The last location in the file wins; a default of the user comes before
\* one of the group, and that before the global one.
Pick(locs) ==
    LET users  == {l \in locs : conf[l].userDefault}
        groups == {l \in locs : conf[l].groupDefault}
    IN  IF users # {} THEN Max(users)
        ELSE IF groups # {} THEN Max(groups)
        ELSE default

\* ws_allocate without -x passes over locations nothing can be allocated in.
Home(cmd, f) ==
    IF f # None THEN f
    ELSE Pick(IF cmd = "allocate" THEN {l \in Locations : conf[l].allocatable}
              ELSE Locations)

\* -F has to name a location the user may use; a default is not checked.
Admitted(cmd, f) == IF f # None THEN May(f) ELSE Home(cmd, f) # None

\* Mutation: only the default is looked at.
SearchHome(cmd, f) == {Home(cmd, f)}

\* Where ws_allocate looks for the workspace.
Search(cmd, f) == IF f # None THEN {f} ELSE {l \in Locations : May(l)}

Hits(cmd, f) == {l \in Search(cmd, f) : entry[l] # None}

\* The default and the first location of the list change places.
Rank(cmd, f, l) ==
    LET home == Home(cmd, f)
    IN  CASE l = home -> Min(Search(cmd, f))
          [] l = Min(Search(cmd, f)) /\ home \in Search(cmd, f) -> home
          [] OTHER -> l

First(cmd, f) ==
    CHOOSE l \in Hits(cmd, f) :
        \A m \in Hits(cmd, f) : Rank(cmd, f, l) <= Rank(cmd, f, m)

\* ws_list -l marks the last location that is a default of the user or of his
\* group, or else the global default, if he may use it.
Marked ==
    LET legal == {l \in Locations : FindMay(l)}
        own   == {l \in legal : conf[l].userDefault \/ conf[l].groupDefault}
    IN  IF own # {} THEN Max(own) ELSE IF default \in legal THEN default ELSE None

\* The default of a colleague, and the locations ws_allocate -x -u of his passes
\* through.
ColleagueHome ==
    LET groups == {l \in Locations : conf[l].groupDefault}
    IN  IF groups # {} THEN Max(groups) ELSE default

ColleagueSearch(f) == IF f # None THEN {f} ELSE {l \in Locations : ColleagueMay(l)}

\* It ends with an error where the first of them has no entry of the owner.
ColleagueLooks(f) ==
    IF ColleagueHome \in ColleagueSearch(f) THEN ColleagueHome ELSE Min(ColleagueSearch(f))

-----------------------------------------------------------------------------
(* The calls                                                               *)

Init ==
    /\ conf \in [Locations -> UNION {Settings[l] : l \in Locations}]
    /\ \A l \in Locations : conf[l] \in Settings[l]
    /\ default \in Defaults
    /\ entry = [l \in Locations |-> None]
    /\ link = [l \in Locations |-> None]
    /\ last = [cmd |-> "none", at |-> None]
    /\ printed = None

Called(cmd, l) == last' = [cmd |-> cmd, at |-> l]

\* The path in location l is printed on the standard output.
Prints(f, l, dir) == printed' = IF f = None THEN <<l, dir>> ELSE printed

\* A printed path is forgotten with the workspace of location l.
Forget(l) == printed' = IF printed = None \/ printed[1] # l THEN printed ELSE None

\* Mutation: a duration is taken as it is.
Unlimited(days, l) == days

Clamp(days, l) == IF days > conf[l].limit THEN conf[l].limit ELSE days

\* ws_allocate finds the workspace.
Reuse(f) ==
    /\ Admitted("allocate", f)
    /\ Hits("allocate", f) # {}
    /\ LET l == First("allocate", f)
       IN  Called("allocate", l) /\ Prints(f, l, entry[l].dir)
    /\ UNCHANGED <<conf, default, entry, link>>

Cost(e, left) == IF left > e.left THEN 1 ELSE 0

\* Mutation: no check that an extension is left.
ExtendableAlways(l, left) == conf[l].extendable

Extendable(l, left) == conf[l].extendable /\ entry[l].ext >= Cost(entry[l], left)

\* ws_allocate -x finds it: the duration is cut to the limit of the default
\* location first, and then to that of the location it was found in.
Extend(f, days) ==
    LET l     == First("extend", f)
        asked == Clamp(days, Home("extend", f))
        new   == IF asked = 0 THEN entry[l].left ELSE Clamp(asked, l)
    IN  /\ Admitted("extend", f)
        /\ Hits("extend", f) # {}
        /\ Extendable(l, new)
        /\ entry' = [entry EXCEPT ![l].left = new, ![l].ext = @ - Cost(entry[l], new)]
        /\ Called("extend", l)
        /\ Prints(f, l, entry[l].dir)
        /\ UNCHANGED <<conf, default, link>>

\* A colleague who may use a location, and can write into the workspace,
\* extends it.
ExtendFor(f, days) ==
    LET l     == ColleagueLooks(f)
        home  == IF f # None THEN f ELSE ColleagueHome
        asked == Clamp(days, home)
        new   == IF asked = 0 THEN entry[l].left ELSE Clamp(asked, l)
    IN  /\ IF f # None THEN ColleagueMay(f) ELSE home # None
        /\ ColleagueSearch(f) # {}
        /\ entry[l] # None
        /\ Extendable(l, new)
        /\ entry' = [entry EXCEPT ![l].left = new, ![l].ext = @ - Cost(entry[l], new)]
        /\ Called("extend for", l)
        /\ UNCHANGED <<conf, default, link, printed>>

\* ws_allocate does not find the workspace and creates it in the default
\* location, or in the one of -F; with -x only if an entry is there.
Create(cmd, f, days, s) ==
    LET l   == Home(cmd, f)
        dir == [name |-> Me, space |-> s]
    IN  /\ Admitted(cmd, f)
        /\ Hits(cmd, f) = {}
        /\ cmd = "extend" => entry[l] # None
        /\ conf[l].allocatable
        /\ entry' = [entry EXCEPT ![l] = [dir |-> dir, left |-> Clamp(days, l),
                                          ext |-> conf[l].extensions]]
        /\ Called(cmd, l)
        /\ Prints(f, l, dir)
        /\ UNCHANGED <<conf, default, link>>

\* A colleague who may use no location: no location is searched, and as with
\* Create the workspace counts as one that does not exist.  If the owner's
\* entry is in the default location, it is written anew, for a directory with
\* the name of the colleague.
CreateFor(f, days, s) ==
    LET l   == ColleagueHome
        dir == [name |-> Colleague, space |-> s]
    IN  /\ ColleagueSearch(f) = {} /\ l # None
        /\ entry[l] # None
        /\ conf[l].allocatable
        /\ entry' = [entry EXCEPT ![l] = [dir |-> dir, left |-> Clamp(days, l),
                                          ext |-> conf[l].extensions]]
        /\ Called("extend for", l)
        /\ UNCHANGED <<conf, default, link, printed>>

\* ws_release looks in one location only.
Release(f) ==
    LET l == Home("release", f)
    IN  /\ Admitted("release", f)
        /\ entry' = [entry EXCEPT ![l] = None]
        /\ Called("release", l)
        /\ Forget(l)
        /\ UNCHANGED <<conf, default, link>>

\* ws_register makes the links that are missing, and removes those whose name
\* is not that of a workspace; of an existing link only the name is looked at.
Register(f) ==
    LET legal == {l \in Locations : FindMay(l) /\ f \in {None, l}}
        same(l) == link[l] # None /\ link[l].name = entry[l].dir.name
    IN  /\ link' = [l \in Locations |->
                       IF l \notin legal THEN link[l]
                       ELSE IF entry[l] = None THEN None
                       ELSE IF same(l) THEN link[l] ELSE entry[l].dir]
        /\ Called("register", f)
        /\ UNCHANGED <<conf, default, entry, printed>>

\* The administrator edits a section, or the default.
Reconfigure(l, setting) ==
    /\ conf' = [conf EXCEPT ![l] = setting]
    /\ Called("none", None)
    /\ UNCHANGED <<default, entry, link, printed>>

ChangeDefault(l) ==
    /\ default' = l
    /\ Called("none", None)
    /\ UNCHANGED <<conf, entry, link, printed>>

\* A day passes in a location, and the expirer removes what has expired.
DayPasses(l) ==
    /\ entry[l] # None /\ entry[l].left > 0
    /\ entry' = [entry EXCEPT ![l].left = @ - 1]
    /\ Called("none", None)
    /\ UNCHANGED <<conf, default, link, printed>>

Expire(l) ==
    /\ entry[l] # None /\ entry[l].left = 0
    /\ entry' = [entry EXCEPT ![l] = None]
    /\ Called("none", None)
    /\ Forget(l)
    /\ UNCHANGED <<conf, default, link>>

Next ==
    \/ \E f \in Given :
          \/ Reuse(f)
          \/ \E days \in Days :
                \/ Extend(f, days)
                \/ ExtendFor(f, days)
                \/ \E s \in Spaces :
                      \/ \E cmd \in {"allocate", "extend"} : Create(cmd, f, days, s)
                      \/ CreateFor(f, days, s)
          \/ Release(f)
          \/ Register(f)
    \/ \E l \in Locations :
          \/ \E setting \in Settings[l] : Reconfigure(l, setting)
          \/ DayPasses(l)
          \/ Expire(l)
    \/ \E l \in Defaults : ChangeDefault(l)

Spec == Init /\ [][Next]_vars

-----------------------------------------------------------------------------
(* What a user relies on                                                   *)

\* user-guide.md: "Creating a workspace a second time is a no-operation, it
\* always returns the same path".  Until the workspace is released or expires,
\* ws_allocate prints the path it printed before, whatever the administrator
\* does to the defaults in the meantime.
StablePath == [][printed # None /\ printed' # None => printed' = printed]_vars

\* A comment in ws_allocate, of -x -u: "we allow a user ... to extend a workspace
\* if he has rights on the workspace".  ws_allocate never replaces a workspace:
\* one that exists stays in its directory and gains no extensions, whoever
\* calls, and in whatever location the call ends up.
EntryKept ==
    [][\A l \in Locations : entry[l] # None /\ entry'[l] # None =>
           /\ entry'[l].dir = entry[l].dir
           /\ entry'[l].ext <= entry[l].ext]_vars

\* user-guide.md: "You can use ws_find instead as well".  A workspace that
\* ws_allocate has just printed is found by ws_find.
FindsAllocated == last.cmd \in {"allocate", "extend"} => Finds(last.at)

\* No call makes a workspace live longer than its location allows, even if
\* the duration was accepted for another location.
WithinLimit ==
    [][\A l \in Locations : entry[l] # None /\ entry'[l] # None =>
           \/ entry'[l].left <= entry[l].left
           \/ entry'[l].left <= conf[l].limit]_vars

\* man ws_register: "create links to valid workspaces ... and remove links
\* pointing to removed workspaces": after ws_register every link points to a
\* workspace of the user.
LinksCurrent ==
    last.cmd = "register" /\ last.at = None =>
        \A l \in Locations : link[l] # None => /\ entry[l] # None
                                               /\ entry[l].dir = link[l]

\* user-guide.md, of ws_list -l: "one of them might be marked with (default).
\* The default one will be chosen if you do not specify a filesystem".
MarkedIsChosen == Marked # None => Home("allocate", None) = Marked

\* user-guide.md: "A writable workspace can also be extended by other members
\* of the group ... with ws_allocate -x -u <username> <workspace id> <days>":
\* one who may use the location finds the workspace.
ColleagueExtends ==
    \A l \in Locations : entry[l] # None /\ ColleagueMay(l) =>
        entry[ColleagueLooks(None)] # None

\* user-guide.md, of ws_release: "Releasing means that the ID can be reused and
\* the directory is not accessible any more": ws_release ends the workspace
\* that ws_allocate has printed.
ReleaseEndsPrinted ==
    [][last'.cmd = "release" /\ printed # None => entry'[printed[1]] = None]_vars
=============================================================================
