----------------------------- MODULE WsRecovery -----------------------------
(***************************************************************************)
(* How a user, or root for him, gets removed workspaces back: ws_release   *)
(* and the expirer put a workspace away in its own location, ws_restore -l *)
(* lists what has been put away, and ws_restore moves it into a live       *)
(* workspace of the location it picks.  It decides once more, by its own   *)
(* code, who may use a location.  One removed workspace per location is    *)
(* enough to tell the locations apart.                                     *)
(***************************************************************************)
EXTENDS WsLocations

CONSTANTS
    Data,        \* the files of the user
    Callers,     \* "user", and "root" who works for him, with -u or --userworkspace
    Restorable   \* the locations without "restorable: false"

ASSUME RecoveryAssumption ==
    /\ Restorable \subseteq Locations
    /\ Callers \subseteq {"user", "root"}

VARIABLES
    kept,    \* [Locations -> Spaces \cup {None}]: the removed entry, by its space
    place,   \* [Data -> Place \cup {None}]: the directory each file is in
    listing  \* who called the last ws_restore -l, and the locations whose removed
             \* entry it has shown, until the administrator changes ws.conf

recoveryVars == <<vars, kept, place, listing>>

\* What is put away has the name of the removed entry, in the same space.
Place == {"live"} \X Locations \X Dirs \cup {"removed"} \X Locations \X Spaces

\* No directory is taken for none.
ASSUME NowhereAssumption == None \notin Place

RecoveryInit ==
    /\ Init
    /\ kept = [l \in Locations |-> None]
    /\ place = [d \in Data |-> None]
    /\ listing = [who |-> "user", at |-> {}]

\* The files at x are at y now.
Moved(x, y) == place' = [d \in Data |-> IF place[d] = x THEN y ELSE place[d]]

-----------------------------------------------------------------------------
(* Who asks, and for what                                                  *)

\* ws_restore has the filter of the lists in a copy of its own, in which root
\* may use every location.
MayList(who, l) ==
    \/ who = "root"
    \/ Listed(conf[l].userAcl) = {} /\ Listed(conf[l].groupAcl) = {}
    \/ Names(l)

\* The location of a ws_release or ws_restore; no default names root.
PlaceOf(who, cmd, f) ==
    IF who = "user" THEN Home(cmd, f) ELSE IF f # None THEN f ELSE default

Allowed(who, cmd, f) ==
    IF who = "user" THEN Admitted(cmd, f) ELSE PlaceOf(who, cmd, f) # None

\* The command line of ws_restore: a name needs a target, and -l comes first.
Calls == [list : BOOLEAN, name : Locations \cup {None}, target : BOOLEAN, f : Given]

Asks(call) ==
    CASE call.name # None /\ ~call.target -> "nothing"
      [] call.list                        -> "list"
      [] ~call.list /\ call.name # None /\ call.target -> "restore"
      [] OTHER                            -> "nothing"

-----------------------------------------------------------------------------
\* The workspace of location l, if there is one, is put away.
PutAway(l) ==
    IF entry[l] = None THEN UNCHANGED <<kept, place>>
    ELSE /\ kept[l] = None
         /\ kept' = [kept EXCEPT ![l] = entry[l].dir.space]
         /\ Moved(<<"live", l, entry[l].dir>>, <<"removed", l, entry[l].dir.space>>)

\* ws_allocate, with or without -x, by the user or by a colleague.
Allocates(f) ==
    /\ \/ Reuse(f)
       \/ \E days \in Days : \/ Extend(f, days)
                             \/ ExtendFor(f, days)
                             \/ \E s \in Spaces :
                                   \/ \E cmd \in {"allocate", "extend"} :
                                         Create(cmd, f, days, s)
                                   \/ CreateFor(f, days, s)
    /\ UNCHANGED <<kept, place, listing>>

\* ws_release, and with --userworkspace that of root.
Releases(who, f) ==
    LET l == PlaceOf(who, "release", f)
    IN  /\ Allowed(who, "release", f)
        /\ PutAway(l)
        /\ entry' = [entry EXCEPT ![l] = None]
        /\ Called("release", l)
        /\ Forget(l)
        /\ UNCHANGED <<conf, default, link, listing>>

Expires(l) == Expire(l) /\ PutAway(l) /\ UNCHANGED listing

\* The locations whose removed DB has entries of the user.
WithRestorable == {l \in Locations : kept[l] # None}

\* ws_restore -l
List(who, call) ==
    /\ Asks(call) = "list"
    /\ listing' = [who |-> who, at |-> {l \in WithRestorable : /\ MayList(who, l)
                                                               /\ call.f \in {None, l}}]
    /\ Called("list", call.f)
    /\ UNCHANGED <<conf, default, entry, link, printed, kept, place>>

\* Mutation: the source is looked for in every location.
RestoreAcross(who, call) ==
    LET l == PlaceOf(who, "restore", call.f)
        m == call.name
    IN  /\ Asks(call) = "restore"
        /\ Allowed(who, "restore", call.f)
        /\ l \in Restorable
        /\ entry[l] # None /\ kept[m] # None
        /\ Moved(<<"removed", m, kept[l]>>, <<"live", l, entry[l].dir>>)
        /\ kept' = [kept EXCEPT ![m] = None]
        /\ Called("restore", l)
        /\ UNCHANGED <<conf, default, entry, link, printed, listing>>

\* ws_restore NAME TARGET, by a human: both have to be in the one location that
\* is looked at; else the call ends with an error.
RestoreInto(who, call) ==
    LET l == PlaceOf(who, "restore", call.f)
    IN  /\ Asks(call) = "restore"
        /\ Allowed(who, "restore", call.f)
        /\ l \in Restorable
        /\ entry[l] # None
        /\ call.name = l /\ kept[l] # None
        /\ Moved(<<"removed", l, kept[l]>>, <<"live", l, entry[l].dir>>)
        /\ kept' = [kept EXCEPT ![l] = None]
        /\ Called("restore", l)
        /\ UNCHANGED <<conf, default, entry, link, printed, listing>>

\* The expirer deletes what was put away.
Purge(l) ==
    /\ kept[l] # None
    /\ kept' = [kept EXCEPT ![l] = None]
    /\ Moved(<<"removed", l, kept[l]>>, None)
    /\ Called("none", None)
    /\ UNCHANGED <<conf, default, entry, link, printed, listing>>

\* The user writes into his workspace.
Write(d, l) ==
    /\ place[d] = None
    /\ entry[l] # None
    /\ place' = [place EXCEPT ![d] = <<"live", l, entry[l].dir>>]
    /\ Called("none", None)
    /\ UNCHANGED <<conf, default, entry, link, printed, kept, listing>>

\* The administrator edits ws.conf.
Edits ==
    /\ \/ \E l \in Locations : \E setting \in Settings[l] : Reconfigure(l, setting)
       \/ \E l \in Defaults : ChangeDefault(l)
    /\ listing' = [listing EXCEPT !.at = {}]
    /\ UNCHANGED <<kept, place>>

RecoveryNext ==
    \/ \E f \in Given :
          \/ Allocates(f)
          \/ \E who \in Callers : Releases(who, f)
    \/ \E who \in Callers, call \in Calls : List(who, call) \/ RestoreInto(who, call)
    \/ \E l \in Locations :
          \/ Expires(l)
          \/ Purge(l)
          \/ \E d \in Data : Write(d, l)
    \/ Edits

RecoverySpec == RecoveryInit /\ [][RecoveryNext]_recoveryVars

-----------------------------------------------------------------------------
\* Whatever the user, root and the administrator do, and whatever location a
\* call picks: every file is in a directory that an entry leads to, so that
\* one of the tools reaches it and the expirer does not take it for stray.
Reachable ==
    /\ \A d \in Data, l \in Locations, dir \in Dirs :
          place[d] = <<"live", l, dir>> => entry[l] # None /\ entry[l].dir = dir
    /\ \A d \in Data, l \in Locations, s \in Spaces :
          place[d] = <<"removed", l, s>> => kept[l] = s

\* man ws_restore: "see ws_restore -l for available names".  What the list has
\* shown to the user can be restored with -F, in a workspace of that location,
\* unless it was deleted or ws.conf was changed in the meantime.
ListedRestorable ==
    listing.who = "user" =>
        \A l \in listing.at : Admitted("restore", l) /\ l \in Restorable

\* man ws_restore: "ws_restore -l has to be used to list the restorable
\* workspaces": a restore without -F moves nothing that the list does not show.
ListedAll ==
    [][last.cmd = "list" /\ last.at = None /\ last'.cmd = "restore" =>
          last'.at \in listing.at]_recoveryVars
=============================================================================
