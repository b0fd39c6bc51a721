---------------------------- MODULE WsProperties ----------------------------
(***************************************************************************)
(* What the tools and the expirer promise together.  The first group holds *)
(* under every interleaving and with processes killed at any step; the     *)
(* second holds at a site that keeps the expirer apart from the tools; the *)
(* third is what comments and documents of the repository say.             *)
(***************************************************************************)
EXTENDS WsSystem, FiniteSets

RunActs == xp' # xp

-----------------------------------------------------------------------------
(* Under every interleaving                                                *)

\* Phase 1 of ws_expirer does not treat a directory as stray while an entry
\* of its name has existed ever since the run began.
HeldNotStray ==
    [][xp.pc = "stray" /\ RunActs =>
          \A path \in dirs \ dirs' : <<path[2], Live>> \notin held]_vars

\* Phase 2 of ws_expirer removes the entry of a workspace only if that
\* workspace was expired at a moment of this run, even though the entry may
\* be rewritten between the reading and the renaming.
RetiredOnlyIfLapsed ==
    [][xp.pc = "retire" /\ xp'.pc = "movedir" => xp.job.key[1] \in lapsed]_vars

\* ws_expirer deletes a datum only from a removed directory, and only if the
\* keeptime is over, or it was released and the grace is over, or its removed
\* entry did not exist throughout the run.
KeptWhileHeld ==
    [][RunActs =>
          \A d \in Data : where[d] # Gone /\ where'[d] = Gone =>
             LET path == where[d]
                 key  == <<path[2], path[3]>>
             IN  /\ path[3] # Live
                 /\ \/ now > path[3] + KeepTime
                    \/ xp.pc = "trash" /\ key \notin held
                    \/ xp.pc = "deldir" /\ now > xp.job.ent.rel + Grace
                       /\ xp.job.ent.rel # Live]_vars

\* A process has the entry of this name open and goes on to write it.
Written(k) == \E p \in Procs : At(p, "write") /\ open[p] = k

\* The entries that nobody fills any more.  Each ends all runs of ws_expirer.
Orphans == {k \in Key : entry[k] = Empty /\ ~Written(k)}

\* Each kill and each failing write leaves at most one entry empty for good, and
\* nothing else does: a process that empties an entry in write_dbfile fills the
\* same file, whatever name it has been renamed to, and whoever else has opened,
\* emptied or filled it.
OneEmptyPerFault == Cardinality(Orphans) <= faults

-----------------------------------------------------------------------------
(* Why these hold: what the lists and the copies of ws_expirer still say   *)
(* about the stores when it acts on them.                                  *)

\* The history follows the stores.
HistoryInv ==
    /\ held \subseteq Existing
    /\ ~Running => held = {} /\ lapsed = {}
    /\ Running => Expired \subseteq lapsed

\* What has been there all the time was there when it was listed.
ListInv ==
    /\ xp.pc \in {"check", "stray"} => \A k \in held : k[2] = Live => k \in xp.names
    /\ xp.pc = "trash" => \A k \in held : k[2] # Live => k \in xp.names
    /\ xp.pc = "trash" => \A path \in xp.paths : path[3] # Live

\* What was found in an entry has been true of the workspace in this run.
JobInv ==
    /\ xp.pc \in {"expire", "retire", "movedir"} => \A k \in xp.todo : k[2] = Live
    /\ xp.pc \in {"retire", "movedir"} => xp.job.key[1] \in lapsed
    /\ xp.pc \in {"reap", "unlink", "deldir"} => \A k \in xp.todo : k[2] # Live
    /\ xp.pc \in {"unlink", "deldir"} =>
          xp.job.key[2] # Live /\ Due(xp.job.key[2], xp.job.ent)

RunInv == HistoryInv /\ ListInv /\ JobInv

-----------------------------------------------------------------------------
(* When the expirer keeps apart from the tools, and tools from each other  *)

\* A live entry that can be read names a directory that exists, also after a
\* crash: ws_allocate makes the directory before the entry, ws_release and
\* ws_expirer move the entry before the directory.  The administrator's
\* ws_restore, which goes the other way, is not among the tools here.
EntryHasDir ==
    \A i \in Ids : Readable(<<i, Live>>) =>
        <<entry[<<i, Live>>].space, i, Live>> \in dirs

\* The data of a removed workspace stay restorable: ws_expirer deletes none
\* of them before the keeptime, or the grace of a release, is over, unless
\* another removal of the name in the same second took their entry, or the
\* user had asked for the deletion, or a process was killed or a write of an
\* entry failed before.  What the time limit of a deletion leaves behind may be
\* deleted in any later run.
RestorableUntilDue ==
    [][RunActs /\ faults = 0 =>
          \A d \in Data : where[d] # Gone /\ where'[d] = Gone =>
             \/ now > where[d][3] + KeepTime
             \/ <<where[d][2], where[d][3]>> \in clobbered \cup waived \cup reaped]_vars

\* A user prolongs a workspace at most maxextensions times (use_extension).
ExtensionBudget == \A i \in Ids : used[i] <= MaxExt

\* In the end every directory that is left is accounted for: a live one has
\* an entry that does not expire within the clock's bound, a removed one has
\* an entry that is not due within it (a stray one may wait for the tick after
\* the bound, when its removed name is taken until then).  The exception is an
\* entry left empty by a kill inside write_dbfile or a failed write: a live one
\* stops the expirer for good, a removed one stays with its directory.
Justified(path) ==
    LET key == <<path[2], path[3]>>
    IN  IF path[3] = Live
        THEN \/ Readable(key) /\ entry[key].exp >= MaxTime
             \/ <<path[1], path[2], MaxTime>> \in dirs
        ELSE /\ Readable(key)
             /\ path[3] + KeepTime >= MaxTime
             /\ entry[key].rel # Live => entry[key].rel + Grace >= MaxTime

EventuallyClean ==
    <>[](\/ \A path \in dirs : Justified(path)
         \/ \E k \in Key : entry[k] = Empty)

-----------------------------------------------------------------------------
(* What the repository says                                                *)

\* "ws_release moves DB entry first, workspace second, should be race free":
\* a removed directory is not deleted as stray while its removed entry exists.
ReleaseRaceFree ==
    [][xp.pc = "trash" /\ RunActs =>
          \A path \in dirs \ dirs' : ~Exists(<<path[2], path[3]>>)]_vars

\* "entries created during this run of expirer will be ignored": no directory
\* whose live entry exists is moved away as stray.
NewEntriesIgnored ==
    [][xp.pc = "stray" /\ RunActs =>
          \A path \in dirs \ dirs' : ~Exists(<<path[2], Live>>)]_vars

\* "Users or administrators can still recover the data.  After keeptime days,
\* it will be removed": as long as the removed entry of an expired workspace
\* is younger than keeptime, there is still a directory of that workspace.
RecoverableForKeepTime ==
    \A k \in RemovedKeys :
        Readable(k) /\ entry[k].rel = Live /\ now <= k[2] + KeepTime =>
            \E l \in Label : <<entry[k].space, k[1], l>> \in dirs

\* "workspace with same name exists, resolve it by hand!": the administrator's
\* ws_restore never puts a removed workspace in the place of a live one.
NothingReplaced ==
    [][\A p \in Procs : At(p, "revive") /\ tool'[p].pc = "putback" =>
          ~Exists(<<tool[p].id, Live>>)]_vars

\* "it always returns the same path": every ws_allocate of a name prints one
\* and the same path, at a site where nothing is released and nothing expires
\* within the bound of the clock.
SamePath == \A i \in Ids : \A s1, s2 \in told[i] : s1 = s2
=============================================================================
