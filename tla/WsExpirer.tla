----------------------------- MODULE WsExpirer -----------------------------
(***************************************************************************)
(* One run after the other of sbin/ws_expirer, the cron job that cleans    *)
(* up: phase 1 moves directories without an entry to the removed ones and  *)
(* deletes removed directories without a removed entry, phase 2 removes    *)
(* expired workspaces, phase 3 deletes what was removed long enough ago.   *)
(* It lists first and acts on the lists later, one file at a time, while   *)
(* the tools of WsTools work on the same stores.                           *)
(***************************************************************************)
EXTENDS WsStore

CONSTANTS
    KeepTime,   \* keeptime of ws.conf, in ticks
    Grace       \* how long released workspaces are kept, in ticks

ASSUME ExpirerAssumption == KeepTime \in Nat /\ Grace \in Nat

VARIABLE
    xp  \* pc: the position in the run; spaces, todo: the spaces and entries
        \* left to visit; paths: the listed directories left to visit; names:
        \* the listed entries they are compared with; job: the entry at work

XpPc == {"idle", "scan", "check", "stray", "trash", "expire", "retire",
         "movedir", "reap", "unlink", "deldir"}

Job == [key : Key, ent : Entry, ts : Time]

ExpirerTypeOK ==
    /\ xp \in [pc : XpPc, spaces : SUBSET Spaces, paths : SUBSET Path,
               names : SUBSET Key, todo : SUBSET Key, job : Job \cup {None}]
    /\ xp.pc \in {"retire", "movedir", "unlink", "deldir"} => xp.job \in Job

Resting == [pc |-> "idle", spaces |-> {}, paths |-> {}, names |-> {},
            todo |-> {}, job |-> None]

ExpirerInit == xp = Resting

Abort == xp' = Resting

LiveKeys    == {k \in Key : k[2] = Live /\ Exists(k)}
RemovedKeys == {k \in Key : k[2] # Live /\ Exists(k)}

-----------------------------------------------------------------------------
(* Phase 1: stray directories                                              *)

StartRun ==
    /\ xp.pc = "idle"
    /\ xp' = [Resting EXCEPT !.pc = "scan", !.spaces = Spaces]
    /\ UNCHANGED storeVars

\* The directories are listed first, space by space ...
ScanSpace(s) ==
    /\ xp.pc = "scan"
    /\ s \in xp.spaces
    /\ xp' = [xp EXCEPT !.spaces = @ \ {s},
                        !.paths = @ \cup {x \in dirs : x[1] = s /\ x[3] = Live}]
    /\ UNCHANGED storeVars

\* Mutation: an entry that cannot be read is not listed.
ListReadableEntries ==
    LET keys == {k \in LiveKeys : Readable(k)}
    IN  /\ xp.pc = "scan"
        /\ xp.spaces = {}
        /\ xp' = [xp EXCEPT !.names = keys, !.todo = keys,
                            !.pc = IF keys = {} THEN "stray" ELSE "check"]
        /\ UNCHANGED storeVars

\* ... and the entries second.
ListEntries ==
    /\ xp.pc = "scan"
    /\ xp.spaces = {}
    /\ xp' = [xp EXCEPT !.names = LiveKeys, !.todo = LiveKeys,
                        !.pc = IF LiveKeys = {} THEN "stray" ELSE "check"]
    /\ UNCHANGED storeVars

\* Mutation: an entry that cannot be read is passed over.
SkipEntry(k) ==
    /\ xp.pc = "check"
    /\ k \in xp.todo
    /\ xp' = [xp EXCEPT !.todo = @ \ {k},
                        !.names = IF Readable(k) THEN @ ELSE @ \ {k},
                        !.pc = IF xp.todo = {k} THEN "stray" ELSE "check"]
    /\ UNCHANGED storeVars

\* Every listed entry is read; one that cannot be read ends the whole run.
CheckEntry(k) ==
    /\ xp.pc = "check"
    /\ k \in xp.todo
    /\ \/ /\ ~Readable(k)
          /\ Abort
       \/ /\ Readable(k)
          /\ xp' = [xp EXCEPT !.todo = @ \ {k},
                              !.pc = IF xp.todo = {k} THEN "stray" ELSE "check"]
    /\ UNCHANGED storeVars

\* Mutation: every listed directory is moved away.
VisitAnyDir(path) ==
    LET removed == <<path[1], path[2], now>>
    IN  /\ xp.pc = "stray"
        /\ path \in xp.paths
        /\ IF CanRename(path, removed)
           THEN MoveDir(path, removed)
           ELSE UNCHANGED <<dirs, where>>
        /\ xp' = [xp EXCEPT !.paths = @ \ {path}]
        /\ UNCHANGED <<now, entry, open>>

\* A directory is stray when no entry of its name was listed.
VisitDir(path) ==
    LET removed == <<path[1], path[2], now>>
    IN  /\ xp.pc = "stray"
        /\ path \in xp.paths
        /\ IF <<path[2], Live>> \notin xp.names /\ CanRename(path, removed)
           THEN MoveDir(path, removed)
           ELSE UNCHANGED <<dirs, where>>
        /\ xp' = [xp EXCEPT !.paths = @ \ {path}]
        /\ UNCHANGED <<now, entry, open>>

\* For the removed names it is entries first, directories second.
ListRemovedEntries ==
    /\ xp.pc = "stray"
    /\ xp.paths = {}
    /\ xp' = [xp EXCEPT !.pc = "trash", !.names = RemovedKeys, !.spaces = Spaces]
    /\ UNCHANGED storeVars

ScanTrash(s) ==
    /\ xp.pc = "trash"
    /\ xp.paths = {}
    /\ s \in xp.spaces
    /\ xp' = [xp EXCEPT !.spaces = @ \ {s},
                        !.paths = {x \in dirs : x[1] = s /\ x[3] # Live}]
    /\ UNCHANGED storeVars

\* deldir: the time limit leaves the data in rest behind.
DelDir(path, rest) ==
    /\ rest = {} \/ rest \in SUBSET Contents(path) \ {Contents(path)}
    /\ RemoveTree(path, rest)

\* Mutation: every listed removed directory is deleted.
VisitAnyTrash(path, rest) ==
    /\ xp.pc = "trash"
    /\ path \in xp.paths
    /\ DelDir(path, rest)
    /\ xp' = [xp EXCEPT !.paths = @ \ {path}]
    /\ UNCHANGED <<now, entry, open>>

\* Mutation: removed directories without an entry are left alone.
LeaveTrash(path, rest) ==
    /\ xp.pc = "trash"
    /\ path \in xp.paths
    /\ rest = {}
    /\ xp' = [xp EXCEPT !.paths = @ \ {path}]
    /\ UNCHANGED storeVars

\* A removed directory without a removed entry is deleted at once.
VisitTrash(path, rest) ==
    /\ xp.pc = "trash"
    /\ path \in xp.paths
    /\ IF <<path[2], path[3]>> \notin xp.names
       THEN DelDir(path, rest)
       ELSE rest = {} /\ UNCHANGED <<dirs, where>>
    /\ xp' = [xp EXCEPT !.paths = @ \ {path}]
    /\ UNCHANGED <<now, entry, open>>

-----------------------------------------------------------------------------
(* Phase 2: expired workspaces                                             *)

ListLive ==
    /\ xp.pc = "trash"
    /\ xp.paths = {} /\ xp.spaces = {}
    /\ xp' = [Resting EXCEPT !.pc = "expire", !.todo = LiveKeys]
    /\ UNCHANGED storeVars

\* Mutation: a workspace is removed in the very second it expires.
VisitEntryEarly(k) ==
    /\ xp.pc = "expire"
    /\ k \in xp.todo
    /\ xp' = IF Readable(k) /\ now >= entry[k].exp
             THEN [xp EXCEPT !.pc = "retire", !.todo = @ \ {k},
                      !.job = [key |-> k, ent |-> entry[k], ts |-> now]]
             ELSE [xp EXCEPT !.todo = @ \ {k}]
    /\ UNCHANGED storeVars

\* The entry is read; only an unreadable one is skipped.
VisitEntry(k) ==
    /\ xp.pc = "expire"
    /\ k \in xp.todo
    /\ xp' = IF Readable(k) /\ now > entry[k].exp
             THEN [xp EXCEPT !.pc = "retire", !.todo = @ \ {k},
                      !.job = [key |-> k, ent |-> entry[k], ts |-> now]]
             ELSE [xp EXCEPT !.todo = @ \ {k}]
    /\ UNCHANGED storeVars

\* os.rename of the entry; that it has vanished ends the whole run.
ExpireEntry ==
    /\ xp.pc = "retire"
    /\ \/ /\ ~Exists(xp.job.key)
          /\ Abort
          /\ UNCHANGED <<entry, open>>
       \/ /\ Exists(xp.job.key)
          /\ RenameEntry(xp.job.key, <<xp.job.key[1], xp.job.ts>>)
          /\ xp' = [xp EXCEPT !.pc = "movedir"]
    /\ UNCHANGED <<now, dirs, where>>

\* Mutation: the timestamp is taken anew for the directory.
ExpireDirLater ==
    LET from == <<xp.job.ent.space, xp.job.key[1], Live>>
        to   == <<xp.job.ent.space, xp.job.key[1], now>>
    IN  /\ xp.pc = "movedir"
        /\ IF CanRename(from, to) THEN MoveDir(from, to)
                                  ELSE UNCHANGED <<dirs, where>>
        /\ xp' = [xp EXCEPT !.pc = "expire", !.job = None]
        /\ UNCHANGED <<now, entry, open>>

\* os.rename of the directory; a failure is only reported.
ExpireDir ==
    LET from == <<xp.job.ent.space, xp.job.key[1], Live>>
        to   == <<xp.job.ent.space, xp.job.key[1], xp.job.ts>>
    IN  /\ xp.pc = "movedir"
        /\ IF CanRename(from, to) THEN MoveDir(from, to)
                                  ELSE UNCHANGED <<dirs, where>>
        /\ xp' = [xp EXCEPT !.pc = "expire", !.job = None]
        /\ UNCHANGED <<now, entry, open>>

-----------------------------------------------------------------------------
(* Phase 3: removed workspaces over keeptime                               *)

ListRemoved ==
    /\ xp.pc = "expire"
    /\ xp.todo = {}
    /\ xp' = [xp EXCEPT !.pc = "reap", !.todo = RemovedKeys]
    /\ UNCHANGED storeVars

\* Mutation: a tick too early.
DueEarly(t, e) == \/ now >= t + KeepTime
                  \/ e.rel # Live /\ now > e.rel + Grace

\* t is the label of the removed name, e its entry.
Due(t, e) == \/ now > t + KeepTime
             \/ e.rel # Live /\ now > e.rel + Grace

VisitRemoved(k) ==
    /\ xp.pc = "reap"
    /\ k \in xp.todo
    /\ xp' = IF Readable(k) /\ Due(k[2], entry[k])
             THEN [xp EXCEPT !.pc = "unlink", !.todo = @ \ {k},
                      !.job = [key |-> k, ent |-> entry[k], ts |-> now]]
             ELSE [xp EXCEPT !.todo = @ \ {k}]
    /\ UNCHANGED storeVars

\* os.unlink of the entry; that it has vanished ends the whole run.
UnlinkRemoved ==
    /\ xp.pc = "unlink"
    /\ \/ /\ ~Exists(xp.job.key)
          /\ Abort
          /\ UNCHANGED <<entry, open>>
       \/ /\ Exists(xp.job.key)
          /\ UnlinkEntry(xp.job.key)
          /\ xp' = [xp EXCEPT !.pc = "deldir"]
    /\ UNCHANGED <<now, dirs, where>>

DeleteRemoved(rest) ==
    /\ xp.pc = "deldir"
    /\ DelDir(<<xp.job.ent.space, xp.job.key[1], xp.job.key[2]>>, rest)
    /\ xp' = [xp EXCEPT !.pc = "reap", !.job = None]
    /\ UNCHANGED <<now, entry, open>>

FinishRun ==
    /\ xp.pc = "reap"
    /\ xp.todo = {}
    /\ Abort
    /\ UNCHANGED storeVars

-----------------------------------------------------------------------------
ContinueRun ==
    \/ \E s \in Spaces : ScanSpace(s) \/ ScanTrash(s)
    \/ ListEntries
    \/ \E k \in Key : CheckEntry(k) \/ VisitEntry(k) \/ VisitRemoved(k)
    \/ \E path \in Path : VisitDir(path)
    \/ ListRemovedEntries
    \/ \E path \in Path, rest \in SUBSET Data : VisitTrash(path, rest)
    \/ ListLive
    \/ ExpireEntry
    \/ ExpireDir
    \/ ListRemoved
    \/ UnlinkRemoved
    \/ \E rest \in SUBSET Data : DeleteRemoved(rest)
    \/ FinishRun
=============================================================================
