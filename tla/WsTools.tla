------------------------------ MODULE WsTools ------------------------------
(***************************************************************************)
(* The tools a user or the administrator starts: ws_allocate (with and     *)
(* without -x), ws_release (with and without --delete-data), the user's    *)
(* ws_restore and the administrator's sbin/ws_restore.  Every process runs *)
(* one tool; a step is one system call on the shared stores, so any number *)
(* of processes interleave.  Steps that only end in an error message       *)
(* without having changed a store are left to the process staying idle.    *)
(***************************************************************************)
EXTENDS WsStore

CONSTANTS
    Ops,        \* the tools that are in use, a subset of AllOps
    Durations,  \* the durations users ask for, in ticks
    MaxCalls,   \* bound on the number of tools started
    MaxFaults   \* bound on the number of kills and failed writes

AllOps == {"allocate", "extend", "release", "wipe", "restore", "admin"}

ASSUME ToolAssumption ==
    /\ Ops \subseteq AllOps /\ None \notin AllOps
    /\ Durations \subseteq Nat
    /\ MaxCalls \in Nat /\ MaxFaults \in Nat

VARIABLES
    tool,    \* [Procs -> Process]: what each process is doing
    told,    \* [Ids -> SUBSET Spaces]: the paths printed for each workspace
    used,    \* [Ids -> Nat]: the prolongations granted since the creation
    calls,   \* the number of tools started so far
    faults   \* the number of processes killed and writes failed so far

toolVars == <<tool, told, used, calls, faults>>

ToolPc == {"idle", "mkdir", "create", "extend", "mark", "write", "retire",
           "movedir", "wipe", "forget", "lookup", "refill", "unlink",
           "revive", "putback"}

\* op is the tool, id the workspace named (for a restore: the deleted one),
\* ent the copy of its entry, ts the timestamp, to the directory a restore moves to.
Process == [pc : ToolPc, op : AllOps \cup {None}, id : Ids \cup {None},
            ent : Entry \cup {None}, ts : Label, to : Path \cup {None}]

Idle == [pc |-> "idle", op |-> None, id |-> None, ent |-> None,
         ts |-> Live, to |-> None]

\* What is known of a process from the position it has reached.
WellFormed(r) ==
    /\ r.pc # "idle" => r.id \in Ids
    /\ r.pc \notin {"idle", "mkdir", "lookup"} => r.ent \in Entry
    /\ r.pc \in {"lookup", "refill"} => r.to \in Path
    /\ r.pc \in {"retire", "movedir", "wipe", "forget"} => r.ts \in Time
    /\ r.op \in {"release", "wipe"} => r.ts \in Time

ToolTypeOK ==
    /\ tool \in [Procs -> Process]
    /\ \A p \in Procs : WellFormed(tool[p])
    /\ told \in [Ids -> SUBSET Spaces]
    /\ used \in [Ids -> Nat]
    /\ calls \in Nat /\ faults \in Nat

ToolInit ==
    /\ tool = [p \in Procs |-> Idle]
    /\ told = [i \in Ids |-> {}]
    /\ used = [i \in Ids |-> 0]
    /\ calls = 0 /\ faults = 0

At(p, pc)   == tool[p].pc = pc
Become(p, r) == tool' = [tool EXCEPT ![p] = r]
Goto(p, pc) == Become(p, [tool[p] EXCEPT !.pc = pc])
Exit(p)     == Become(p, Idle)

\* The path of the workspace is printed, and the jobs of the user learn it.
Tell(i, s) == told' = [told EXCEPT ![i] = @ \cup {s}]

\* A tool of kind op is started by process p.
Start(p, op) ==
    /\ At(p, "idle")
    /\ op \in Ops
    /\ calls < MaxCalls
    /\ calls' = calls + 1
    /\ UNCHANGED faults

Continue == UNCHANGED <<calls, faults>>

-----------------------------------------------------------------------------
(* ws_allocate                                                             *)

\* The entry exists: its path is printed and nothing else happens.
Reuse(p, i) ==
    /\ Start(p, "allocate")
    /\ Readable(<<i, Live>>)
    /\ Tell(i, entry[<<i, Live>>].space)
    /\ UNCHANGED <<storeVars, tool, used>>

\* The entry does not exist: the workspace has to be created.
Allocate(p, i) ==
    /\ Start(p, "allocate")
    /\ ~Exists(<<i, Live>>)
    /\ Become(p, [Idle EXCEPT !.pc = "mkdir", !.op = "allocate", !.id = i])
    /\ UNCHANGED <<storeVars, told, used>>

\* A space is selected and the directory created, if it is not there yet.
MakeDir(p, s) ==
    /\ At(p, "mkdir")
    /\ dirs' = dirs \cup {<<s, tool[p].id, Live>>}
    /\ Become(p, [tool[p] EXCEPT !.pc = "create",
                     !.ent = [space |-> s, exp |-> 0, ext |-> MaxExt, rel |-> Live]])
    /\ UNCHANGED <<now, entry, open, where, told, used>>
    /\ Continue

\* The entry file is created, or truncated if another process was faster.
CreateEntry(p, duration) ==
    /\ At(p, "create")
    /\ OpenEntry(p, <<tool[p].id, Live>>)
    /\ Become(p, [tool[p] EXCEPT !.pc = "write", !.ent.exp = now + duration])
    /\ used' = [used EXCEPT ![tool[p].id] = 0]
    /\ UNCHANGED <<now, dirs, where, told>>
    /\ Continue

\* ws_allocate -x: the entry is read; the released flag is not.
ReadForExtend(p, i) ==
    /\ Start(p, "extend")
    /\ Readable(<<i, Live>>)
    /\ Become(p, [Idle EXCEPT !.pc = "extend", !.op = "extend", !.id = i,
                     !.ent = [entry[<<i, Live>>] EXCEPT !.rel = Live]])
    /\ UNCHANGED <<storeVars, told, used>>

\* The expiration a duration gives; duration 0 leaves it as it is.
Prolonged(e, duration) == IF duration = 0 THEN e.exp ELSE now + duration

Longer(e, duration) == Prolonged(e, duration) > e.exp

\* An extension is consumed only when the workspace then lives longer.
Cost(e, duration) == IF Longer(e, duration) THEN 1 ELSE 0

\* History: the prolongations of workspace i are counted.
CountUse(i, e, duration) ==
    used' = IF Longer(e, duration) THEN [used EXCEPT ![i] = @ + 1] ELSE used

\* Mutation: use_extension without the check that an extension is left.
UseExtensionUnchecked(p, duration) ==
    LET e == tool[p].ent
        c == Cost(e, duration)
    IN  /\ At(p, "extend")
        /\ OpenEntry(p, <<tool[p].id, Live>>)
        /\ Become(p, [tool[p] EXCEPT !.pc = "write",
                         !.ent.exp = Prolonged(e, duration), !.ent.ext = e.ext - c])
        /\ CountUse(tool[p].id, e, duration)
        /\ UNCHANGED <<now, dirs, where, told>>
        /\ Continue

\* use_extension: refused when none is left, else the entry is rewritten.
UseExtension(p, duration) ==
    LET i == tool[p].id
        e == tool[p].ent
        c == Cost(e, duration)
    IN  /\ At(p, "extend")
        /\ \/ /\ e.ext < c
              /\ Exit(p)
              /\ UNCHANGED <<entry, open, used>>
           \/ /\ e.ext >= c
              /\ OpenEntry(p, <<i, Live>>)
              /\ Become(p, [tool[p] EXCEPT !.pc = "write",
                               !.ent.exp = Prolonged(e, duration),
                               !.ent.ext = e.ext - c])
              /\ CountUse(i, e, duration)
        /\ UNCHANGED <<now, dirs, where, told>>
        /\ Continue

-----------------------------------------------------------------------------
(* ws_release                                                              *)

\* The entry is read and the timestamp of the removed name taken.
ReadForRelease(p, i, op) ==
    /\ op \in {"release", "wipe"}
    /\ Start(p, op)
    /\ Readable(<<i, Live>>)
    /\ Become(p, [Idle EXCEPT !.pc = "mark", !.op = op, !.id = i, !.ts = now,
                     !.ent = entry[<<i, Live>>]])
    /\ UNCHANGED <<storeVars, told, used>>

\* The entry is rewritten: it expires now, and has the released flag.
MarkReleased(p) ==
    /\ At(p, "mark")
    /\ OpenEntry(p, <<tool[p].id, Live>>)
    /\ Become(p, [tool[p] EXCEPT !.pc = "write", !.ent.exp = now, !.ent.rel = now])
    /\ UNCHANGED <<now, dirs, where, told, used>>
    /\ Continue

\* Mutation: the file is opened by its name once more for the content.
FinishWriteByName(p) ==
    LET i == tool[p].id
    IN  /\ At(p, "write")
        /\ entry' = [entry EXCEPT ![<<i, Live>>] = tool[p].ent]
        /\ open' = [open EXCEPT ![p] = None]
        /\ IF tool[p].op \in {"allocate", "extend"}
           THEN Tell(i, tool[p].ent.space) /\ Exit(p)
           ELSE Goto(p, "retire") /\ UNCHANGED told
        /\ UNCHANGED <<now, dirs, where, used>>
        /\ Continue

\* The end of write_dbfile, for every tool that rewrites the entry.
FinishWrite(p) ==
    LET i == tool[p].id
    IN  /\ At(p, "write")
        /\ WriteEntry(p, tool[p].ent)
        /\ \/ /\ tool[p].op \in {"allocate", "extend"}
              /\ Tell(i, tool[p].ent.space)
              /\ Exit(p)
           \/ /\ tool[p].op \in {"release", "wipe"}
              /\ Goto(p, "retire")
              /\ UNCHANGED told
        /\ UNCHANGED <<now, dirs, where, used>>
        /\ Continue

\* Mutation: the directory is moved before the entry.
RetireDirFirst(p) ==
    LET i    == tool[p].id
        from == <<tool[p].ent.space, i, Live>>
    IN  /\ At(p, "retire")
        /\ from \in dirs
        /\ MoveDir(from, <<tool[p].ent.space, i, tool[p].ts>>)
        /\ Goto(p, "movedir")
        /\ UNCHANGED <<now, entry, open, told, used>>
        /\ Continue

\* The entry is moved to its removed name.
RetireEntry(p) ==
    LET i == tool[p].id
    IN  /\ At(p, "retire")
        /\ \/ /\ ~Exists(<<i, Live>>)
              /\ Exit(p)
              /\ UNCHANGED <<entry, open>>
           \/ /\ Exists(<<i, Live>>)
              /\ RenameEntry(<<i, Live>>, <<i, tool[p].ts>>)
              /\ Goto(p, "movedir")
        /\ UNCHANGED <<now, dirs, where, told, used>>
        /\ Continue

\* The directory follows it; mv moves it into a removed one that is not empty.
RetireDir(p) ==
    LET from == <<tool[p].ent.space, tool[p].id, Live>>
        to   == <<tool[p].ent.space, tool[p].id, tool[p].ts>>
    IN  /\ At(p, "movedir")
        /\ \/ /\ from \notin dirs
              /\ Exit(p)
              /\ UNCHANGED <<dirs, where>>
           \/ /\ from \in dirs
              /\ MoveDir(from, to)
              /\ IF tool[p].op = "wipe" THEN Goto(p, "wipe") ELSE Exit(p)
        /\ UNCHANGED <<now, entry, open, told, used>>
        /\ Continue

\* --delete-data: the removed directory is deleted, all but the data in rest
\* so far.  What cannot be deleted is reported, and the tool goes on all the
\* same ...
WipeData(p, rest) ==
    LET path == <<tool[p].ent.space, tool[p].id, tool[p].ts>>
    IN  /\ At(p, "wipe")
        /\ rest \in SUBSET Contents(path)
        /\ RemoveTree(path, rest)
        /\ \/ rest # Contents(path) /\ UNCHANGED tool
           \/ Goto(p, "forget")
        /\ UNCHANGED <<now, entry, open, told, used>>
        /\ Continue

\* ... and removes the entry as the last step.
ForgetEntry(p) ==
    /\ At(p, "forget")
    /\ UnlinkEntry(<<tool[p].id, tool[p].ts>>)
    /\ Exit(p)
    /\ UNCHANGED <<now, dirs, where, told, used>>
    /\ Continue

-----------------------------------------------------------------------------
(* ws_restore: the removed directory is moved into a live workspace        *)

\* The entry of the target gives the directory to move to.
ReadTarget(p, i, t, target) ==
    /\ Start(p, "restore")
    /\ Readable(<<target, Live>>)
    /\ Become(p, [Idle EXCEPT !.pc = "lookup", !.op = "restore", !.id = i, !.ts = t,
                     !.to = <<entry[<<target, Live>>].space, target, Live>>])
    /\ UNCHANGED <<storeVars, told, used>>

\* The removed entry gives the space the removed directory is in.
ReadSource(p) ==
    LET key == <<tool[p].id, tool[p].ts>>
    IN  /\ At(p, "lookup")
        /\ \/ /\ ~Readable(key)
              /\ Exit(p)
           \/ /\ Readable(key)
              /\ Become(p, [tool[p] EXCEPT !.pc = "refill", !.ent = entry[key]])
        /\ UNCHANGED <<storeVars, told, used>>
        /\ Continue

\* The data move into the target; without source or target they stay, and
\* so does the removed entry.
Refill(p) ==
    LET from == <<tool[p].ent.space, tool[p].id, tool[p].ts>>
    IN  /\ At(p, "refill")
        /\ \/ /\ {from, tool[p].to} \subseteq dirs
              /\ MoveDir(from, tool[p].to)
              /\ Goto(p, "unlink")
           \/ /\ ~({from, tool[p].to} \subseteq dirs)
              /\ Exit(p)
              /\ UNCHANGED <<dirs, where>>
        /\ UNCHANGED <<now, entry, open, told, used>>
        /\ Continue

UnlinkSource(p) ==
    /\ At(p, "unlink")
    /\ UnlinkEntry(<<tool[p].id, tool[p].ts>>)
    /\ Exit(p)
    /\ UNCHANGED <<now, dirs, where, told, used>>
    /\ Continue

-----------------------------------------------------------------------------
(* sbin/ws_restore: a removed workspace becomes live again under its name  *)

\* No live entry of the name, a readable removed entry and its directory.
CheckRevivable(p, i, t) ==
    LET e == entry[<<i, t>>]
    IN  /\ Start(p, "admin")
        /\ ~Exists(<<i, Live>>)
        /\ Readable(<<i, t>>)
        /\ <<e.space, i, t>> \in dirs
        /\ Become(p, [Idle EXCEPT !.pc = "revive", !.op = "admin", !.id = i,
                         !.ts = t, !.ent = e])
        /\ UNCHANGED <<storeVars, told, used>>

\* The entry is moved back as it is, over an entry created in the meantime.
ReviveEntry(p) ==
    LET from == <<tool[p].id, tool[p].ts>>
        to   == <<tool[p].id, Live>>
    IN  /\ At(p, "revive")
        /\ \/ /\ ~Exists(from)
              /\ Exit(p)
              /\ UNCHANGED <<entry, open>>
           \/ /\ Exists(from)
              /\ RenameEntry(from, to)
              /\ Goto(p, "putback")
        /\ UNCHANGED <<now, dirs, where, told, used>>
        /\ Continue

\* Then the directory; os.rename raises when it is gone or the place is taken.
PutBack(p) ==
    LET from == <<tool[p].ent.space, tool[p].id, tool[p].ts>>
        to   == <<tool[p].ent.space, tool[p].id, Live>>
    IN  /\ At(p, "putback")
        /\ \/ /\ CanRename(from, to)
              /\ MoveDir(from, to)
           \/ /\ ~CanRename(from, to)
              /\ UNCHANGED <<dirs, where>>
        /\ Exit(p)
        /\ UNCHANGED <<now, entry, open, told, used>>
        /\ Continue

-----------------------------------------------------------------------------
\* A job writes into a directory whose path was printed to its user.
JobWrites(d, s, i) ==
    /\ where[d] = Unwritten
    /\ s \in told[i]
    /\ <<s, i, Live>> \in dirs
    /\ where' = [where EXCEPT ![d] = <<s, i, Live>>]
    /\ UNCHANGED <<now, entry, open, dirs, toolVars>>

\* write_dbfile cannot open the file (a quota, a full or read-only disk): that
\* is reported only, the entry stays as it is, and the tool goes on.
OpenFails(p) ==
    /\ \/ At(p, "create")
       \/ At(p, "mark")
       \/ /\ At(p, "extend")
          /\ \E duration \in Durations : tool[p].ent.ext >= Cost(tool[p].ent, duration)
    /\ faults < MaxFaults
    /\ faults' = faults + 1
    /\ Goto(p, "write")
    /\ UNCHANGED <<storeVars, told, used, calls>>

\* The content, less than a buffer of the stream, is lost in the write or the
\* close: the file stays truncated, and the tool goes on here as well.
WriteFails(p) ==
    /\ At(p, "write")
    /\ open[p] # None
    /\ faults < MaxFaults
    /\ faults' = faults + 1
    /\ open' = [open EXCEPT ![p] = None]
    /\ UNCHANGED <<now, entry, dirs, where, tool, told, used, calls>>

\* A process is killed (a signal, a timeout of the batch system, a reboot);
\* so does a failing chown or chmod end ws_allocate after "mkdir".
Crash(p) ==
    /\ ~At(p, "idle")
    /\ faults < MaxFaults
    /\ faults' = faults + 1
    /\ open' = [open EXCEPT ![p] = None]
    /\ Exit(p)
    /\ UNCHANGED <<now, entry, dirs, where, told, used, calls>>

-----------------------------------------------------------------------------
\* A process starts a tool ...
Launch(p) ==
    \E i \in Ids :
        \/ Reuse(p, i)
        \/ Allocate(p, i)
        \/ ReadForExtend(p, i)
        \/ \E op \in {"release", "wipe"} : ReadForRelease(p, i, op)
        \/ \E t \in Time :
              \/ \E target \in Ids : ReadTarget(p, i, t, target)
              \/ CheckRevivable(p, i, t)

\* ... and goes on with it.
Proceed(p) ==
    \/ \E s \in Spaces : MakeDir(p, s)
    \/ \E duration \in Durations : CreateEntry(p, duration)
    \/ \E duration \in Durations : UseExtension(p, duration)
    \/ MarkReleased(p)
    \/ FinishWrite(p)
    \/ RetireEntry(p)
    \/ RetireDir(p)
    \/ \E rest \in SUBSET Data : WipeData(p, rest)
    \/ ForgetEntry(p)
    \/ ReadSource(p)
    \/ Refill(p)
    \/ UnlinkSource(p)
    \/ ReviveEntry(p)
    \/ PutBack(p)

\* No tool is between two of its steps.
ToolsIdle == \A p \in Procs : At(p, "idle")
=============================================================================
