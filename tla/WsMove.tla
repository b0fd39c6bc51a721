------------------------------- MODULE WsMove -------------------------------
(***************************************************************************)
(* How a directory changes its place on a file system where rename(2) of   *)
(* directories fails with EXDEV: ws_release and ws_restore fork a mv,      *)
(* which copies and then removes file by file, and go by what              *)
(* Workspace::mv returns; ws_expirer has no such fallback.  One workspace  *)
(* is released or expires and is restored into another one, while the      *)
(* expirer cleans up.                                                      *)
(* Places and entries are those of WsStore, here without their labels.     *)
(***************************************************************************)
EXTENDS Naturals

CONSTANTS
    Data,       \* the files of the workspace
    Faults,     \* what may go wrong: a subset of AllFaults
    MaxCalls,   \* bound on the number of releases and restores
    None

AllFaults == {"fork", "exec", "kill", "mv"}

ASSUME MoveAssumption == Faults \subseteq AllFaults /\ MaxCalls \in Nat

Place  == {"live", "removed", "target"}
Proc   == {"tool", "child"}

VARIABLES
    at,     \* [Place -> SUBSET Data]: the files found there
    dirs,   \* SUBSET Place: the directories that exist
    entry,  \* where the entry of the workspace is: "live", "removed", "none"
    job,    \* the command: op, and the places it moves from and to
    pc,     \* [Proc -> position]
    ret,    \* what Workspace::mv returned, or the rename
    said,   \* what the command has reported: None, "success", "failure"
    purged, \* history: removed data were deleted as due
    lied,   \* history: a ws_restore took 0 for a success that was none
    calls

vars == <<at, dirs, entry, job, pc, ret, said, purged, lied, calls>>

Pc == {"none", "rename", "fork", "wait", "exec", "copy", "remove", "finish"}
Moves == [op : {"release", "expire", "restore"}, from : Place, to : Place]

MoveTypeOK ==
    /\ at \in [Place -> SUBSET Data]
    /\ \A x \in Place \ dirs : at[x] = {}
    /\ entry \in {"live", "removed", "none"}
    /\ job \in Moves \cup {None}
    /\ pc \in [Proc -> Pc]
    /\ pc["child"] # "none" => pc["tool"] = "wait"
    /\ ret \in {0, 1}
    /\ said \in {None, "success", "failure"}

Init ==
    /\ at = [x \in Place |-> IF x = "live" THEN Data ELSE {}]
    /\ dirs = {"live"}
    /\ entry = "live"
    /\ job = None /\ said = None /\ ret = 0
    /\ pc = [p \in Proc |-> "none"]
    /\ purged = FALSE /\ lied = FALSE /\ calls = 0

Goto(p, position) == pc' = [pc EXCEPT ![p] = position]

AtRest == pc["tool"] = "none"

-----------------------------------------------------------------------------
Begin(op, from, to) ==
    /\ AtRest
    /\ calls < MaxCalls
    /\ calls' = calls + 1
    /\ job' = [op |-> op, from |-> from, to |-> to]
    /\ said' = None
    /\ Goto("tool", "rename")
    /\ UNCHANGED <<at, dirs, ret, purged, lied>>

\* ws_release, or the expirer, has moved the entry and comes to the directory.
Retire(op) ==
    /\ op \in {"release", "expire"}
    /\ entry = "live"
    /\ entry' = "removed"
    /\ Begin(op, "live", "removed")

\* ws_restore goes by the removed entry.
Restore ==
    /\ entry = "removed"
    /\ Begin("restore", "removed", "target")
    /\ UNCHANGED entry

\* rename(2) fails: release falls back on every failure, restore on EXDEV, that
\* is if there is something to rename; the expirer reports it and goes on.
RenameDir ==
    /\ pc["tool"] = "rename"
    /\ ret' = 1
    /\ IF job.op = "release" \/ (job.op = "restore" /\ job.from \in dirs)
       THEN Goto("tool", "fork")
       ELSE Goto("tool", "finish")
    /\ UNCHANGED <<at, dirs, entry, job, said, purged, lied, calls>>

Misleading == ret' = 0 /\ lied' = (lied \/ job.op = "restore")

\* Mutation: the tool does not wait for the child.
ForkAndGoOn ==
    /\ pc["tool"] = "fork"
    /\ pc' = [tool |-> "finish", child |-> "exec"]
    /\ Misleading
    /\ UNCHANGED <<at, dirs, entry, job, said, purged, calls>>

\* Workspace::mv: when fork fails, it returns 0 like after a successful mv.
Fork ==
    /\ pc["tool"] = "fork"
    /\ \/ /\ pc' = [tool |-> "wait", child |-> "exec"]
          /\ UNCHANGED <<ret, lied>>
       \/ /\ "fork" \in Faults
          /\ Misleading
          /\ Goto("tool", "finish")
    /\ UNCHANGED <<at, dirs, entry, job, said, purged, calls>>

\* The child ends, and waitpid gives the tool the exit status.
ChildEnds(status) ==
    /\ ret' = status
    /\ pc' = [tool |-> "finish", child |-> "none"]
    /\ UNCHANGED <<entry, job, said, purged, calls>>

\* /bin/mv starts, and refuses a missing source and a target that is not empty.
Exec ==
    /\ pc["child"] = "exec"
    /\ \/ /\ job.from \in dirs /\ at[job.to] = {}
          /\ dirs' = dirs \cup {job.to}
          /\ Goto("child", "copy")
          /\ UNCHANGED <<entry, job, ret, said, purged, lied, calls>>
       \/ /\ (job.from \notin dirs \/ at[job.to] # {})
          /\ ChildEnds(1)
          /\ UNCHANGED <<dirs, lied>>
    /\ UNCHANGED at

\* execl fails: the child returns 0 from mv and goes on as a second tool.
ExecFails ==
    /\ pc["child"] = "exec"
    /\ "exec" \in Faults
    /\ Misleading
    /\ Goto("child", "finish")
    /\ UNCHANGED <<at, dirs, entry, job, said, purged, calls>>

\* mv copies every file of the source, as far as source and target exist ...
Copy(d) ==
    /\ pc["child"] = "copy"
    /\ d \in at[job.from] \ at[job.to]
    /\ job.to \in dirs
    /\ at' = [at EXCEPT ![job.to] = @ \cup {d}]
    /\ UNCHANGED <<dirs, entry, job, pc, ret, said, purged, lied, calls>>

Copied ==
    /\ pc["child"] = "copy"
    /\ at[job.from] \subseteq at[job.to]
    /\ IF {job.from, job.to} \subseteq dirs
       THEN /\ Goto("child", "remove")
            /\ UNCHANGED <<entry, job, ret, said, purged, lied, calls>>
       ELSE ChildEnds(1) /\ UNCHANGED lied
    /\ UNCHANGED <<at, dirs>>

\* ... and only then removes them, the directory last.
Remove(d) ==
    /\ pc["child"] = "remove"
    /\ d \in at[job.from]
    /\ at' = [at EXCEPT ![job.from] = @ \ {d}]
    /\ UNCHANGED <<dirs, entry, job, pc, ret, said, purged, lied, calls>>

Removed ==
    /\ pc["child"] = "remove"
    /\ at[job.from] = {}
    /\ dirs' = dirs \ {job.from}
    /\ ChildEnds(0)
    /\ UNCHANGED <<at, lied>>

\* mv gives up with the status 1: no space, no permission ...
MvFails ==
    /\ pc["child"] \in {"copy", "remove"}
    /\ "mv" \in Faults \/ job.to \notin dirs
    /\ ChildEnds(1)
    /\ UNCHANGED <<at, dirs, lied>>

\* ... and when a signal kills it, WEXITSTATUS is 0.
MvKilled ==
    /\ pc["child"] \in {"copy", "remove"}
    /\ "kill" \in Faults
    /\ ChildEnds(0)
    /\ lied' = (lied \/ job.op = "restore")
    /\ UNCHANGED <<at, dirs>>

\* Mutation: ws_restore removes the entry whatever mv returned.
FinishAnyhow(p) ==
    /\ pc[p] = "finish"
    /\ entry' = IF job.op = "restore" THEN "none" ELSE entry
    /\ said' = IF ret = 0 THEN "success" ELSE "failure"
    /\ job' = IF p = "tool" THEN None ELSE job
    /\ pc' = IF p = "tool" THEN [pc EXCEPT !["tool"] = "none"]
             ELSE [tool |-> "finish", child |-> "none"]
    /\ UNCHANGED <<at, dirs, ret, purged, lied, calls>>

\* The rest of the command: ws_restore removes the entry if all went well.  A
\* child that came here ends with the status 0.
Finish(p) ==
    /\ pc[p] = "finish"
    /\ entry' = IF job.op = "restore" /\ ret = 0 THEN "none" ELSE entry
    /\ said' = IF ret = 0 THEN "success" ELSE "failure"
    /\ job' = IF p = "tool" THEN None ELSE job
    /\ pc' = IF p = "tool" THEN [pc EXCEPT !["tool"] = "none"]
             ELSE [tool |-> "finish", child |-> "none"]
    /\ UNCHANGED <<at, dirs, ret, purged, lied, calls>>

-----------------------------------------------------------------------------
(* The expirer, at any time                                                *)

\* Mutation: the fallback the comment asks for, without anything else.
StrayMoved ==
    /\ "live" \in dirs /\ entry # "live"
    /\ dirs' = dirs \ {"live"}
    /\ at' = [at EXCEPT !["live"] = {}]
    /\ UNCHANGED <<entry, job, pc, ret, said, purged, lied, calls>>

\* Phase 1 would give a live directory without an entry a removed name of its
\* own, and delete it in the same run as no entry has that name; it cannot.
Stray == "live" \in dirs /\ entry # "live" /\ UNCHANGED vars

\* Phase 1 deletes a removed directory without an entry.
StrayRemoved ==
    /\ "removed" \in dirs /\ entry # "removed"
    /\ dirs' = dirs \ {"removed"}
    /\ at' = [at EXCEPT !["removed"] = {}]
    /\ UNCHANGED <<entry, job, pc, ret, said, purged, lied, calls>>

\* Phase 3: the keeptime is over.
Purge ==
    /\ entry = "removed"
    /\ entry' = "none"
    /\ purged' = TRUE
    /\ dirs' = dirs \ {"removed"}
    /\ at' = [at EXCEPT !["removed"] = {}]
    /\ UNCHANGED <<job, pc, ret, said, lied, calls>>

Next ==
    \/ \E op \in {"release", "expire"} : Retire(op)
    \/ Restore
    \/ RenameDir
    \/ Fork
    \/ Exec
    \/ ExecFails
    \/ \E d \in Data : Copy(d) \/ Remove(d)
    \/ Copied
    \/ Removed
    \/ MvFails
    \/ MvKilled
    \/ \E p \in Proc : Finish(p)
    \/ Stray
    \/ StrayRemoved
    \/ Purge

Spec == Init /\ [][Next]_vars

-----------------------------------------------------------------------------
\* ws_restore removes the entry of the removed data.
Unlinks == entry = "removed" /\ entry' = "none" /\ \E p \in Proc :
              pc[p] = "finish" /\ pc'[p] # "finish" /\ job.op = "restore"

\* Nothing but the expirer after the keeptime loses a file: not a ws_release
\* or ws_restore that stops half way through a copy, not a ws_release that
\* takes a failure for a success, and not the expirer that runs meanwhile, as
\* long as ws_restore goes by a mv that tells the truth.
NothingLost == ~purged /\ ~lied => UNION {at[x] : x \in Place} = Data

\* ws_restore leaves no file behind under a removed name without an entry, where
\* the expirer would take it for stray, if mv tells the truth.
NoneLeftBehind == [][Unlinks /\ ~lied => at["removed"] = {}]_vars

\* "Info: restore successful, database entry removed.": the data have moved.
RestoreSuccessful == [][Unlinks => at["removed"] = {}]_vars

\* "all the tools fall back from os.rename() to the Linux command mv if needed":
\* ws_expirer is done with an expired workspace when its directory has moved.
AllFallBack ==
    [][job # None /\ job' = None => job.op # "expire" \/ "live" \notin dirs]_vars
=============================================================================
