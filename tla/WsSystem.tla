------------------------------ MODULE WsSystem ------------------------------
(***************************************************************************)
(* One workspace location: the tools and the expirer at work on the same   *)
(* stores, with nothing but the order of their system calls to keep them   *)
(* apart.  Quiet describes a site that runs the expirer only while no tool *)
(* runs; otherwise every interleaving is possible.                         *)
(***************************************************************************)
EXTENDS WsTools, WsExpirer

CONSTANT Quiet  \* TRUE: no tool runs during a run of the expirer

ASSUME QuietAssumption == Quiet \in BOOLEAN

VARIABLES
    held,      \* history: the entries that exist since the run of the expirer began
    lapsed,    \* history: the workspaces that were expired at a moment of that run
    clobbered, \* history: the removed entries that a later removal replaced
    waived,    \* history: the removed names with data their user had deleted
    reaped,    \* history: the removed names the expirer took for a release long ago
    unmarked   \* history: the removed names whose release could not be written down

histVars == <<held, lapsed, clobbered, waived, reaped, unmarked>>
vars == <<storeVars, toolVars, xp, histVars>>

Running == xp.pc # "idle"

Existing == {k \in Key : Exists(k)}
Expired  == {i \in Ids : Readable(<<i, Live>>) /\ now > entry[<<i, Live>>].exp}

\* A removal takes a removed name that is in use.
Reused(k) ==
    /\ Exists(k)
    /\ \/ \E p \in Procs : /\ At(p, "retire") /\ tool'[p].pc = "movedir"
                          /\ k = <<tool[p].id, tool[p].ts>>
       \/ /\ xp.pc = "retire" /\ xp'.pc = "movedir"
          /\ k = <<xp.job.key[1], xp.job.ts>>

\* The history of the current run from the state it started in, and of the
\* removed names.
Observe ==
    /\ held'   = IF ~Running' THEN {}
                 ELSE (IF Running THEN held ELSE Key) \cap Existing'
    /\ lapsed' = IF ~Running' THEN {} ELSE lapsed \cup Expired'
    /\ clobbered' = clobbered \cup {k \in Key : Reused(k)}
    /\ waived' = waived \cup {k \in Key : \E p \in Procs :
                                  At(p, "wipe") /\ k = <<tool[p].id, tool[p].ts>>}
    /\ reaped' = reaped \cup {k \in Key :
                      /\ xp.pc = "unlink" /\ xp'.pc = "deldir" /\ k = xp.job.key
                      /\ xp.job.ent.rel # Live /\ now > xp.job.ent.rel + Grace}
    /\ unmarked' = unmarked \cup {k \in Key : \E p \in Procs :
                      /\ At(p, "mark") /\ tool'[p].pc = "write" /\ open'[p] = None
                      /\ k = <<tool[p].id, tool[p].ts>>}

TypeOK ==
    /\ StoreTypeOK
    /\ ToolTypeOK
    /\ ExpirerTypeOK
    /\ held \in SUBSET Key
    /\ lapsed \in SUBSET Ids
    /\ {clobbered, waived, reaped, unmarked} \subseteq SUBSET Key

Init ==
    /\ StoreInit
    /\ ToolInit
    /\ ExpirerInit
    /\ held = {} /\ lapsed = {}
    /\ clobbered = {} /\ waived = {} /\ reaped = {} /\ unmarked = {}

ClockTicks  == Tick /\ UNCHANGED <<toolVars, xp>>
ToolStarts  == /\ Quiet => ~Running
               /\ \E p \in Procs : Launch(p)
               /\ UNCHANGED xp
ToolStep(p) == Proceed(p) /\ UNCHANGED xp
ToolCrashes == (\E p \in Procs : Crash(p)) /\ UNCHANGED xp
DiskFails   == (\E p \in Procs : OpenFails(p) \/ WriteFails(p)) /\ UNCHANGED xp
JobStep     == /\ \E d \in Data, s \in Spaces, i \in Ids : JobWrites(d, s, i)
               /\ UNCHANGED xp
RunStarts   == /\ Quiet => ToolsIdle
               /\ StartRun
               /\ UNCHANGED toolVars
RunStep     == ContinueRun /\ UNCHANGED toolVars

\* The expirer is killed, or the machine it runs on goes down.
RunCrashes  == /\ Running
               /\ faults < MaxFaults
               /\ faults' = faults + 1
               /\ Abort
               /\ UNCHANGED <<storeVars, tool, told, used, calls>>

Next ==
    /\ \/ ClockTicks
       \/ ToolStarts
       \/ \E p \in Procs : ToolStep(p)
       \/ ToolCrashes
       \/ DiskFails
       \/ JobStep
       \/ RunStarts
       \/ RunStep
       \/ RunCrashes
    /\ Observe

Spec == Init /\ [][Next]_vars

\* The clock runs, a started tool goes on until it ends, and cron starts the
\* expirer again and again.  Nobody is obliged to start a tool.
Fairness ==
    /\ WF_vars(ClockTicks /\ Observe)
    /\ \A p \in Procs : WF_vars(ToolStep(p) /\ Observe)
    /\ WF_vars(RunStarts /\ Observe)
    /\ WF_vars(RunStep /\ Observe)

FairSpec == Spec /\ Fairness
=============================================================================
