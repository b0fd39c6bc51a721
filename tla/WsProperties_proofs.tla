------------------------ MODULE WsProperties_proofs ------------------------
(***************************************************************************)
(* Proofs about WsSystem for every set of names, spaces and processes,     *)
(* every bound and every configuration: first its types, then the          *)
(* properties of WsProperties that hold under every interleaving.  These   *)
(* follow from RunInv, which relates the lists and the copies of the       *)
(* expirer to what the stores have contained since its run began.          *)
(***************************************************************************)
EXTENDS WsProperties, FiniteSetTheorems, TLAPS

USE StoreAssumption, ToolAssumption, ExpirerAssumption, QuietAssumption

-----------------------------------------------------------------------------
(* The system calls keep the types of the stores.                          *)

EntryTypeOK == /\ entry \in [Key -> Entry \cup {Empty, None}]
               /\ open \in [Procs -> Key \cup {None}]

DirTypeOK == /\ dirs \in SUBSET Path
             /\ where \in [Data -> Path \cup {Unwritten, Gone}]

LEMMA KeyInKey == \A i \in Ids, l \in Label : <<i, l>> \in Key
BY DEF Key

LEMMA LiveLabel == Live \in Label /\ Time \subseteq Label /\ Time \subseteq Nat
                   /\ Label \subseteq Nat
BY DEF Live, Label, Time

LEMMA RenameTypes ==
    ASSUME EntryTypeOK, NEW from \in Key, NEW to \in Key, RenameEntry(from, to)
    PROVE  EntryTypeOK'
BY DEF EntryTypeOK, RenameEntry

LEMMA UnlinkTypes ==
    ASSUME EntryTypeOK, NEW k \in Key, UnlinkEntry(k)
    PROVE  EntryTypeOK'
BY DEF EntryTypeOK, UnlinkEntry

LEMMA OpenTypes ==
    ASSUME EntryTypeOK, NEW p \in Procs, NEW k \in Key, OpenEntry(p, k)
    PROVE  EntryTypeOK'
BY DEF EntryTypeOK, OpenEntry

LEMMA WriteTypes ==
    ASSUME EntryTypeOK, NEW p \in Procs, NEW e \in Entry, WriteEntry(p, e)
    PROVE  EntryTypeOK'
BY DEF EntryTypeOK, WriteEntry

LEMMA MoveTypes ==
    ASSUME DirTypeOK, NEW from \in Path, NEW to \in Path, MoveDir(from, to)
    PROVE  DirTypeOK'
BY DEF DirTypeOK, MoveDir

LEMMA RemoveTypes ==
    ASSUME DirTypeOK, NEW path \in Path, NEW rest, RemoveTree(path, rest)
    PROVE  DirTypeOK'
BY DEF DirTypeOK, RemoveTree

LEMMA StoreTypes == StoreTypeOK <=> (now \in Time /\ EntryTypeOK /\ DirTypeOK)
BY DEF StoreTypeOK, EntryTypeOK, DirTypeOK

LEMMA BecomeTypes ==
    ASSUME tool \in [Procs -> Process], \A p \in Procs : WellFormed(tool[p]),
           NEW p \in Procs, NEW r \in Process, WellFormed(r), Become(p, r)
    PROVE  /\ tool' \in [Procs -> Process]
           /\ \A q \in Procs : WellFormed(tool'[q])
BY DEF Become

-----------------------------------------------------------------------------
(* Every step of a tool keeps the types.                                   *)

ToolsOK == StoreTypeOK /\ ToolTypeOK

LEMMA IdleWellFormed == Idle \in Process /\ WellFormed(Idle)
BY LiveLabel DEF Idle, Process, WellFormed, ToolPc, AllOps

LEMMA CountTypes ==
    ASSUME ToolTypeOK, NEW p \in Procs, NEW op, Start(p, op) \/ Continue
    PROVE  calls' \in Nat /\ faults' \in Nat
BY DEF ToolTypeOK, Start, Continue

LEMMA ReuseTypes ==
    ASSUME ToolsOK, NEW p \in Procs, NEW i \in Ids, Reuse(p, i)
    PROVE  ToolsOK'
<1>1. entry[<<i, Live>>].space \in Spaces
  BY LiveLabel DEF Reuse, Readable, Entry
<1>2. StoreTypeOK'
  BY DEF ToolsOK, Reuse, StoreTypeOK, storeVars
<1>3. calls' \in Nat /\ faults' \in Nat
  BY CountTypes DEF ToolsOK, Reuse
<1>4. told' \in [Ids -> SUBSET Spaces]
  BY <1>1 DEF ToolsOK, ToolTypeOK, Reuse, Tell
<1>5. UNCHANGED <<tool, used>>
  BY DEF Reuse
<1> QED
  BY <1>2, <1>3, <1>4, <1>5 DEF ToolsOK, ToolTypeOK

LEMMA AllocateTypes ==
    ASSUME ToolsOK, NEW p \in Procs, NEW i \in Ids, Allocate(p, i)
    PROVE  ToolsOK'
<1> DEFINE r == [Idle EXCEPT !.pc = "mkdir", !.op = "allocate", !.id = i]
<1>1. r \in Process /\ WellFormed(r)
  BY LiveLabel DEF Idle, Process, WellFormed, ToolPc, AllOps
<1>2. Become(p, r)
  BY DEF Allocate
<1> HIDE DEF r
<1>3. tool' \in [Procs -> Process] /\ \A q \in Procs : WellFormed(tool'[q])
  BY <1>1, <1>2, BecomeTypes DEF ToolsOK, ToolTypeOK
<1>4. calls' \in Nat /\ faults' \in Nat
  BY CountTypes DEF ToolsOK, Allocate
<1>5. UNCHANGED <<storeVars, told, used>>
  BY DEF Allocate
<1> QED
  BY <1>3, <1>4, <1>5 DEF ToolsOK, ToolTypeOK, StoreTypeOK, storeVars

LEMMA MakeDirTypes ==
    ASSUME ToolsOK, NEW p \in Procs, NEW s \in Spaces, MakeDir(p, s)
    PROVE  ToolsOK'
<1> DEFINE r == [tool[p] EXCEPT !.pc = "create",
                    !.ent = [space |-> s, exp |-> 0, ext |-> MaxExt, rel |-> Live]]
<1>1. tool[p] \in Process /\ WellFormed(tool[p]) /\ tool[p].pc = "mkdir"
  BY DEF ToolsOK, ToolTypeOK, MakeDir, At
<1>2. [space |-> s, exp |-> 0, ext |-> MaxExt, rel |-> Live] \in Entry
  BY LiveLabel DEF Entry
<1>3. r \in Process /\ WellFormed(r)
  BY <1>1, <1>2 DEF Process, WellFormed, ToolPc
<1>4. Become(p, r)
  BY DEF MakeDir
<1> HIDE DEF r
<1>5. tool' \in [Procs -> Process] /\ \A q \in Procs : WellFormed(tool'[q])
  BY <1>3, <1>4, BecomeTypes DEF ToolsOK, ToolTypeOK
<1>6. calls' \in Nat /\ faults' \in Nat
  BY CountTypes DEF ToolsOK, MakeDir
<1>7. dirs' \in SUBSET Path
  BY <1>1, LiveLabel DEF ToolsOK, StoreTypeOK, MakeDir, Path, WellFormed
<1>8. UNCHANGED <<now, entry, open, where, told, used>>
  BY DEF MakeDir
<1> QED
  BY <1>5, <1>6, <1>7, <1>8 DEF ToolsOK, ToolTypeOK, StoreTypeOK

LEMMA CreateEntryTypes ==
    ASSUME ToolsOK, NEW p \in Procs, NEW duration \in Durations,
           CreateEntry(p, duration)
    PROVE  ToolsOK'
<1> DEFINE r == [tool[p] EXCEPT !.pc = "write", !.ent.exp = now + duration]
<1>1. /\ tool[p] \in Process /\ WellFormed(tool[p]) /\ tool[p].pc = "create"
      /\ tool[p].ent \in Entry /\ tool[p].id \in Ids
  BY DEF ToolsOK, ToolTypeOK, CreateEntry, At, WellFormed
<1>2. now + duration \in Nat
  BY DEF ToolsOK, StoreTypeOK, Time
<1>3. r \in Process /\ WellFormed(r)
  BY <1>1, <1>2 DEF Process, WellFormed, ToolPc, Entry
<1>4. Become(p, r)
  BY DEF CreateEntry
<1> HIDE DEF r
<1>5. tool' \in [Procs -> Process] /\ \A q \in Procs : WellFormed(tool'[q])
  BY <1>3, <1>4, BecomeTypes DEF ToolsOK, ToolTypeOK
<1>6. calls' \in Nat /\ faults' \in Nat
  BY CountTypes DEF ToolsOK, CreateEntry
<1>7. EntryTypeOK'
  BY <1>1, LiveLabel, KeyInKey, OpenTypes, StoreTypes DEF ToolsOK, CreateEntry
<1>8. used' \in [Ids -> Nat]
  BY <1>1 DEF ToolsOK, ToolTypeOK, CreateEntry
<1>9. UNCHANGED <<now, dirs, where, told>>
  BY DEF CreateEntry
<1> QED
  BY <1>5, <1>6, <1>7, <1>8, <1>9
  DEF ToolsOK, ToolTypeOK, StoreTypeOK, EntryTypeOK

LEMMA ReadForExtendTypes ==
    ASSUME ToolsOK, NEW p \in Procs, NEW i \in Ids, ReadForExtend(p, i)
    PROVE  ToolsOK'
<1> DEFINE e == [entry[<<i, Live>>] EXCEPT !.rel = Live]
           r == [Idle EXCEPT !.pc = "extend", !.op = "extend", !.id = i, !.ent = e]
<1>1. e \in Entry
  BY LiveLabel DEF ReadForExtend, Readable, Entry
<1>2. r \in Process /\ WellFormed(r)
  BY <1>1, LiveLabel DEF Idle, Process, WellFormed, ToolPc, AllOps
<1>3. Become(p, r)
  BY DEF ReadForExtend
<1> HIDE DEF r
<1>4. tool' \in [Procs -> Process] /\ \A q \in Procs : WellFormed(tool'[q])
  BY <1>2, <1>3, BecomeTypes DEF ToolsOK, ToolTypeOK
<1>5. calls' \in Nat /\ faults' \in Nat
  BY CountTypes DEF ToolsOK, ReadForExtend
<1>6. UNCHANGED <<storeVars, told, used>>
  BY DEF ReadForExtend
<1> QED
  BY <1>4, <1>5, <1>6 DEF ToolsOK, ToolTypeOK, StoreTypeOK, storeVars

LEMMA UseExtensionTypes ==
    ASSUME ToolsOK, NEW p \in Procs, NEW duration \in Durations,
           UseExtension(p, duration)
    PROVE  ToolsOK'
<1> DEFINE e == tool[p].ent
           c == Cost(e, duration)
           x == Prolonged(e, duration)
           r == [tool[p] EXCEPT !.pc = "write", !.ent.exp = x, !.ent.ext = e.ext - c]
<1>1. /\ tool[p] \in Process /\ WellFormed(tool[p]) /\ tool[p].pc = "extend"
      /\ e \in Entry /\ tool[p].id \in Ids
  BY DEF ToolsOK, ToolTypeOK, UseExtension, At, WellFormed
<1>2. x \in Nat
  BY <1>1 DEF ToolsOK, StoreTypeOK, Time, Prolonged, Entry
<1>3. c \in {0, 1}
  BY DEF Cost
<1>4. calls' \in Nat /\ faults' \in Nat
  BY CountTypes DEF ToolsOK, UseExtension
<1>5. UNCHANGED <<now, dirs, where, told>>
  BY DEF UseExtension
<1>6. CASE Exit(p) /\ UNCHANGED <<entry, open, used>>
  BY <1>4, <1>5, <1>6, IdleWellFormed, BecomeTypes
  DEF ToolsOK, ToolTypeOK, StoreTypeOK, Exit
<1>7. CASE /\ e.ext >= c
           /\ OpenEntry(p, <<tool[p].id, Live>>)
           /\ Become(p, r)
           /\ CountUse(tool[p].id, e, duration)
  <2>1. e.ext - c \in 0 .. MaxExt
    BY <1>1, <1>3, <1>7 DEF Entry
  <2>2. r \in Process /\ WellFormed(r)
    <3> HIDE DEF x, c
    <3> QED BY <1>1, <1>2, <2>1 DEF Process, WellFormed, ToolPc, Entry
  <2>3. tool' \in [Procs -> Process] /\ \A q \in Procs : WellFormed(tool'[q])
    <3> HIDE DEF r
    <3> QED BY <1>7, <2>2, BecomeTypes DEF ToolsOK, ToolTypeOK
  <2>4. EntryTypeOK'
    BY <1>1, <1>7, LiveLabel, KeyInKey, OpenTypes, StoreTypes DEF ToolsOK
  <2>5. used' \in [Ids -> Nat]
    BY <1>1, <1>7 DEF ToolsOK, ToolTypeOK, CountUse
  <2> QED
    BY <1>4, <1>5, <2>3, <2>4, <2>5
    DEF ToolsOK, ToolTypeOK, StoreTypeOK, EntryTypeOK
<1> QED
  BY <1>6, <1>7 DEF UseExtension

LEMMA ReadForReleaseTypes ==
    ASSUME ToolsOK, NEW p \in Procs, NEW i \in Ids, NEW op,
           ReadForRelease(p, i, op)
    PROVE  ToolsOK'
<1> DEFINE r == [Idle EXCEPT !.pc = "mark", !.op = op, !.id = i, !.ts = now,
                    !.ent = entry[<<i, Live>>]]
<1>1. op \in {"release", "wipe"} /\ entry[<<i, Live>>] \in Entry /\ now \in Time
  BY DEF ToolsOK, StoreTypeOK, ReadForRelease, Readable
<1>2. r \in Process /\ WellFormed(r)
  BY <1>1, LiveLabel DEF Idle, Process, WellFormed, ToolPc, AllOps
<1>3. Become(p, r)
  BY DEF ReadForRelease
<1> HIDE DEF r
<1>4. tool' \in [Procs -> Process] /\ \A q \in Procs : WellFormed(tool'[q])
  BY <1>2, <1>3, BecomeTypes DEF ToolsOK, ToolTypeOK
<1>5. calls' \in Nat /\ faults' \in Nat
  BY CountTypes DEF ToolsOK, ReadForRelease
<1>6. UNCHANGED <<storeVars, told, used>>
  BY DEF ReadForRelease
<1> QED
  BY <1>4, <1>5, <1>6 DEF ToolsOK, ToolTypeOK, StoreTypeOK, storeVars

LEMMA MarkReleasedTypes ==
    ASSUME ToolsOK, NEW p \in Procs, MarkReleased(p)
    PROVE  ToolsOK'
<1> DEFINE r == [tool[p] EXCEPT !.pc = "write", !.ent.exp = now, !.ent.rel = now]
<1>1. /\ tool[p] \in Process /\ WellFormed(tool[p]) /\ tool[p].pc = "mark"
      /\ tool[p].ent \in Entry /\ tool[p].id \in Ids
  BY DEF ToolsOK, ToolTypeOK, MarkReleased, At, WellFormed
<1>2. now \in Nat /\ now \in Label
  BY LiveLabel DEF ToolsOK, StoreTypeOK
<1>3. r \in Process /\ WellFormed(r)
  BY <1>1, <1>2 DEF Process, WellFormed, ToolPc, Entry
<1>4. Become(p, r)
  BY DEF MarkReleased
<1> HIDE DEF r
<1>5. tool' \in [Procs -> Process] /\ \A q \in Procs : WellFormed(tool'[q])
  BY <1>3, <1>4, BecomeTypes DEF ToolsOK, ToolTypeOK
<1>6. calls' \in Nat /\ faults' \in Nat
  BY CountTypes DEF ToolsOK, MarkReleased
<1>7. EntryTypeOK'
  BY <1>1, LiveLabel, KeyInKey, OpenTypes, StoreTypes DEF ToolsOK, MarkReleased
<1>8. UNCHANGED <<now, dirs, where, told, used>>
  BY DEF MarkReleased
<1> QED
  BY <1>5, <1>6, <1>7, <1>8
  DEF ToolsOK, ToolTypeOK, StoreTypeOK, EntryTypeOK

\* The steps that change no history: what is left to show of each of them.
LEMMA PlainStepTypes ==
    ASSUME ToolsOK, NEW p \in Procs, NEW r \in Process, WellFormed(r),
           Become(p, r), Continue, UNCHANGED <<now, told, used>>,
           EntryTypeOK', DirTypeOK'
    PROVE  ToolsOK'
<1>1. tool' \in [Procs -> Process] /\ \A q \in Procs : WellFormed(tool'[q])
  BY BecomeTypes DEF ToolsOK, ToolTypeOK
<1>2. calls' \in Nat /\ faults' \in Nat
  BY CountTypes DEF ToolsOK
<1> QED
  BY <1>1, <1>2
  DEF ToolsOK, ToolTypeOK, StoreTypeOK, EntryTypeOK, DirTypeOK

LEMMA SameEntryTypes ==
    ASSUME StoreTypeOK, UNCHANGED <<entry, open>>
    PROVE  EntryTypeOK'
BY DEF StoreTypeOK, EntryTypeOK

LEMMA SameDirTypes ==
    ASSUME StoreTypeOK, UNCHANGED <<dirs, where>>
    PROVE  DirTypeOK'
BY DEF StoreTypeOK, DirTypeOK

\* The removed and the live directory of the workspace a process works on.
LEMMA ToolPaths ==
    ASSUME ToolsOK, NEW p \in Procs,
           tool[p].pc \notin {"idle", "mkdir", "lookup"}
    PROVE  /\ tool[p] \in Process /\ tool[p].id \in Ids /\ tool[p].ent \in Entry
           /\ <<tool[p].id, Live>> \in Key /\ <<tool[p].id, tool[p].ts>> \in Key
           /\ <<tool[p].ent.space, tool[p].id, Live>> \in Path
           /\ <<tool[p].ent.space, tool[p].id, tool[p].ts>> \in Path
<1>1. tool[p] \in Process /\ WellFormed(tool[p])
  BY DEF ToolsOK, ToolTypeOK
<1>2. tool[p].id \in Ids /\ tool[p].ent \in Entry /\ tool[p].ts \in Label
  BY <1>1 DEF WellFormed, Process
<1>3. tool[p].ent.space \in Spaces
  BY <1>2 DEF Entry
<1> QED
  BY <1>1, <1>2, <1>3, LiveLabel DEF Key, Path

\* A process that goes on to a position which asks no more of its record.
LEMMA GotoWellFormed ==
    ASSUME ToolsOK, NEW p \in Procs,
           tool[p].pc \notin {"idle", "mkdir", "lookup"},
           NEW pc \in {"retire", "movedir", "wipe", "forget", "unlink", "putback"},
           pc \in {"retire", "movedir", "wipe", "forget"} => tool[p].ts \in Time
    PROVE  /\ [tool[p] EXCEPT !.pc = pc] \in Process
           /\ WellFormed([tool[p] EXCEPT !.pc = pc])
<1>1. tool[p] \in Process /\ WellFormed(tool[p])
  BY DEF ToolsOK, ToolTypeOK
<1> QED
  BY <1>1 DEF Process, WellFormed, ToolPc

LEMMA FinishWriteTypes ==
    ASSUME ToolsOK, NEW p \in Procs, FinishWrite(p)
    PROVE  ToolsOK'
<1>1. /\ tool[p] \in Process /\ WellFormed(tool[p]) /\ tool[p].pc = "write"
      /\ tool[p].ent \in Entry /\ tool[p].id \in Ids
  BY DEF ToolsOK, ToolTypeOK, FinishWrite, At, WellFormed
<1>2. EntryTypeOK' /\ DirTypeOK'
  BY <1>1, WriteTypes, StoreTypes, SameDirTypes DEF ToolsOK, FinishWrite
<1>3. calls' \in Nat /\ faults' \in Nat
  BY CountTypes DEF ToolsOK, FinishWrite
<1>4. CASE Tell(tool[p].id, tool[p].ent.space) /\ Exit(p)
  <2>1. told' \in [Ids -> SUBSET Spaces]
    BY <1>1, <1>4 DEF ToolsOK, ToolTypeOK, Tell, Entry
  <2>2. tool' \in [Procs -> Process] /\ \A q \in Procs : WellFormed(tool'[q])
    BY <1>4, IdleWellFormed, BecomeTypes DEF ToolsOK, ToolTypeOK, Exit
  <2> QED
    BY <1>2, <1>3, <2>1, <2>2
    DEF ToolsOK, ToolTypeOK, StoreTypeOK, EntryTypeOK, DirTypeOK, FinishWrite
<1>5. CASE tool[p].op \in {"release", "wipe"} /\ Goto(p, "retire") /\ UNCHANGED told
  <2> DEFINE r == [tool[p] EXCEPT !.pc = "retire"]
  <2>1. r \in Process /\ WellFormed(r)
    BY <1>1, <1>5, GotoWellFormed DEF WellFormed
  <2>2. Become(p, r)
    BY <1>5 DEF Goto
  <2> HIDE DEF r
  <2> QED
    BY <1>2, <1>5, <2>1, <2>2, PlainStepTypes DEF FinishWrite
<1> QED
  BY <1>4, <1>5 DEF FinishWrite

LEMMA RetireEntryTypes ==
    ASSUME ToolsOK, NEW p \in Procs, RetireEntry(p)
    PROVE  ToolsOK'
<1>1. tool[p].pc = "retire" /\ WellFormed(tool[p])
  BY DEF ToolsOK, ToolTypeOK, RetireEntry, At
<1>2. DirTypeOK'
  BY SameDirTypes DEF ToolsOK, RetireEntry
<1>3. CASE Exit(p) /\ UNCHANGED <<entry, open>>
  BY <1>2, <1>3, IdleWellFormed, SameEntryTypes, PlainStepTypes
  DEF ToolsOK, RetireEntry, Exit
<1>4. CASE /\ RenameEntry(<<tool[p].id, Live>>, <<tool[p].id, tool[p].ts>>)
           /\ Goto(p, "movedir")
  <2> DEFINE r == [tool[p] EXCEPT !.pc = "movedir"]
  <2>1. r \in Process /\ WellFormed(r)
    BY <1>1, GotoWellFormed DEF WellFormed
  <2>2. Become(p, r)
    BY <1>4 DEF Goto
  <2>3. EntryTypeOK'
    BY <1>1, <1>4, ToolPaths, RenameTypes, StoreTypes DEF ToolsOK
  <2> HIDE DEF r
  <2> QED
    BY <1>2, <2>1, <2>2, <2>3, PlainStepTypes DEF RetireEntry
<1> QED
  BY <1>3, <1>4 DEF RetireEntry

LEMMA RetireDirTypes ==
    ASSUME ToolsOK, NEW p \in Procs, RetireDir(p)
    PROVE  ToolsOK'
<1> DEFINE from == <<tool[p].ent.space, tool[p].id, Live>>
           to   == <<tool[p].ent.space, tool[p].id, tool[p].ts>>
<1>1. tool[p].pc = "movedir" /\ WellFormed(tool[p])
  BY DEF ToolsOK, ToolTypeOK, RetireDir, At
<1>2. EntryTypeOK'
  BY SameEntryTypes DEF ToolsOK, RetireDir
<1>3. CASE Exit(p) /\ UNCHANGED <<dirs, where>>
  BY <1>2, <1>3, IdleWellFormed, SameDirTypes, PlainStepTypes
  DEF ToolsOK, RetireDir, Exit
<1>4. CASE /\ MoveDir(from, to)
           /\ IF tool[p].op = "wipe" THEN Goto(p, "wipe") ELSE Exit(p)
  <2>1. DirTypeOK'
    BY <1>1, <1>4, ToolPaths, MoveTypes, StoreTypes DEF ToolsOK
  <2>2. CASE Goto(p, "wipe")
    <3> DEFINE r == [tool[p] EXCEPT !.pc = "wipe"]
    <3>1. r \in Process /\ WellFormed(r)
      BY <1>1, GotoWellFormed DEF WellFormed
    <3>2. Become(p, r)
      BY <2>2 DEF Goto
    <3> HIDE DEF r
    <3> QED
      BY <1>2, <2>1, <3>1, <3>2, PlainStepTypes DEF RetireDir
  <2>3. CASE Exit(p)
    BY <1>2, <2>1, <2>3, IdleWellFormed, PlainStepTypes DEF RetireDir, Exit
  <2> QED
    BY <1>4, <2>2, <2>3
<1> QED
  BY <1>3, <1>4 DEF RetireDir

LEMMA WipeDataTypes ==
    ASSUME ToolsOK, NEW p \in Procs, NEW rest, WipeData(p, rest)
    PROVE  ToolsOK'
<1>1. tool[p].pc = "wipe" /\ tool[p] \in Process /\ WellFormed(tool[p])
  BY DEF ToolsOK, ToolTypeOK, WipeData, At
<1>2. EntryTypeOK'
  BY SameEntryTypes DEF ToolsOK, WipeData
<1>3. DirTypeOK'
  BY <1>1, ToolPaths, RemoveTypes, StoreTypes DEF ToolsOK, WipeData
<1>4. CASE Goto(p, "forget")
  <2> DEFINE r == [tool[p] EXCEPT !.pc = "forget"]
  <2>1. r \in Process /\ WellFormed(r)
    BY <1>1, GotoWellFormed DEF WellFormed
  <2>2. Become(p, r)
    BY <1>4 DEF Goto
  <2> HIDE DEF r
  <2> QED
    BY <1>2, <1>3, <2>1, <2>2, PlainStepTypes DEF WipeData
<1>5. CASE UNCHANGED tool
  <2>1. calls' \in Nat /\ faults' \in Nat
    BY CountTypes DEF ToolsOK, WipeData
  <2> QED
    BY <1>2, <1>3, <1>5, <2>1
    DEF ToolsOK, ToolTypeOK, StoreTypeOK, EntryTypeOK, DirTypeOK, WipeData
<1> QED
  BY <1>4, <1>5 DEF WipeData

LEMMA UnlinkStepTypes ==
    ASSUME ToolsOK, NEW p \in Procs, ForgetEntry(p) \/ UnlinkSource(p)
    PROVE  ToolsOK'
<1>1. tool[p].pc \in {"forget", "unlink"}
  BY DEF ForgetEntry, UnlinkSource, At
<1>2. DirTypeOK'
  BY SameDirTypes DEF ToolsOK, ForgetEntry, UnlinkSource
<1>3. EntryTypeOK'
  BY <1>1, ToolPaths, UnlinkTypes, StoreTypes
  DEF ToolsOK, ForgetEntry, UnlinkSource
<1> QED
  BY <1>2, <1>3, IdleWellFormed, PlainStepTypes
  DEF ForgetEntry, UnlinkSource, Exit

LEMMA ReadTargetTypes ==
    ASSUME ToolsOK, NEW p \in Procs, NEW i \in Ids, NEW t \in Time,
           NEW target \in Ids, ReadTarget(p, i, t, target)
    PROVE  ToolsOK'
<1> DEFINE path == <<entry[<<target, Live>>].space, target, Live>>
           r == [Idle EXCEPT !.pc = "lookup", !.op = "restore", !.id = i,
                    !.ts = t, !.to = path]
<1>1. path \in Path
  BY LiveLabel DEF ReadTarget, Readable, Entry, Path
<1>2. r \in Process /\ WellFormed(r)
  <2> HIDE DEF path
  <2> QED BY <1>1, LiveLabel DEF Idle, Process, WellFormed, ToolPc, AllOps
<1>3. Become(p, r)
  BY DEF ReadTarget
<1> HIDE DEF r
<1>4. tool' \in [Procs -> Process] /\ \A q \in Procs : WellFormed(tool'[q])
  BY <1>2, <1>3, BecomeTypes DEF ToolsOK, ToolTypeOK
<1>5. calls' \in Nat /\ faults' \in Nat
  BY CountTypes DEF ToolsOK, ReadTarget
<1>6. UNCHANGED <<storeVars, told, used>>
  BY DEF ReadTarget
<1> QED
  BY <1>4, <1>5, <1>6 DEF ToolsOK, ToolTypeOK, StoreTypeOK, storeVars

LEMMA ReadSourceTypes ==
    ASSUME ToolsOK, NEW p \in Procs, ReadSource(p)
    PROVE  ToolsOK'
<1> DEFINE e == entry[<<tool[p].id, tool[p].ts>>]
           r == [tool[p] EXCEPT !.pc = "refill", !.ent = e]
<1>1. tool[p].pc = "lookup" /\ tool[p] \in Process /\ WellFormed(tool[p])
  BY DEF ToolsOK, ToolTypeOK, ReadSource, At
<1>2. EntryTypeOK' /\ DirTypeOK' /\ UNCHANGED now
  BY DEF ToolsOK, StoreTypeOK, EntryTypeOK, DirTypeOK, ReadSource, storeVars
<1>3. CASE Exit(p)
  BY <1>2, <1>3, IdleWellFormed, PlainStepTypes DEF ReadSource, Exit
<1>4. CASE e \in Entry /\ Become(p, r)
  <2>1. r \in Process /\ WellFormed(r)
    <3> HIDE DEF e
    <3> QED BY <1>1, <1>4 DEF Process, WellFormed, ToolPc
  <2> HIDE DEF r
  <2> QED
    BY <1>2, <1>4, <2>1, PlainStepTypes DEF ReadSource
<1> QED
  BY <1>3, <1>4 DEF ReadSource, Readable

LEMMA RefillTypes ==
    ASSUME ToolsOK, NEW p \in Procs, Refill(p)
    PROVE  ToolsOK'
<1>1. tool[p].pc = "refill" /\ WellFormed(tool[p]) /\ tool[p].to \in Path
  BY DEF ToolsOK, ToolTypeOK, Refill, At, WellFormed
<1>2. EntryTypeOK'
  BY SameEntryTypes DEF ToolsOK, Refill
<1>3. CASE /\ MoveDir(<<tool[p].ent.space, tool[p].id, tool[p].ts>>, tool[p].to)
           /\ Goto(p, "unlink")
  <2> DEFINE r == [tool[p] EXCEPT !.pc = "unlink"]
  <2>1. r \in Process /\ WellFormed(r)
    BY <1>1, GotoWellFormed
  <2>2. Become(p, r)
    BY <1>3 DEF Goto
  <2>3. DirTypeOK'
    BY <1>1, <1>3, ToolPaths, MoveTypes, StoreTypes DEF ToolsOK
  <2> HIDE DEF r
  <2> QED
    BY <1>2, <2>1, <2>2, <2>3, PlainStepTypes DEF Refill
<1>4. CASE Exit(p) /\ UNCHANGED <<dirs, where>>
  BY <1>2, <1>4, IdleWellFormed, SameDirTypes, PlainStepTypes
  DEF ToolsOK, Refill, Exit
<1> QED
  BY <1>3, <1>4 DEF Refill

LEMMA CheckRevivableTypes ==
    ASSUME ToolsOK, NEW p \in Procs, NEW i \in Ids, NEW t \in Time,
           CheckRevivable(p, i, t)
    PROVE  ToolsOK'
<1> DEFINE r == [Idle EXCEPT !.pc = "revive", !.op = "admin", !.id = i,
                    !.ts = t, !.ent = entry[<<i, t>>]]
<1>1. r \in Process /\ WellFormed(r)
  BY LiveLabel
  DEF CheckRevivable, Readable, Idle, Process, WellFormed, ToolPc, AllOps
<1>2. Become(p, r)
  BY DEF CheckRevivable
<1> HIDE DEF r
<1>3. tool' \in [Procs -> Process] /\ \A q \in Procs : WellFormed(tool'[q])
  BY <1>1, <1>2, BecomeTypes DEF ToolsOK, ToolTypeOK
<1>4. calls' \in Nat /\ faults' \in Nat
  BY CountTypes DEF ToolsOK, CheckRevivable
<1>5. UNCHANGED <<storeVars, told, used>>
  BY DEF CheckRevivable
<1> QED
  BY <1>3, <1>4, <1>5 DEF ToolsOK, ToolTypeOK, StoreTypeOK, storeVars

LEMMA ReviveEntryTypes ==
    ASSUME ToolsOK, NEW p \in Procs, ReviveEntry(p)
    PROVE  ToolsOK'
<1>1. tool[p].pc = "revive"
  BY DEF ReviveEntry, At
<1>2. DirTypeOK'
  BY SameDirTypes DEF ToolsOK, ReviveEntry
<1>3. CASE Exit(p) /\ UNCHANGED <<entry, open>>
  BY <1>2, <1>3, IdleWellFormed, SameEntryTypes, PlainStepTypes
  DEF ToolsOK, ReviveEntry, Exit
<1>4. CASE /\ RenameEntry(<<tool[p].id, tool[p].ts>>, <<tool[p].id, Live>>)
           /\ Goto(p, "putback")
  <2> DEFINE r == [tool[p] EXCEPT !.pc = "putback"]
  <2>1. r \in Process /\ WellFormed(r)
    BY <1>1, GotoWellFormed
  <2>2. Become(p, r)
    BY <1>4 DEF Goto
  <2>3. EntryTypeOK'
    BY <1>1, <1>4, ToolPaths, RenameTypes, StoreTypes DEF ToolsOK
  <2> HIDE DEF r
  <2> QED
    BY <1>2, <2>1, <2>2, <2>3, PlainStepTypes DEF ReviveEntry
<1> QED
  BY <1>3, <1>4 DEF ReviveEntry

LEMMA PutBackTypes ==
    ASSUME ToolsOK, NEW p \in Procs, PutBack(p)
    PROVE  ToolsOK'
<1>1. tool[p].pc = "putback"
  BY DEF PutBack, At
<1>2. EntryTypeOK'
  BY SameEntryTypes DEF ToolsOK, PutBack
<1>3. DirTypeOK'
  BY <1>1, ToolPaths, MoveTypes, SameDirTypes, StoreTypes DEF ToolsOK, PutBack
<1> QED
  BY <1>2, <1>3, IdleWellFormed, PlainStepTypes DEF PutBack, Exit

LEMMA LaunchTypes ==
    ASSUME ToolsOK, NEW p \in Procs, Launch(p)
    PROVE  ToolsOK'
<1>1. PICK i \in Ids :
         \/ Reuse(p, i)
         \/ Allocate(p, i)
         \/ ReadForExtend(p, i)
         \/ \E op \in {"release", "wipe"} : ReadForRelease(p, i, op)
         \/ \E t \in Time : \/ \E target \in Ids : ReadTarget(p, i, t, target)
                            \/ CheckRevivable(p, i, t)
  BY DEF Launch
<1> QED
  BY <1>1, ReuseTypes, AllocateTypes, ReadForExtendTypes, ReadForReleaseTypes,
     ReadTargetTypes, CheckRevivableTypes

LEMMA ProceedTypes ==
    ASSUME ToolsOK, NEW p \in Procs, Proceed(p)
    PROVE  ToolsOK'
BY MakeDirTypes, CreateEntryTypes, UseExtensionTypes, MarkReleasedTypes,
   FinishWriteTypes, RetireEntryTypes, RetireDirTypes, WipeDataTypes,
   UnlinkStepTypes, ReadSourceTypes, RefillTypes, ReviveEntryTypes, PutBackTypes
DEF Proceed

LEMMA CrashTypes ==
    ASSUME ToolsOK, NEW p \in Procs, Crash(p)
    PROVE  ToolsOK'
<1>1. tool' \in [Procs -> Process] /\ \A q \in Procs : WellFormed(tool'[q])
  BY IdleWellFormed, BecomeTypes DEF ToolsOK, ToolTypeOK, Crash, Exit
<1>2. EntryTypeOK'
  BY DEF ToolsOK, StoreTypeOK, EntryTypeOK, Crash
<1>3. calls' \in Nat /\ faults' \in Nat
  BY DEF ToolsOK, ToolTypeOK, Crash
<1> QED
  BY <1>1, <1>2, <1>3
  DEF ToolsOK, ToolTypeOK, StoreTypeOK, EntryTypeOK, Crash

LEMMA DiskFailTypes ==
    ASSUME ToolsOK, NEW p \in Procs, OpenFails(p) \/ WriteFails(p)
    PROVE  ToolsOK'
<1>1. CASE OpenFails(p)
  <2>1. tool[p] \in Process /\ tool[p].pc \in {"create", "extend", "mark"}
    BY <1>1 DEF OpenFails, ToolsOK, ToolTypeOK, At
  <2> DEFINE r == [tool[p] EXCEPT !.pc = "write"]
  <2>2. r \in Process /\ WellFormed(r)
    BY <2>1 DEF Process, ToolPc, WellFormed, ToolsOK, ToolTypeOK
  <2>3. Become(p, r)
    BY <1>1 DEF OpenFails, Goto
  <2> HIDE DEF r
  <2>4. tool' \in [Procs -> Process] /\ \A q \in Procs : WellFormed(tool'[q])
    BY <2>2, <2>3, BecomeTypes DEF ToolsOK, ToolTypeOK
  <2>5. UNCHANGED storeVars /\ faults' \in Nat /\ UNCHANGED <<told, used, calls>>
    BY <1>1 DEF OpenFails, ToolsOK, ToolTypeOK
  <2> QED
    BY <2>4, <2>5 DEF ToolsOK, ToolTypeOK, StoreTypeOK, storeVars
<1>2. CASE WriteFails(p)
  BY <1>2 DEF ToolsOK, ToolTypeOK, StoreTypeOK, WriteFails
<1> QED
  BY <1>1, <1>2

LEMMA JobTypes ==
    ASSUME ToolsOK, NEW d \in Data, NEW s \in Spaces, NEW i \in Ids,
           JobWrites(d, s, i)
    PROVE  ToolsOK'
<1>1. where' \in [Data -> Path \cup {Unwritten, Gone}]
  BY LiveLabel DEF ToolsOK, StoreTypeOK, JobWrites, Path
<1> QED
  BY <1>1 DEF ToolsOK, ToolTypeOK, StoreTypeOK, JobWrites, toolVars

LEMMA TickTypes ==
    ASSUME StoreTypeOK, Tick
    PROVE  StoreTypeOK'
BY DEF StoreTypeOK, Tick, Time

-----------------------------------------------------------------------------
(* Every step of the expirer keeps the types.                              *)

ExpirerOK == StoreTypeOK /\ ExpirerTypeOK

Fields == [pc : XpPc, spaces : SUBSET Spaces, paths : SUBSET Path,
           names : SUBSET Key, todo : SUBSET Key, job : Job \cup {None}]

JobPc == {"retire", "movedir", "unlink", "deldir"}

LEMMA RestingTypes == Resting \in Fields /\ Resting.pc = "idle"
BY DEF Resting, Fields, XpPc

LEMMA ListTypes == LiveKeys \in SUBSET Key /\ RemovedKeys \in SUBSET Key
BY DEF LiveKeys, RemovedKeys

\* The steps that only read the stores.
LEMMA ReadOnlyTypes ==
    ASSUME ExpirerOK, UNCHANGED storeVars, xp' \in Fields, xp'.pc \notin JobPc
    PROVE  ExpirerOK'
BY DEF ExpirerOK, StoreTypeOK, ExpirerTypeOK, storeVars, Fields, JobPc

LEMMA ListingTypes ==
    ASSUME ExpirerOK,
           \/ StartRun \/ (\E s \in Spaces : ScanSpace(s) \/ ScanTrash(s))
           \/ ListEntries \/ (\E k \in Key : CheckEntry(k))
           \/ ListRemovedEntries \/ ListLive \/ ListRemoved \/ FinishRun
    PROVE  ExpirerOK'
<1>1. xp \in Fields
  BY DEF ExpirerOK, ExpirerTypeOK, Fields
<1>2. UNCHANGED storeVars
  BY DEF StartRun, ScanSpace, ScanTrash, ListEntries, CheckEntry,
         ListRemovedEntries, ListLive, ListRemoved, FinishRun
<1>3. xp' \in Fields /\ xp'.pc \notin JobPc
  <2>1. CASE StartRun
    BY <2>1 DEF StartRun, Resting, Fields, XpPc, JobPc
  <2>2. ASSUME NEW s \in Spaces, ScanSpace(s) \/ ScanTrash(s)
        PROVE  xp' \in Fields /\ xp'.pc \notin JobPc
    <3>1. {x \in dirs : x[1] = s /\ x[3] = Live} \in SUBSET Path
      BY DEF ExpirerOK, StoreTypeOK
    <3>2. {x \in dirs : x[1] = s /\ x[3] # Live} \in SUBSET Path
      BY DEF ExpirerOK, StoreTypeOK
    <3>3. CASE ScanSpace(s)
      <4> DEFINE new == {x \in dirs : x[1] = s /\ x[3] = Live}
      <4>1. /\ xp.pc = "scan"
            /\ xp' = [xp EXCEPT !.spaces = @ \ {s}, !.paths = @ \cup new]
        BY <3>3 DEF ScanSpace
      <4> HIDE DEF new
      <4> QED
        BY <1>1, <3>1, <4>1 DEF new, Fields, JobPc
    <3>4. CASE ScanTrash(s)
      <4> DEFINE new == {x \in dirs : x[1] = s /\ x[3] # Live}
      <4>1. /\ xp.pc = "trash"
            /\ xp' = [xp EXCEPT !.spaces = @ \ {s}, !.paths = new]
        BY <3>4 DEF ScanTrash
      <4> HIDE DEF new
      <4> QED
        BY <1>1, <3>2, <4>1 DEF new, Fields, JobPc
    <3> QED
      BY <2>2, <3>3, <3>4
  <2>3. CASE ListEntries
    BY <1>1, <2>3, ListTypes DEF ListEntries, Fields, XpPc, JobPc
  <2>4. ASSUME NEW k \in Key, CheckEntry(k)
        PROVE  xp' \in Fields /\ xp'.pc \notin JobPc
    <3>1. CASE Abort
      BY <3>1, RestingTypes DEF Abort, JobPc
    <3>2. CASE xp' = [xp EXCEPT !.todo = @ \ {k},
                         !.pc = IF xp.todo = {k} THEN "stray" ELSE "check"]
      BY <1>1, <3>2 DEF Fields, XpPc, JobPc
    <3> QED
      BY <2>4, <3>1, <3>2 DEF CheckEntry
  <2>5. CASE ListRemovedEntries
    BY <1>1, <2>5, ListTypes DEF ListRemovedEntries, Fields, XpPc, JobPc
  <2>6. CASE ListLive
    BY <2>6, ListTypes DEF ListLive, Resting, Fields, XpPc, JobPc
  <2>7. CASE ListRemoved
    BY <1>1, <2>7, ListTypes DEF ListRemoved, Fields, XpPc, JobPc
  <2>8. CASE FinishRun
    BY <2>8, RestingTypes DEF FinishRun, Abort, JobPc
  <2> QED
    BY <2>1, <2>2, <2>3, <2>4, <2>5, <2>6, <2>7, <2>8
<1> QED
  BY <1>2, <1>3, ReadOnlyTypes

LEMMA DirStepTypes ==
    ASSUME ExpirerOK, UNCHANGED <<now, entry, open>>, DirTypeOK',
           xp' \in Fields, xp'.pc \notin JobPc
    PROVE  ExpirerOK'
BY DEF ExpirerOK, StoreTypeOK, ExpirerTypeOK, DirTypeOK, Fields, JobPc

LEMMA VisitDirTypes ==
    ASSUME ExpirerOK, NEW path \in Path, VisitDir(path)
    PROVE  ExpirerOK'
<1>1. xp' \in Fields /\ xp'.pc \notin JobPc
  BY DEF ExpirerOK, ExpirerTypeOK, VisitDir, Fields, JobPc
<1>2. <<path[1], path[2], now>> \in Path
  BY LiveLabel DEF ExpirerOK, StoreTypeOK, Path
<1>3. DirTypeOK'
  BY <1>2, MoveTypes, SameDirTypes, StoreTypes DEF ExpirerOK, VisitDir
<1> QED
  BY <1>1, <1>3, DirStepTypes DEF VisitDir

LEMMA VisitTrashTypes ==
    ASSUME ExpirerOK, NEW path \in Path, NEW rest, VisitTrash(path, rest)
    PROVE  ExpirerOK'
<1>1. xp' \in Fields /\ xp'.pc \notin JobPc
  BY DEF ExpirerOK, ExpirerTypeOK, VisitTrash, Fields, JobPc
<1>2. DirTypeOK'
  BY RemoveTypes, SameDirTypes, StoreTypes DEF ExpirerOK, VisitTrash, DelDir
<1> QED
  BY <1>1, <1>2, DirStepTypes DEF VisitTrash

LEMMA VisitTypes ==
    ASSUME ExpirerOK, NEW k \in Key, VisitEntry(k) \/ VisitRemoved(k)
    PROVE  ExpirerOK'
<1> DEFINE j == [key |-> k, ent |-> entry[k], ts |-> now]
<1>1. xp \in Fields /\ now \in Time
  BY DEF ExpirerOK, ExpirerTypeOK, StoreTypeOK, Fields
<1>2. UNCHANGED storeVars
  BY DEF VisitEntry, VisitRemoved
<1>3. CASE xp' = [xp EXCEPT !.todo = @ \ {k}] /\ xp.pc \in {"expire", "reap"}
  BY <1>1, <1>2, <1>3, ReadOnlyTypes DEF Fields, JobPc
<1>4. CASE /\ Readable(k)
           /\ \/ xp' = [xp EXCEPT !.pc = "retire", !.todo = @ \ {k}, !.job = j]
              \/ xp' = [xp EXCEPT !.pc = "unlink", !.todo = @ \ {k}, !.job = j]
  <2>1. j \in Job
    BY <1>1, <1>4 DEF Job, Readable
  <2> HIDE DEF j
  <2>2. PICK pc \in {"retire", "unlink"} :
           xp' = [xp EXCEPT !.pc = pc, !.todo = @ \ {k}, !.job = j]
    BY <1>4
  <2>3. xp' \in Fields /\ xp'.job \in Job
    BY <1>1, <2>1, <2>2 DEF Fields, XpPc
  <2> QED
    BY <1>2, <2>3 DEF ExpirerOK, ExpirerTypeOK, StoreTypeOK, storeVars, Fields
<1> QED
  BY <1>3, <1>4 DEF VisitEntry, VisitRemoved

\* The names of the workspace the expirer works on.
LEMMA JobNames ==
    ASSUME ExpirerOK, xp.pc \in JobPc
    PROVE  /\ xp.job \in Job /\ xp.job.key \in Key
           /\ <<xp.job.key[1], xp.job.ts>> \in Key
           /\ <<xp.job.ent.space, xp.job.key[1], Live>> \in Path
           /\ <<xp.job.ent.space, xp.job.key[1], xp.job.ts>> \in Path
           /\ <<xp.job.ent.space, xp.job.key[1], xp.job.key[2]>> \in Path
<1>1. xp.job \in Job
  BY DEF ExpirerOK, ExpirerTypeOK, JobPc
<1>2. xp.job.key \in Key /\ xp.job.ent \in Entry /\ xp.job.ts \in Label
  BY <1>1, LiveLabel DEF Job
<1>3. xp.job.ent.space \in Spaces
  BY <1>2 DEF Entry
<1>4. xp.job.key[1] \in Ids /\ xp.job.key[2] \in Label
  BY <1>2 DEF Key
<1> QED
  BY <1>1, <1>2, <1>3, <1>4, LiveLabel DEF Key, Path

LEMMA ExpireEntryTypes ==
    ASSUME ExpirerOK, ExpireEntry \/ UnlinkRemoved
    PROVE  ExpirerOK'
<1>1. /\ xp \in Fields /\ xp.pc \in {"retire", "unlink"} /\ xp.job \in Job
      /\ UNCHANGED <<now, dirs, where>>
  BY DEF ExpirerOK, ExpirerTypeOK, Fields, ExpireEntry, UnlinkRemoved
<1>2. EntryTypeOK'
  <2>1. CASE UNCHANGED <<entry, open>>
    BY <2>1, SameEntryTypes DEF ExpirerOK
  <2>2. CASE RenameEntry(xp.job.key, <<xp.job.key[1], xp.job.ts>>)
    BY <1>1, <2>2, JobNames, RenameTypes, StoreTypes DEF ExpirerOK, JobPc
  <2>3. CASE UnlinkEntry(xp.job.key)
    BY <1>1, <2>3, JobNames, UnlinkTypes, StoreTypes DEF ExpirerOK, JobPc
  <2> QED
    BY <2>1, <2>2, <2>3 DEF ExpireEntry, UnlinkRemoved
<1>3. ExpirerTypeOK'
  <2>1. CASE Abort
    BY <2>1, RestingTypes DEF Abort, ExpirerTypeOK, Fields
  <2>2. CASE \/ xp' = [xp EXCEPT !.pc = "movedir"]
             \/ xp' = [xp EXCEPT !.pc = "deldir"]
    BY <1>1, <2>2 DEF ExpirerTypeOK, Fields, XpPc
  <2> QED
    BY <2>1, <2>2 DEF ExpireEntry, UnlinkRemoved
<1> QED
  BY <1>1, <1>2, <1>3 DEF ExpirerOK, StoreTypeOK, EntryTypeOK

LEMMA ExpireDirTypes ==
    ASSUME ExpirerOK, NEW rest, ExpireDir \/ DeleteRemoved(rest)
    PROVE  ExpirerOK'
<1>1. xp \in Fields /\ xp.pc \in {"movedir", "deldir"}
  BY DEF ExpirerOK, ExpirerTypeOK, Fields, ExpireDir, DeleteRemoved
<1>2. DirTypeOK'
  <2>1. CASE ExpireDir
    BY <1>1, <2>1, JobNames, MoveTypes, SameDirTypes, StoreTypes
    DEF ExpirerOK, ExpireDir, JobPc
  <2>2. CASE DeleteRemoved(rest)
    BY <1>1, <2>2, JobNames, RemoveTypes, StoreTypes
    DEF ExpirerOK, DeleteRemoved, DelDir, JobPc
  <2> QED
    BY <2>1, <2>2
<1>3. xp' \in Fields /\ xp'.pc \notin JobPc
  BY <1>1 DEF ExpireDir, DeleteRemoved, Fields, XpPc, JobPc
<1> QED
  BY <1>2, <1>3, DirStepTypes DEF ExpireDir, DeleteRemoved

LEMMA ContinueRunTypes ==
    ASSUME ExpirerOK, ContinueRun
    PROVE  ExpirerOK'
BY ListingTypes, VisitDirTypes, VisitTrashTypes, VisitTypes, ExpireEntryTypes,
   ExpireDirTypes
DEF ContinueRun

-----------------------------------------------------------------------------
(* The types of the whole system.                                          *)

HistTypeOK == /\ held \in SUBSET Key
              /\ lapsed \in SUBSET Ids
              /\ {clobbered, waived, reaped, unmarked} \subseteq SUBSET Key

LEMMA ObserveTypes ==
    ASSUME HistTypeOK, Observe
    PROVE  HistTypeOK'
BY DEF HistTypeOK, Observe, Existing, Expired

LEMMA InitTypes == Init => TypeOK
<1> SUFFICES ASSUME Init PROVE TypeOK
  OBVIOUS
<1>1. StoreTypeOK
  BY DEF Init, StoreInit, StoreTypeOK, Time
<1>2. ToolTypeOK
  BY IdleWellFormed DEF Init, ToolInit, ToolTypeOK
<1>3. ExpirerTypeOK
  BY RestingTypes DEF Init, ExpirerInit, ExpirerTypeOK, Fields
<1> QED
  BY <1>1, <1>2, <1>3 DEF Init, TypeOK

LEMMA SameToolTypes ==
    ASSUME ToolTypeOK, UNCHANGED toolVars
    PROVE  ToolTypeOK'
BY DEF ToolTypeOK, toolVars

LEMMA SameExpirerTypes ==
    ASSUME ExpirerTypeOK, UNCHANGED xp
    PROVE  ExpirerTypeOK'
BY DEF ExpirerTypeOK

LEMMA NextTypes ==
    ASSUME TypeOK, Next
    PROVE  TypeOK'
<1>1. ToolsOK /\ ExpirerOK /\ HistTypeOK
  BY DEF TypeOK, ToolsOK, ExpirerOK, HistTypeOK
<1>2. HistTypeOK'
  BY <1>1, ObserveTypes DEF Next
<1>3. StoreTypeOK' /\ ToolTypeOK' /\ ExpirerTypeOK'
  <2>1. CASE ClockTicks
    BY <1>1, <2>1, TickTypes, SameToolTypes, SameExpirerTypes
    DEF ToolsOK, ExpirerOK, ClockTicks
  <2>2. CASE ToolStarts
    BY <1>1, <2>2, LaunchTypes, SameExpirerTypes DEF ToolsOK, ExpirerOK, ToolStarts
  <2>3. ASSUME NEW p \in Procs, ToolStep(p)
        PROVE  StoreTypeOK' /\ ToolTypeOK' /\ ExpirerTypeOK'
    BY <1>1, <2>3, ProceedTypes, SameExpirerTypes DEF ToolsOK, ExpirerOK, ToolStep
  <2>4. CASE ToolCrashes
    BY <1>1, <2>4, CrashTypes, SameExpirerTypes DEF ToolsOK, ExpirerOK, ToolCrashes
  <2>5. CASE JobStep
    BY <1>1, <2>5, JobTypes, SameExpirerTypes DEF ToolsOK, ExpirerOK, JobStep
  <2>6. CASE RunStarts
    BY <1>1, <2>6, ListingTypes, SameToolTypes DEF ToolsOK, ExpirerOK, RunStarts
  <2>7. CASE RunStep
    BY <1>1, <2>7, ContinueRunTypes, SameToolTypes DEF ToolsOK, ExpirerOK, RunStep
  <2>8. CASE RunCrashes
    <3>1. StoreTypeOK'
      BY <1>1, <2>8 DEF ToolsOK, StoreTypeOK, RunCrashes, storeVars
    <3>2. ToolTypeOK'
      BY <1>1, <2>8 DEF ToolsOK, ToolTypeOK, RunCrashes
    <3>3. ExpirerTypeOK'
      BY <2>8, RestingTypes DEF RunCrashes, Abort, ExpirerTypeOK, Fields
    <3> QED
      BY <3>1, <3>2, <3>3
  <2>9. CASE DiskFails
    BY <1>1, <2>9, DiskFailTypes, SameExpirerTypes DEF ToolsOK, ExpirerOK, DiskFails
  <2> QED
    BY <2>1, <2>2, <2>3, <2>4, <2>5, <2>6, <2>7, <2>8, <2>9 DEF Next
<1> QED
  BY <1>2, <1>3 DEF TypeOK, HistTypeOK

LEMMA TypesStutter ==
    ASSUME TypeOK, UNCHANGED vars
    PROVE  TypeOK'
BY DEF TypeOK, StoreTypeOK, ToolTypeOK, ExpirerTypeOK, vars, storeVars, toolVars,
       histVars

\* Every variable keeps its type, and every process and the expirer have the
\* data their position in the code needs, whatever steps interleave or crash.
THEOREM TypeCorrect == Spec => []TypeOK
<1>1. Init => TypeOK
  BY InitTypes
<1>2. TypeOK /\ [Next]_vars => TypeOK'
  BY NextTypes, TypesStutter
<1> QED
  BY <1>1, <1>2, PTL DEF Spec

-----------------------------------------------------------------------------
(* The history follows the stores: this needs no look at the steps.        *)

LEMMA HistoryKept ==
    ASSUME HistoryInv, Observe
    PROVE  HistoryInv'
BY DEF HistoryInv, Observe

\* While a run goes on, held only shrinks and lapsed only grows.
LEMMA HistoryMonotone ==
    ASSUME Observe, Running, Running'
    PROVE  held' \subseteq held /\ lapsed \subseteq lapsed'
BY DEF Observe

\* The clock never goes back.
LEMMA TimeMonotone ==
    ASSUME TypeOK, Next
    PROVE  now \in Nat /\ now' \in Nat /\ now <= now'
<1>1. now \in Nat
  BY DEF TypeOK, StoreTypeOK, Time
<1>2. now' = now \/ now' = now + 1
  <2>1. CASE ClockTicks
    BY <2>1 DEF ClockTicks, Tick
  <2>2. CASE ToolStarts
    <3>1. UNCHANGED storeVars
      BY <2>2, Zenon DEF ToolStarts, Launch, Reuse, Allocate, ReadForExtend,
                         ReadForRelease, ReadTarget, CheckRevivable
    <3> QED
      BY <3>1 DEF storeVars
  <2>3. ASSUME NEW p \in Procs, ToolStep(p) PROVE now' = now
    BY <2>3 DEF ToolStep, Proceed, MakeDir, CreateEntry, UseExtension,
                MarkReleased, FinishWrite, RetireEntry, RetireDir, WipeData,
                ForgetEntry, ReadSource, Refill, UnlinkSource, ReviveEntry,
                PutBack, storeVars
  <2>4. CASE ToolCrashes
    BY <2>4 DEF ToolCrashes, Crash
  <2>5. CASE JobStep
    BY <2>5 DEF JobStep, JobWrites
  <2>6. CASE RunStarts
    BY <2>6 DEF RunStarts, StartRun, storeVars
  <2>7. CASE RunStep
    BY <2>7 DEF RunStep, ContinueRun, ScanSpace, ScanTrash, ListEntries,
                CheckEntry, VisitEntry, VisitRemoved, VisitDir,
                ListRemovedEntries, VisitTrash, ListLive, ExpireEntry,
                ExpireDir, ListRemoved, UnlinkRemoved, DeleteRemoved,
                FinishRun, storeVars
  <2>8. CASE RunCrashes
    BY <2>8 DEF RunCrashes, storeVars
  <2>9. CASE DiskFails
    BY <2>9 DEF DiskFails, OpenFails, WriteFails, storeVars
  <2> QED
    BY <2>1, <2>2, <2>3, <2>4, <2>5, <2>6, <2>7, <2>8, <2>9 DEF Next
<1> QED
  BY <1>1, <1>2

\* What is due stays due.
LEMMA DueMonotone ==
    ASSUME NEW t \in Nat, NEW e \in Entry, Due(t, e),
           now \in Nat, now' \in Nat, now <= now'
    PROVE  Due(t, e)'
<1>1. e.rel \in Nat
  BY LiveLabel DEF Entry
<1> QED
  BY <1>1 DEF Due

-----------------------------------------------------------------------------
(* The steps that leave the expirer where it is.                           *)

LEMMA OthersKeepRun ==
    ASSUME TypeOK, RunInv, Next, UNCHANGED xp
    PROVE  (ListInv /\ JobInv)'
<1>1. Observe /\ now \in Nat /\ now' \in Nat /\ now <= now'
  BY TimeMonotone DEF Next
<1>2. Running => held' \subseteq held /\ lapsed \subseteq lapsed'
  BY <1>1, HistoryMonotone DEF Running
<1>3. ListInv'
  BY <1>2 DEF RunInv, ListInv, Running
<1>4. JobInv'
  <2>1. CASE xp.pc \in {"unlink", "deldir"}
    <3>1. xp.job \in Job
      BY <2>1 DEF TypeOK, ExpirerTypeOK
    <3>2. xp.job.key[2] \in Nat /\ xp.job.ent \in Entry
      BY <3>1, LiveLabel DEF Job, Key
    <3>3. Due(xp.job.key[2], xp.job.ent)
      BY <2>1 DEF RunInv, JobInv
    <3>4. Due(xp.job.key[2], xp.job.ent)'
      BY <1>1, <3>2, <3>3, DueMonotone DEF Due
    <3> QED
      BY <2>1, <3>4 DEF RunInv, JobInv
  <2>2. CASE xp.pc \notin {"unlink", "deldir"}
    BY <1>2, <2>2 DEF RunInv, JobInv, Running
  <2> QED
    BY <2>1, <2>2
<1> QED
  BY <1>3, <1>4

-----------------------------------------------------------------------------
(* The steps of the expirer.                                               *)

\* A run that ends knows nothing.
LEMMA IdleKnows ==
    ASSUME xp'.pc = "idle"
    PROVE  (ListInv /\ JobInv)'
BY DEF ListInv, JobInv

LEMMA AbortKnows ==
    ASSUME Abort
    PROVE  (ListInv /\ JobInv)'
BY IdleKnows DEF Abort, Resting

\* Phase 1: what is held after the listing existed when it was made.
LEMMA Phase1Knows ==
    ASSUME TypeOK, RunInv, Observe, NEW s, NEW k, NEW path, NEW rest,
           \/ StartRun \/ ScanSpace(s) \/ ListEntries \/ CheckEntry(k)
           \/ VisitDir(path) \/ ListRemovedEntries \/ ScanTrash(s)
           \/ VisitTrash(path, rest)
    PROVE  (ListInv /\ JobInv)'
<1>0. /\ xp \in Fields
      /\ Running /\ Running' => held' \subseteq held
      /\ held' \subseteq Existing'
  BY HistoryKept, HistoryMonotone
  DEF TypeOK, ExpirerTypeOK, Fields, RunInv, HistoryInv
<1>1. CASE StartRun
  BY <1>1 DEF StartRun, Resting, ListInv, JobInv
<1>2. CASE ScanSpace(s)
  BY <1>0, <1>2 DEF ScanSpace, Fields, ListInv, JobInv
<1>3. CASE ListEntries
  <2>1. UNCHANGED entry /\ xp'.pc \in {"check", "stray"} /\ xp'.names = LiveKeys
    BY <1>0, <1>3 DEF ListEntries, Fields, storeVars
  <2>2. \A l \in held' : l[2] = Live => l \in LiveKeys
    BY <1>0, <2>1 DEF Existing, LiveKeys, Exists
  <2> QED
    BY <2>1, <2>2 DEF ListInv, JobInv
<1>4. CASE CheckEntry(k)
  <2>1. CASE Abort
    BY <2>1, AbortKnows
  <2>2. CASE xp' = [xp EXCEPT !.todo = @ \ {k},
                       !.pc = IF xp.todo = {k} THEN "stray" ELSE "check"]
    <3>1. xp.pc = "check" /\ xp'.pc \in {"check", "stray"} /\ xp'.names = xp.names
      BY <1>0, <1>4, <2>2 DEF CheckEntry, Fields
    <3> QED
      BY <1>0, <3>1 DEF Running, RunInv, ListInv, JobInv
  <2> QED
    BY <1>4, <2>1, <2>2 DEF CheckEntry
<1>5. CASE VisitDir(path)
  <2>1. xp.pc = "stray" /\ xp'.pc = "stray" /\ xp'.names = xp.names
    BY <1>0, <1>5 DEF VisitDir, Fields
  <2> QED
    BY <1>0, <2>1 DEF Running, RunInv, ListInv, JobInv
<1>6. CASE ListRemovedEntries
  <2>1. /\ UNCHANGED entry /\ xp'.pc = "trash" /\ xp'.paths = {}
        /\ xp'.names = RemovedKeys
    BY <1>0, <1>6 DEF ListRemovedEntries, Fields, storeVars
  <2>2. \A l \in held' : l[2] # Live => l \in RemovedKeys
    BY <1>0, <2>1 DEF Existing, RemovedKeys, Exists
  <2> QED
    BY <2>1, <2>2 DEF ListInv, JobInv
<1>7. CASE ScanTrash(s)
  <2>1. /\ xp.pc = "trash" /\ xp'.pc = "trash" /\ xp'.names = xp.names
        /\ xp'.paths = {x \in dirs : x[1] = s /\ x[3] # Live}
    BY <1>0, <1>7 DEF ScanTrash, Fields
  <2> QED
    BY <1>0, <2>1 DEF Running, RunInv, ListInv, JobInv
<1>8. CASE VisitTrash(path, rest)
  <2>1. /\ xp.pc = "trash" /\ xp'.pc = "trash" /\ xp'.names = xp.names
        /\ xp'.paths = xp.paths \ {path}
    BY <1>0, <1>8 DEF VisitTrash, Fields
  <2> QED
    BY <1>0, <2>1 DEF Running, RunInv, ListInv, JobInv
<1> QED
  BY <1>1, <1>2, <1>3, <1>4, <1>5, <1>6, <1>7, <1>8

\* Phase 2: an entry found expired makes its workspace lapsed.
LEMMA Phase2Knows ==
    ASSUME TypeOK, RunInv, Observe, NEW k,
           ListLive \/ VisitEntry(k) \/ ExpireEntry \/ ExpireDir \/ ListRemoved
    PROVE  (ListInv /\ JobInv)'
<1>0. /\ xp \in Fields
      /\ Running /\ Running' => lapsed \subseteq lapsed'
  BY HistoryMonotone DEF TypeOK, ExpirerTypeOK, Fields
<1>1. CASE ListLive
  <2>1. xp'.pc = "expire" /\ xp'.todo = LiveKeys
    BY <1>1 DEF ListLive, Resting
  <2> QED
    BY <2>1 DEF LiveKeys, ListInv, JobInv
<1>2. CASE VisitEntry(k)
  <2>0. xp.pc = "expire" /\ k \in xp.todo /\ k[2] = Live /\ k = <<k[1], Live>>
        /\ k[1] \in Ids
    BY <1>0, <1>2 DEF VisitEntry, RunInv, JobInv, Key, Fields
  <2>1. CASE /\ Readable(k) /\ now > entry[k].exp
             /\ xp' = [xp EXCEPT !.pc = "retire", !.todo = @ \ {k},
                          !.job = [key |-> k, ent |-> entry[k], ts |-> now]]
    <3>1. k[1] \in Expired
      BY <2>0, <2>1 DEF Expired
    <3>2. k[1] \in lapsed
      BY <2>0, <3>1 DEF RunInv, HistoryInv, Running
    <3>3. xp'.pc = "retire" /\ xp'.todo = xp.todo \ {k} /\ xp'.job.key = k
      BY <1>0, <2>1 DEF Fields
    <3> QED
      BY <1>0, <2>0, <3>2, <3>3 DEF Running, RunInv, ListInv, JobInv
  <2>2. CASE xp' = [xp EXCEPT !.todo = @ \ {k}]
    BY <1>0, <2>0, <2>2 DEF Fields, RunInv, ListInv, JobInv
  <2> QED
    BY <1>2, <2>1, <2>2 DEF VisitEntry
<1>3. CASE ExpireEntry
  <2>1. CASE Abort
    BY <2>1, AbortKnows
  <2>2. CASE xp' = [xp EXCEPT !.pc = "movedir"]
    <3>1. /\ xp.pc = "retire" /\ xp'.pc = "movedir"
          /\ xp'.job = xp.job /\ xp'.todo = xp.todo
      BY <1>0, <1>3, <2>2 DEF ExpireEntry, Fields
    <3> QED
      BY <1>0, <3>1 DEF Running, RunInv, ListInv, JobInv
  <2> QED
    BY <1>3, <2>1, <2>2 DEF ExpireEntry
<1>4. CASE ExpireDir
  <2>1. xp.pc = "movedir" /\ xp'.pc = "expire" /\ xp'.todo = xp.todo
    BY <1>0, <1>4 DEF ExpireDir, Fields
  <2> QED
    BY <2>1 DEF RunInv, ListInv, JobInv
<1>5. CASE ListRemoved
  <2>1. xp'.pc = "reap" /\ xp'.todo = RemovedKeys
    BY <1>0, <1>5 DEF ListRemoved, Fields
  <2> QED
    BY <2>1 DEF RemovedKeys, ListInv, JobInv
<1> QED
  BY <1>1, <1>2, <1>3, <1>4, <1>5

\* Phase 3: only an entry that is due is removed.
LEMMA Phase3Knows ==
    ASSUME TypeOK, RunInv, Observe, NEW k, NEW rest,
           VisitRemoved(k) \/ UnlinkRemoved \/ DeleteRemoved(rest) \/ FinishRun
    PROVE  (ListInv /\ JobInv)'
<1>0. xp \in Fields
  BY DEF TypeOK, ExpirerTypeOK, Fields
<1>1. CASE VisitRemoved(k)
  <2>0. xp.pc = "reap" /\ k \in xp.todo /\ k[2] # Live /\ UNCHANGED now
    BY <1>1 DEF VisitRemoved, RunInv, JobInv, storeVars
  <2>1. CASE /\ Due(k[2], entry[k])
             /\ xp' = [xp EXCEPT !.pc = "unlink", !.todo = @ \ {k},
                          !.job = [key |-> k, ent |-> entry[k], ts |-> now]]
    <3>1. /\ xp'.pc = "unlink" /\ xp'.todo = xp.todo \ {k}
          /\ xp'.job.key = k /\ xp'.job.ent = entry[k]
      BY <1>0, <2>1 DEF Fields
    <3>2. Due(xp'.job.key[2], xp'.job.ent)
      BY <2>1, <3>1
    <3>3. Due(xp.job.key[2], xp.job.ent)'
      BY <2>0, <3>2 DEF Due
    <3> QED
      BY <2>0, <3>1, <3>3 DEF RunInv, ListInv, JobInv
  <2>2. CASE xp' = [xp EXCEPT !.todo = @ \ {k}]
    BY <1>0, <2>0, <2>2 DEF Fields, RunInv, ListInv, JobInv
  <2> QED
    BY <1>1, <2>1, <2>2 DEF VisitRemoved
<1>2. CASE UnlinkRemoved
  <2>1. CASE Abort
    BY <2>1, AbortKnows
  <2>2. CASE xp' = [xp EXCEPT !.pc = "deldir"]
    <3>1. /\ xp.pc = "unlink" /\ xp'.pc = "deldir" /\ UNCHANGED now
          /\ xp'.job = xp.job /\ xp'.todo = xp.todo
      BY <1>0, <1>2, <2>2 DEF UnlinkRemoved, Fields
    <3>2. Due(xp.job.key[2], xp.job.ent)'
      BY <3>1 DEF RunInv, JobInv, Due
    <3> QED
      BY <3>1, <3>2 DEF RunInv, ListInv, JobInv
  <2> QED
    BY <1>2, <2>1, <2>2 DEF UnlinkRemoved
<1>3. CASE DeleteRemoved(rest)
  <2>1. xp.pc = "deldir" /\ xp'.pc = "reap" /\ xp'.todo = xp.todo
    BY <1>0, <1>3 DEF DeleteRemoved, Fields
  <2> QED
    BY <2>1 DEF RunInv, ListInv, JobInv
<1>4. CASE FinishRun
  BY <1>4, AbortKnows DEF FinishRun
<1> QED
  BY <1>1, <1>2, <1>3, <1>4

-----------------------------------------------------------------------------
(* The inductive invariant.                                                *)

IInv == TypeOK /\ RunInv

LEMMA ContinueRunKnows ==
    ASSUME TypeOK, RunInv, Observe, ContinueRun
    PROVE  (ListInv /\ JobInv)'
BY Phase1Knows, Phase2Knows, Phase3Knows DEF ContinueRun

LEMMA RunInvKept ==
    ASSUME TypeOK, RunInv, Next
    PROVE  RunInv'
<1>1. Observe /\ HistoryInv'
  BY HistoryKept DEF Next, RunInv
<1>2. (ListInv /\ JobInv)'
  <2>1. CASE UNCHANGED xp
    BY <2>1, OthersKeepRun
  <2>2. CASE RunStarts
    BY <1>1, <2>2, Phase1Knows DEF RunStarts
  <2>3. CASE RunStep
    BY <1>1, <2>3, ContinueRunKnows DEF RunStep
  <2>4. CASE RunCrashes
    BY <2>4, AbortKnows DEF RunCrashes
  <2> QED
    BY <2>1, <2>2, <2>3, <2>4
    DEF Next, ClockTicks, ToolStarts, ToolStep, ToolCrashes, DiskFails, JobStep
<1> QED
  BY <1>1, <1>2 DEF RunInv

LEMMA RunInvStutters ==
    ASSUME RunInv, UNCHANGED vars
    PROVE  RunInv'
<1>1. UNCHANGED <<now, entry, xp, held, lapsed>>
  BY DEF vars, storeVars, histVars
<1>2. HistoryInv'
  BY <1>1 DEF RunInv, HistoryInv, Existing, Expired, Exists, Readable, Running
<1>3. ListInv'
  BY <1>1 DEF RunInv, ListInv
<1>4. JobInv'
  BY <1>1 DEF RunInv, JobInv, Due
<1> QED
  BY <1>2, <1>3, <1>4 DEF RunInv

\* TypeOK and RunInv together are inductive.
LEMMA Inductive == Spec => []IInv
<1>1. Init => IInv
  <2> SUFFICES ASSUME Init PROVE IInv
    OBVIOUS
  <2>1. xp = Resting /\ held = {} /\ lapsed = {}
    BY DEF Init, ExpirerInit
  <2>2. HistoryInv
    BY <2>1 DEF HistoryInv, Running, Resting
  <2>3. ListInv /\ JobInv
    BY <2>1 DEF ListInv, JobInv, Resting
  <2> QED
    BY <2>2, <2>3, InitTypes DEF IInv, RunInv
<1>2. IInv /\ [Next]_vars => IInv'
  <2>1. ASSUME TypeOK, RunInv, Next PROVE IInv'
    BY <2>1, NextTypes, RunInvKept DEF IInv
  <2>2. ASSUME TypeOK, RunInv, UNCHANGED vars PROVE IInv'
    BY <2>2, RunInvStutters, TypesStutter DEF IInv
  <2> QED
    BY <2>1, <2>2 DEF IInv
<1> QED
  BY <1>1, <1>2, PTL DEF Spec

\* Whatever ws_expirer has listed or copied is justified by the stores as
\* they have been since its run began.
THEOREM RunInvariant == Spec => []RunInv
<1>1. IInv => RunInv
  BY DEF IInv
<1> QED
  BY <1>1, Inductive, PTL

-----------------------------------------------------------------------------
(* What the expirer may not do.                                            *)

\* The steps that change where the expirer is.
LEMMA RunActsIn ==
    ASSUME Next, RunActs
    PROVE  RunStarts \/ RunStep \/ RunCrashes
BY DEF Next, RunActs, ClockTicks, ToolStarts, ToolStep, ToolCrashes, DiskFails, JobStep

\* A directory is moved away as stray only if its entry has not existed
\* throughout the run: VisitDir, for every interleaving with the tools.
THEOREM StraySafe == Spec => HeldNotStray
<1> DEFINE Safe == xp.pc = "stray" /\ RunActs =>
                      \A path \in dirs \ dirs' : <<path[2], Live>> \notin held
<1>1. ASSUME IInv, Next PROVE Safe
  <2> SUFFICES ASSUME xp.pc = "stray", RunActs, NEW path \in dirs \ dirs'
               PROVE  <<path[2], Live>> \notin held
    OBVIOUS
  <2>1. VisitDir(path) /\ path \in Path
    BY <1>1, RunActsIn
    DEF RunStarts, RunStep, RunCrashes, ContinueRun, StartRun, storeVars,
        ScanSpace, ScanTrash, ListEntries, CheckEntry, VisitEntry, VisitRemoved,
        VisitDir, MoveDir, ListRemovedEntries, VisitTrash, ListLive,
        ExpireEntry, ExpireDir, ListRemoved, UnlinkRemoved, DeleteRemoved,
        FinishRun
  <2>2. <<path[2], Live>> \notin xp.names
    BY <2>1 DEF VisitDir
  <2> QED
    BY <1>1, <2>2 DEF IInv, RunInv, ListInv
<1>2. IInv /\ [Next]_vars => [Safe]_vars
  BY <1>1
<1> QED
  BY <1>2, Inductive, PTL DEF Spec, HeldNotStray

\* The entry of a workspace is renamed by phase 2 only if that workspace was
\* expired at a moment of the run, also when it is extended in between.
THEOREM RetireSafe == Spec => RetiredOnlyIfLapsed
<1> DEFINE Safe == xp.pc = "retire" /\ xp'.pc = "movedir" => xp.job.key[1] \in lapsed
<1>1. IInv => Safe
  BY DEF IInv, RunInv, JobInv
<1>2. IInv /\ [Next]_vars => [Safe]_vars
  BY <1>1
<1> QED
  BY <1>2, Inductive, PTL DEF Spec, RetiredOnlyIfLapsed

\* A datum is deleted by ws_expirer only in DelDir: by VisitTrash or
\* DeleteRemoved of the directory it is in.
LEMMA OnlyDelDirDeletes ==
    ASSUME TypeOK, Next, RunActs, NEW d \in Data, where[d] # Gone, where'[d] = Gone
    PROVE  \/ \E rest \in SUBSET Data : VisitTrash(where[d], rest)
                                        /\ <<where[d][2], where[d][3]>> \notin xp.names
           \/ /\ xp.pc = "deldir"
              /\ where[d] = <<xp.job.ent.space, xp.job.key[1], xp.job.key[2]>>
<1>1. ASSUME NEW from, NEW to \in Path, MoveDir(from, to) PROVE FALSE
  BY <1>1 DEF MoveDir
<1>2. ASSUME NEW path, NEW rest, DelDir(path, rest) PROVE where[d] = path
  BY <1>2 DEF DelDir, RemoveTree
<1>3. ~UNCHANGED where
  OBVIOUS
<1>4. RunStep
  BY <1>3, RunActsIn DEF RunStarts, StartRun, RunCrashes, storeVars
<1>5. ASSUME NEW path \in Path, VisitDir(path) PROVE FALSE
  <2>1. <<path[1], path[2], now>> \in Path
    BY LiveLabel DEF TypeOK, StoreTypeOK, Path
  <2> QED
    BY <1>1, <1>3, <1>5, <2>1 DEF VisitDir
<1>6. ~ExpireDir
  <2>1. ASSUME ExpireDir PROVE FALSE
    <3>1. <<xp.job.ent.space, xp.job.key[1], xp.job.ts>> \in Path
      BY <2>1, JobNames DEF TypeOK, ExpirerOK, JobPc, ExpireDir
    <3> QED
      BY <1>1, <1>3, <2>1, <3>1 DEF ExpireDir
  <2> QED
    BY <2>1
<1>7. ASSUME NEW path \in Path, NEW rest \in SUBSET Data, VisitTrash(path, rest)
      PROVE  path = where[d] /\ <<path[2], path[3]>> \notin xp.names
  BY <1>2, <1>3, <1>7 DEF VisitTrash
<1>8. ASSUME NEW rest \in SUBSET Data, DeleteRemoved(rest)
      PROVE  /\ xp.pc = "deldir"
             /\ where[d] = <<xp.job.ent.space, xp.job.key[1], xp.job.key[2]>>
  BY <1>2, <1>8, Zenon DEF DeleteRemoved
<1>9. \/ \E path \in Path, rest \in SUBSET Data : VisitTrash(path, rest)
      \/ \E rest \in SUBSET Data : DeleteRemoved(rest)
  BY <1>3, <1>4, <1>5, <1>6
  DEF RunStep, ContinueRun, ScanSpace, ScanTrash, ListEntries, CheckEntry,
      VisitEntry, VisitRemoved, ListRemovedEntries, ListLive, ExpireEntry,
      ListRemoved, UnlinkRemoved, FinishRun, storeVars
<1> QED
  BY <1>7, <1>8, <1>9

\* Data are deleted only from removed directories, and only when the keeptime
\* or the grace is over or their removed entry was missing during the run.
THEOREM DataSafe == Spec => KeptWhileHeld
<1> DEFINE Kept(path) ==
              /\ path[3] # Live
              /\ \/ now > path[3] + KeepTime
                 \/ xp.pc = "trash" /\ <<path[2], path[3]>> \notin held
                 \/ xp.pc = "deldir" /\ now > xp.job.ent.rel + Grace
                    /\ xp.job.ent.rel # Live
           Safe == RunActs => \A d \in Data : where[d] # Gone /\ where'[d] = Gone =>
                                                 Kept(where[d])
<1>1. ASSUME IInv, Next PROVE Safe
  <2> SUFFICES ASSUME RunActs, NEW d \in Data, where[d] # Gone, where'[d] = Gone
               PROVE  Kept(where[d])
    OBVIOUS
  <2> DEFINE path == where[d]
  <2>1. CASE \E rest \in SUBSET Data : VisitTrash(path, rest)
                                       /\ <<path[2], path[3]>> \notin xp.names
    <3>1. xp.pc = "trash" /\ path \in xp.paths /\ <<path[2], path[3]>> \notin xp.names
      BY <2>1 DEF VisitTrash
    <3>2. path[3] # Live
      BY <1>1, <3>1 DEF IInv, RunInv, ListInv
    <3> QED
      BY <1>1, <3>1, <3>2 DEF IInv, RunInv, ListInv
  <2>2. CASE /\ xp.pc = "deldir"
             /\ path = <<xp.job.ent.space, xp.job.key[1], xp.job.key[2]>>
    <3>1. xp.job.key[2] # Live /\ Due(xp.job.key[2], xp.job.ent)
      BY <1>1, <2>2 DEF IInv, RunInv, JobInv
    <3> QED
      BY <2>2, <3>1 DEF Due
  <2> QED
    BY <1>1, <2>1, <2>2, OnlyDelDirDeletes DEF IInv
<1>2. IInv /\ [Next]_vars => [Safe]_vars
  BY <1>1
<1> QED
  BY <1>2, Inductive, PTL DEF Spec, KeptWhileHeld

-----------------------------------------------------------------------------
(* What a write leaves behind                                              *)

\* Orphans become no more, though one may get another name.
NoMoreOrphans ==
    \/ Orphans' \subseteq Orphans
    \/ \E from \in Orphans, to \in Key : Orphans' \subseteq (Orphans \ {from}) \cup {to}

\* The invariant: OneEmptyPerFault, and that there is something to count.
FewOrphans == IsFiniteSet(Orphans) /\ OneEmptyPerFault

LEMMA AddedOne ==
    ASSUME NEW S, IsFiniteSet(S), NEW x, NEW T \in SUBSET (S \cup {x})
    PROVE  IsFiniteSet(T) /\ Cardinality(T) \in Nat /\ Cardinality(T) <= Cardinality(S) + 1
<1>1. IsFiniteSet(S \cup {x}) /\ Cardinality(S \cup {x}) <= Cardinality(S) + 1
  BY FS_AddElement, FS_CardinalityType
<1>2. IsFiniteSet(T) /\ Cardinality(T) <= Cardinality(S \cup {x})
  BY <1>1, FS_Subset
<1> QED
  BY <1>1, <1>2, FS_CardinalityType

LEMMA NoMoreCounted ==
    ASSUME IsFiniteSet(Orphans), NoMoreOrphans
    PROVE  /\ IsFiniteSet(Orphans') /\ Cardinality(Orphans') \in Nat
           /\ Cardinality(Orphans') <= Cardinality(Orphans)
<1>1. CASE Orphans' \subseteq Orphans
  BY <1>1, FS_Subset, FS_CardinalityType
<1>2. ASSUME NEW from \in Orphans, NEW to, Orphans' \subseteq (Orphans \ {from}) \cup {to}
      PROVE  /\ IsFiniteSet(Orphans') /\ Cardinality(Orphans') \in Nat
             /\ Cardinality(Orphans') <= Cardinality(Orphans)
  <2>1. IsFiniteSet(Orphans \ {from})
        /\ Cardinality(Orphans \ {from}) = Cardinality(Orphans) - 1
    BY FS_RemoveElement
  <2>2. Cardinality(Orphans) \in Nat
    BY FS_CardinalityType
  <2>3. /\ IsFiniteSet(Orphans') /\ Cardinality(Orphans') \in Nat
        /\ Cardinality(Orphans') <= Cardinality(Orphans \ {from}) + 1
    BY <1>2, <2>1, AddedOne
  <2> QED
    BY <2>1, <2>2, <2>3
<1> QED
  BY <1>1, <1>2 DEF NoMoreOrphans

\* No writer stops, and those that write k go on doing so.
WritersStay == \A p \in Procs : At(p, "write") => At(p, "write")'

LEMMA SameOrphans ==
    ASSUME WritersStay, UNCHANGED <<entry, open>>
    PROVE  NoMoreOrphans
BY DEF NoMoreOrphans, Orphans, Written, WritersStay

LEMMA RenameOrphans ==
    ASSUME TypeOK, WritersStay, NEW from \in Key, NEW to \in Key, RenameEntry(from, to)
    PROVE  NoMoreOrphans
<1>1. entry \in [Key -> Entry \cup {Empty, None}]
  BY DEF TypeOK, StoreTypeOK
<1>2. ASSUME NEW k \in Orphans', k # to PROVE k \in Orphans \ {from}
  <2>1. k \in Key /\ entry'[k] = Empty /\ ~Written(k)'
    BY <1>2 DEF Orphans
  <2>2. k # from /\ entry[k] = Empty
    BY <1>1, <1>2, <2>1 DEF RenameEntry
  <2>3. ASSUME NEW p \in Procs, At(p, "write"), open[p] = k PROVE FALSE
    <3>1. open'[p] = CASE open[p] = from -> to
                       [] open[p] = to -> None
                       [] OTHER -> open[p]
      BY DEF RenameEntry
    <3>2. open'[p] = k
      BY <1>2, <2>2, <2>3, <3>1
    <3> QED
      BY <2>1, <2>3, <3>2 DEF Written, WritersStay
  <2> QED
    BY <2>1, <2>2, <2>3 DEF Orphans, Written
<1>3. ASSUME to \in Orphans' PROVE from \in Orphans
  <2>1. entry'[to] = Empty /\ ~Written(to)'
    BY <1>3 DEF Orphans
  <2>2. entry[from] = Empty
    BY <1>1, <2>1 DEF RenameEntry
  <2>3. ASSUME NEW p \in Procs, At(p, "write"), open[p] = from PROVE FALSE
    <3>1. open'[p] = CASE open[p] = from -> to
                       [] open[p] = to -> None
                       [] OTHER -> open[p]
      BY DEF RenameEntry
    <3>2. open'[p] = to
      BY <1>1, <2>1, <2>3, <3>1 DEF RenameEntry
    <3> QED
      BY <2>1, <2>3, <3>2 DEF Written, WritersStay
  <2> QED
    BY <2>2, <2>3 DEF Orphans, Written
<1>4. CASE to \in Orphans'
  BY <1>2, <1>3, <1>4 DEF NoMoreOrphans
<1>5. CASE to \notin Orphans'
  BY <1>2, <1>5 DEF NoMoreOrphans
<1> QED
  BY <1>4, <1>5

LEMMA UnlinkOrphans ==
    ASSUME TypeOK, WritersStay, NEW key \in Key, UnlinkEntry(key)
    PROVE  NoMoreOrphans
<1> SUFFICES ASSUME NEW k \in Orphans' PROVE k \in Orphans
  BY DEF NoMoreOrphans
<1>1. k \in Key /\ entry'[k] = Empty /\ ~Written(k)'
  BY DEF Orphans
<1>2. k # key /\ entry[k] = Empty
  BY <1>1 DEF TypeOK, StoreTypeOK, UnlinkEntry
<1>3. ASSUME NEW p \in Procs, At(p, "write"), open[p] = k PROVE FALSE
  <2>1. open'[p] = k
    BY <1>2, <1>3 DEF UnlinkEntry
  <2> QED
    BY <1>1, <1>3, <2>1 DEF Written, WritersStay
<1> QED
  BY <1>1, <1>2, <1>3 DEF Orphans, Written

\* Whoever empties an entry goes on to write it.
LEMMA OpenOrphans ==
    ASSUME TypeOK, WritersStay, NEW p \in Procs, ~At(p, "write"),
           NEW key \in Key, OpenEntry(p, key), At(p, "write")'
    PROVE  NoMoreOrphans
<1> SUFFICES ASSUME NEW k \in Orphans' PROVE k \in Orphans
  BY DEF NoMoreOrphans
<1>1. entry \in [Key -> Entry \cup {Empty, None}] /\ open \in [Procs -> Key \cup {None}]
  BY DEF TypeOK, StoreTypeOK
<1>2. k \in Key /\ entry'[k] = Empty /\ ~Written(k)'
  BY DEF Orphans
<1>3. open'[p] = key
  BY <1>1 DEF OpenEntry
<1>4. k # key /\ entry[k] = Empty
  BY <1>1, <1>2, <1>3 DEF OpenEntry, Written
<1>5. ASSUME NEW q \in Procs, At(q, "write"), open[q] = k PROVE FALSE
  <2>1. open'[q] = k
    BY <1>1, <1>5 DEF OpenEntry
  <2> QED
    BY <1>2, <1>5, <2>1 DEF Written, WritersStay
<1> QED
  BY <1>2, <1>4, <1>5 DEF Orphans, Written

\* The entry that a process has open gets its content, whatever it is called now,
\* and the other empty entries are those of other processes.
LEMMA FinishWriteOrphans ==
    ASSUME TypeOK, NEW p \in Procs, FinishWrite(p)
    PROVE  NoMoreOrphans
<1> SUFFICES ASSUME NEW k \in Orphans' PROVE k \in Orphans
  BY DEF NoMoreOrphans
<1>1. entry \in [Key -> Entry \cup {Empty, None}] /\ open \in [Procs -> Key \cup {None}]
      /\ tool \in [Procs -> Process]
  BY DEF TypeOK, StoreTypeOK, ToolTypeOK
<1>2. tool[p].ent # Empty
  BY DEF FinishWrite, At, TypeOK, ToolTypeOK, WellFormed
<1>3. k \in Key /\ entry'[k] = Empty /\ ~Written(k)'
  BY DEF Orphans
<1>4. open[p] # k /\ entry[k] = Empty
  BY <1>1, <1>2, <1>3 DEF FinishWrite, WriteEntry
<1>5. ASSUME NEW q \in Procs, At(q, "write"), open[q] = k PROVE FALSE
  <2>1. q # p
    BY <1>4, <1>5
  <2>2. open'[q] = k
    BY <1>1, <1>5, <2>1 DEF FinishWrite, WriteEntry
  <2>3. PICK r : Become(p, r)
    BY DEF FinishWrite, Exit, Goto
  <2>4. tool'[q] = tool[q]
    BY <1>1, <2>1, <2>3 DEF Become
  <2> QED
    BY <1>3, <1>5, <2>2, <2>4 DEF Written, At
<1> QED
  BY <1>3, <1>4, <1>5 DEF Orphans, Written

\* A kill or a failing write leaves the entry that the process had open.
LEMMA LostWriteOrphans ==
    ASSUME TypeOK, FewOrphans, NEW p \in Procs, Crash(p) \/ WriteFails(p)
    PROVE  FewOrphans'
<1>0. /\ open \in [Procs -> Key \cup {None}] /\ UNCHANGED entry
      /\ open' = [open EXCEPT ![p] = None]
      /\ faults \in Nat /\ faults' = faults + 1
      /\ \A q \in Procs \ {p} : tool'[q] = tool[q]
  BY DEF TypeOK, StoreTypeOK, ToolTypeOK, Crash, WriteFails, Exit, Become
<1>1. ASSUME NEW k \in Orphans' PROVE k \in Orphans \cup {open[p]}
  <2> SUFFICES ASSUME k # open[p] PROVE k \in Orphans
    OBVIOUS
  <2>1. k \in Key /\ entry[k] = Empty /\ ~Written(k)'
    BY <1>0 DEF Orphans
  <2>2. ASSUME NEW q \in Procs, At(q, "write"), open[q] = k PROVE FALSE
    <3>1. open'[q] = k /\ tool'[q] = tool[q]
      BY <1>0, <2>2
    <3> QED
      BY <2>1, <2>2, <3>1 DEF Written, At
  <2> QED
    BY <2>1, <2>2 DEF Orphans, Written
<1>2. Orphans' \in SUBSET (Orphans \cup {open[p]})
  BY <1>1
<1>3. /\ IsFiniteSet(Orphans') /\ Cardinality(Orphans') \in Nat
      /\ Cardinality(Orphans') <= Cardinality(Orphans) + 1
  BY <1>2, AddedOne DEF FewOrphans
<1>4. Cardinality(Orphans) \in Nat
  BY FS_CardinalityType DEF FewOrphans
<1> QED
  BY <1>0, <1>3, <1>4 DEF FewOrphans, OneEmptyPerFault

\* A step of a process that is not writing moves no other one.
LEMMA BecomeStays ==
    ASSUME TypeOK, NEW p \in Procs, ~At(p, "write"), NEW r, Become(p, r)
    PROVE  WritersStay /\ tool'[p] = r
BY DEF TypeOK, ToolTypeOK, Become, WritersStay, At

\* A file that could not be opened is not emptied.
LEMMA OpenFailOrphans ==
    ASSUME TypeOK, NEW p \in Procs, OpenFails(p)
    PROVE  NoMoreOrphans /\ faults' = faults + 1
<1>1. ~At(p, "write") /\ UNCHANGED <<entry, open>> /\ faults' = faults + 1
  BY DEF OpenFails, At, storeVars
<1>2. PICK r : Become(p, r)
  BY DEF OpenFails, Goto
<1> QED
  BY <1>1, <1>2, BecomeStays, SameOrphans

LEMMA OpeningOrphans ==
    ASSUME TypeOK, NEW p \in Procs,
           \/ \E duration \in Durations : CreateEntry(p, duration)
           \/ \E duration \in Durations : UseExtension(p, duration)
           \/ MarkReleased(p)
    PROVE  NoMoreOrphans
<1>1. tool[p] \in Process /\ tool[p].pc \in {"create", "extend", "mark"}
  BY DEF TypeOK, ToolTypeOK, CreateEntry, UseExtension, MarkReleased, At
<1>2. ~At(p, "write") /\ <<tool[p].id, Live>> \in Key
  BY <1>1, LiveLabel, KeyInKey DEF At, TypeOK, ToolTypeOK, WellFormed
<1>3. ASSUME NEW r, Become(p, r), r.pc = "write", OpenEntry(p, <<tool[p].id, Live>>)
      PROVE  NoMoreOrphans
  BY <1>2, <1>3, BecomeStays, OpenOrphans DEF At
<1>4. ASSUME NEW duration \in Durations, CreateEntry(p, duration) PROVE NoMoreOrphans
  <2> DEFINE r == [tool[p] EXCEPT !.pc = "write", !.ent.exp = now + duration]
  <2>1. r.pc = "write"
    BY <1>1 DEF Process
  <2>2. Become(p, r) /\ OpenEntry(p, <<tool[p].id, Live>>)
    BY <1>4 DEF CreateEntry
  <2> HIDE DEF r
  <2> QED
    BY <1>3, <2>1, <2>2
<1>5. ASSUME NEW duration \in Durations, UseExtension(p, duration) PROVE NoMoreOrphans
  <2> DEFINE e == tool[p].ent
             c == Cost(e, duration)
             r == [tool[p] EXCEPT !.pc = "write", !.ent.exp = Prolonged(e, duration),
                      !.ent.ext = e.ext - c]
  <2>1. CASE Exit(p) /\ UNCHANGED <<entry, open>>
    BY <1>2, <2>1, BecomeStays, SameOrphans DEF Exit
  <2>2. CASE Become(p, r) /\ OpenEntry(p, <<tool[p].id, Live>>)
    <3>1. r.pc = "write"
      BY <1>1 DEF Process
    <3> HIDE DEF r
    <3> QED
      BY <1>3, <2>2, <3>1
  <2> QED
    BY <1>5, <2>1, <2>2 DEF UseExtension
<1>6. CASE MarkReleased(p)
  <2> DEFINE r == [tool[p] EXCEPT !.pc = "write", !.ent.exp = now, !.ent.rel = now]
  <2>1. r.pc = "write"
    BY <1>1 DEF Process
  <2>2. Become(p, r) /\ OpenEntry(p, <<tool[p].id, Live>>)
    BY <1>6 DEF MarkReleased
  <2> HIDE DEF r
  <2> QED
    BY <1>3, <2>1, <2>2
<1> QED
  BY <1>4, <1>5, <1>6

LEMMA ProceedOrphans ==
    ASSUME TypeOK, NEW p \in Procs, Proceed(p)
    PROVE  NoMoreOrphans
<1>1. ASSUME RetireEntry(p) \/ ForgetEntry(p) \/ UnlinkSource(p) \/ ReviveEntry(p)
      PROVE  NoMoreOrphans
  <2>1. ~At(p, "write") /\ tool[p].pc \notin {"idle", "mkdir", "lookup"}
    BY <1>1 DEF RetireEntry, ForgetEntry, UnlinkSource, ReviveEntry, At
  <2>2. WritersStay
    <3>1. PICK r : Become(p, r)
      BY <1>1 DEF RetireEntry, ForgetEntry, UnlinkSource, ReviveEntry, Exit, Goto
    <3> QED
      BY <2>1, <3>1, BecomeStays
  <2>3. <<tool[p].id, Live>> \in Key /\ <<tool[p].id, tool[p].ts>> \in Key
    BY <2>1, ToolPaths DEF TypeOK, ToolsOK
  <2> QED
    BY <1>1, <2>2, <2>3, SameOrphans, RenameOrphans, UnlinkOrphans
    DEF RetireEntry, ForgetEntry, UnlinkSource, ReviveEntry
<1>2. ASSUME \/ \E s \in Spaces : MakeDir(p, s)
             \/ RetireDir(p)
             \/ \E rest \in SUBSET Data : WipeData(p, rest)
             \/ ReadSource(p) \/ Refill(p) \/ PutBack(p)
      PROVE  NoMoreOrphans
  <2>1. ~At(p, "write") /\ UNCHANGED <<entry, open>>
    BY <1>2 DEF MakeDir, RetireDir, WipeData, ReadSource, Refill, PutBack, At, storeVars
  <2>2. UNCHANGED tool \/ \E r : Become(p, r)
    BY <1>2 DEF MakeDir, RetireDir, WipeData, ReadSource, Refill, PutBack, Exit, Goto
  <2>3. WritersStay
    BY <2>1, <2>2, BecomeStays DEF WritersStay, At
  <2> QED
    BY <2>1, <2>3, SameOrphans
<1> QED
  BY <1>1, <1>2, OpeningOrphans, FinishWriteOrphans DEF Proceed

\* The expirer renames and unlinks entries, and writes none.
LEMMA RunOrphans ==
    ASSUME TypeOK, ContinueRun, UNCHANGED tool
    PROVE  NoMoreOrphans
<1>1. WritersStay
  BY DEF WritersStay, At
<1>2. CASE ExpireEntry
  <2>1. xp.job.key \in Key /\ <<xp.job.key[1], xp.job.ts>> \in Key
    BY <1>2, LiveLabel DEF ExpireEntry, TypeOK, ExpirerTypeOK, Job, Key
  <2> QED
    BY <1>1, <1>2, <2>1, SameOrphans, RenameOrphans DEF ExpireEntry
<1>3. CASE UnlinkRemoved
  <2>1. xp.job.key \in Key
    BY <1>3 DEF UnlinkRemoved, TypeOK, ExpirerTypeOK, Job
  <2> QED
    BY <1>1, <1>3, <2>1, SameOrphans, UnlinkOrphans DEF UnlinkRemoved
<1>4. CASE ~ExpireEntry /\ ~UnlinkRemoved
  <2>1. UNCHANGED <<entry, open>>
    BY <1>4 DEF ContinueRun, ScanSpace, ScanTrash, ListEntries, CheckEntry,
                VisitEntry, VisitRemoved, VisitDir, ListRemovedEntries, VisitTrash,
                ListLive, ExpireDir, ListRemoved, DeleteRemoved, FinishRun, storeVars
  <2> QED
    BY <1>1, <2>1, SameOrphans
<1> QED
  BY <1>2, <1>3, <1>4

LEMMA NextOrphans ==
    ASSUME TypeOK, FewOrphans, Next
    PROVE  FewOrphans'
<1>0. faults \in Nat
  BY DEF TypeOK, ToolTypeOK
<1>1. ASSUME NoMoreOrphans, faults' \in Nat, faults <= faults' PROVE FewOrphans'
  <2>1. Cardinality(Orphans) \in Nat
    BY FS_CardinalityType DEF FewOrphans
  <2> QED
    BY <1>0, <1>1, <2>1, NoMoreCounted DEF FewOrphans, OneEmptyPerFault
<1>2. CASE ClockTicks \/ JobStep \/ RunStarts \/ RunCrashes
  <2>1. UNCHANGED <<entry, open, tool>> /\ faults' \in {faults, faults + 1}
    BY <1>2 DEF ClockTicks, Tick, JobStep, JobWrites, RunStarts, StartRun, RunCrashes,
                storeVars, toolVars
  <2> QED
    BY <1>0, <1>1, <2>1, SameOrphans DEF WritersStay, At
<1>3. ASSUME NEW p \in Procs, Launch(p) PROVE FewOrphans'
  <2>1. ~At(p, "write") /\ UNCHANGED <<entry, open, faults>>
    BY <1>3 DEF Launch, Reuse, Allocate, ReadForExtend, ReadForRelease, ReadTarget,
                CheckRevivable, Start, At, storeVars
  <2>2. UNCHANGED tool \/ \E r : Become(p, r)
    BY <1>3 DEF Launch, Reuse, Allocate, ReadForExtend, ReadForRelease, ReadTarget,
                CheckRevivable
  <2> QED
    BY <1>0, <1>1, <2>1, <2>2, BecomeStays, SameOrphans DEF WritersStay, At
<1>4. ASSUME NEW p \in Procs, Proceed(p) PROVE FewOrphans'
  <2>1. UNCHANGED faults
    BY <1>4 DEF Proceed, MakeDir, CreateEntry, UseExtension, MarkReleased, FinishWrite,
                RetireEntry, RetireDir, WipeData, ForgetEntry, ReadSource, Refill,
                UnlinkSource, ReviveEntry, PutBack, Continue
  <2> QED
    BY <1>0, <1>1, <1>4, <2>1, ProceedOrphans
<1>5. CASE RunStep
  BY <1>0, <1>1, <1>5, RunOrphans DEF RunStep, toolVars
<1>6. CASE DiskFails
  <2>1. ASSUME NEW p \in Procs, OpenFails(p) PROVE FewOrphans'
    <3>1. NoMoreOrphans /\ faults' = faults + 1
      BY <2>1, OpenFailOrphans
    <3> QED
      BY <1>0, <1>1, <3>1
  <2> QED
    BY <1>6, <2>1, LostWriteOrphans DEF DiskFails
<1> QED
  BY <1>2, <1>3, <1>4, <1>5, <1>6, LostWriteOrphans DEF Next, ToolStarts, ToolStep, ToolCrashes

\* Every kill and every failed write leaves at most one entry empty for good, and
\* nothing else leaves one: write_dbfile of any number of processes that open,
\* rename and remove the same file in any order.
THEOREM EmptiedByFaults == Spec => []OneEmptyPerFault
<1>1. Init => FewOrphans
  <2> SUFFICES ASSUME Init PROVE FewOrphans
    OBVIOUS
  <2>1. Orphans = {} /\ faults = 0
    BY DEF Init, StoreInit, ToolInit, Orphans
  <2> QED
    BY <2>1, FS_EmptySet DEF FewOrphans, OneEmptyPerFault
<1>2. ASSUME TypeOK, FewOrphans, [Next]_vars PROVE FewOrphans'
  <2>1. CASE UNCHANGED vars
    <3>1. Orphans' = Orphans /\ faults' = faults
      BY <2>1 DEF Orphans, Written, At, vars, storeVars, toolVars
    <3> QED
      BY <1>2, <3>1 DEF FewOrphans, OneEmptyPerFault
  <2> QED
    BY <1>2, <2>1, NextOrphans
<1>3. FewOrphans => OneEmptyPerFault
  BY DEF FewOrphans
<1> QED
  BY <1>1, <1>2, <1>3, TypeCorrect, PTL DEF Spec
=============================================================================
