--------------------------- MODULE WsQuiet_proofs ---------------------------
(***************************************************************************)
(* What holds at a site with one process at a time and without the         *)
(* administrator's ws_restore: extensions are limited, and, if the expirer *)
(* runs between the tools, an entry names a directory that exists and data *)
(* stay restorable until they are due.                                     *)
(***************************************************************************)
EXTENDS WsProperties_proofs

USE StoreAssumption, ToolAssumption, ExpirerAssumption, QuietAssumption

\* One tool runs at a time, and it is one of the user.
UsersTurn == (\A p, q \in Procs : p = q) /\ "admin" \notin Ops

-----------------------------------------------------------------------------
(* The invariant of the extensions                                         *)

\* The prolongations granted so far and those that are left.
EntryBudget(i) ==
    /\ used[i] <= MaxExt
    /\ Readable(<<i, Live>>) => used[i] + entry[<<i, Live>>].ext <= MaxExt

\* A copy of an entry has as many extensions left as its entry had when it was
\* read, and an open file still is one of the workspace.
ToolBudget(p) ==
    /\ tool[p].pc \notin {"revive", "putback"}
    /\ tool[p].pc = "create" => tool[p].ent.ext = MaxExt
    /\ tool[p].pc \in {"extend", "mark"} \/ open[p] # None =>
          used[tool[p].id] + tool[p].ent.ext <= MaxExt
    /\ open[p] # None => tool[p].pc = "write" /\ open[p][1] = tool[p].id

Budget == (\A i \in Ids : EntryBudget(i)) /\ (\A p \in Procs : ToolBudget(p))

-----------------------------------------------------------------------------
(* The invariant of the directories                                        *)

\* The directory a tool writes an entry for is there, and one that a tool moves
\* away has lost its entry.
ToolPlaces(p) ==
    /\ tool[p].pc \in {"create", "extend", "mark", "write"} =>
          <<tool[p].ent.space, tool[p].id, Live>> \in dirs
    /\ tool[p].pc = "movedir" => ~Exists(<<tool[p].id, Live>>)
    /\ tool[p].pc \in {"lookup", "refill"} => tool[p].ts # Live

\* The expirer has the site for itself, so that its lists stay current.
ExpirerPlaces ==
    /\ Running => ToolsIdle
    /\ xp.pc \in {"check", "stray"} => LiveKeys \subseteq xp.names
    /\ xp.pc \in {"retire", "movedir"} => xp.job.key[2] = Live
    /\ xp.pc = "movedir" => ~Exists(xp.job.key)

Places == EntryHasDir /\ (\A p \in Procs : ToolPlaces(p)) /\ ExpirerPlaces

-----------------------------------------------------------------------------
(* What the steps on the entries leave alone                               *)

\* No live entry gets another content than being empty or missing.
KeepsLive == \A i \in Ids : entry'[<<i, Live>>] \in {entry[<<i, Live>>], Empty, None}

\* No file is opened, and one that is open keeps its workspace.
KeepsOpen == \A p \in Procs : open'[p] # None =>
                open[p] # None /\ open'[p][1] = open[p][1]

LEMMA LiveIsNoTime == Live \notin Time
BY DEF Live, Time

LEMMA SameKeeps == ASSUME UNCHANGED <<entry, open>> PROVE KeepsLive /\ KeepsOpen
BY DEF KeepsLive, KeepsOpen

LEMMA RenameKeeps ==
    ASSUME EntryTypeOK, NEW i \in Ids, NEW l \in Label, NEW t \in Label, t # Live,
           RenameEntry(<<i, l>>, <<i, t>>)
    PROVE  KeepsLive /\ KeepsOpen
<1>1. <<i, l>> \in Key /\ <<i, t>> \in Key /\ \A j \in Ids : <<j, Live>> \in Key
  BY LiveLabel, KeyInKey
<1>2. KeepsLive
  <2> SUFFICES ASSUME NEW j \in Ids
               PROVE  entry'[<<j, Live>>] \in {entry[<<j, Live>>], Empty, None}
    BY DEF KeepsLive
  <2>1. <<j, Live>> # <<i, t>>
    OBVIOUS
  <2> QED
    BY <1>1, <2>1 DEF EntryTypeOK, RenameEntry
<1>3. KeepsOpen
  <2> SUFFICES ASSUME NEW p \in Procs, open'[p] # None
               PROVE  open[p] # None /\ open'[p][1] = open[p][1]
    BY DEF KeepsOpen
  <2>1. open'[p] = CASE open[p] = <<i, l>> -> <<i, t>>
                     [] open[p] = <<i, t>> -> None
                     [] OTHER -> open[p]
    BY DEF RenameEntry
  <2>2. CASE open[p] = <<i, l>>
    BY <1>1, <2>1, <2>2
  <2>3. CASE open[p] # <<i, l>>
    BY <2>1, <2>3
  <2> QED
    BY <2>2, <2>3
<1> QED
  BY <1>2, <1>3

LEMMA UnlinkKeeps ==
    ASSUME EntryTypeOK, NEW k \in Key, UnlinkEntry(k)
    PROVE  KeepsLive /\ KeepsOpen
<1>1. \A j \in Ids : <<j, Live>> \in Key
  BY LiveLabel, KeyInKey
<1>2. KeepsLive
  BY <1>1 DEF KeepsLive, EntryTypeOK, UnlinkEntry
<1>3. KeepsOpen
  BY DEF KeepsOpen, UnlinkEntry
<1> QED
  BY <1>2, <1>3

LEMMA EntriesKeep ==
    ASSUME (\A i \in Ids : EntryBudget(i)), KeepsLive, UNCHANGED used
    PROVE  \A i \in Ids : EntryBudget(i)'
<1> SUFFICES ASSUME NEW i \in Ids PROVE EntryBudget(i)'
  OBVIOUS
<1>1. entry'[<<i, Live>>] \in Entry => entry'[<<i, Live>>] = entry[<<i, Live>>]
  BY DEF KeepsLive
<1> QED
  BY <1>1 DEF EntryBudget, Readable

-----------------------------------------------------------------------------
(* The steps of the only process                                           *)

\* The process comes to have the record r.
LEMMA BecomesBudget ==
    ASSUME UsersTurn, TypeOK, NEW p \in Procs, NEW r, Become(p, r),
           \A i \in Ids : EntryBudget(i)',
           r.pc \notin {"revive", "putback"},
           r.pc = "create" => r.ent.ext = MaxExt,
           r.pc \in {"extend", "mark"} \/ open'[p] # None => used'[r.id] + r.ent.ext <= MaxExt,
           open'[p] # None => r.pc = "write" /\ open'[p][1] = r.id
    PROVE  Budget'
<1>1. tool'[p] = r
  BY DEF Become, TypeOK, ToolTypeOK
<1>2. \A q \in Procs : q = p
  BY DEF UsersTurn
<1>3. ToolBudget(p)'
  BY <1>1 DEF ToolBudget
<1> QED
  BY <1>2, <1>3 DEF Budget

\* Only write has a file open.
LEMMA NothingOpen ==
    ASSUME Budget, NEW p \in Procs, tool[p].pc # "write" PROVE open[p] = None
BY DEF Budget, ToolBudget

LEMMA LaunchBudget ==
    ASSUME UsersTurn, TypeOK, Budget, NEW p \in Procs, Launch(p)
    PROVE  Budget'
<1>1. At(p, "idle") /\ UNCHANGED <<storeVars, used>>
  BY DEF Launch, Reuse, Allocate, ReadForExtend, ReadForRelease, ReadTarget,
         CheckRevivable, Start
<1>2. open'[p] = None
  BY <1>1, NothingOpen DEF At, storeVars
<1>3. \A i \in Ids : EntryBudget(i)'
  BY <1>1, EntriesKeep, SameKeeps DEF Budget, storeVars
<1>4. PICK i \in Ids :
         \/ Reuse(p, i)
         \/ Allocate(p, i)
         \/ ReadForExtend(p, i)
         \/ \E op \in {"release", "wipe"} : ReadForRelease(p, i, op)
         \/ \E t \in Time : \/ \E target \in Ids : ReadTarget(p, i, t, target)
                            \/ CheckRevivable(p, i, t)
  BY DEF Launch
<1>5. CASE Reuse(p, i)
  BY <1>1, <1>3, <1>5 DEF Reuse, Budget, ToolBudget, storeVars
<1>6. CASE Allocate(p, i)
  BY <1>2, <1>3, <1>6, BecomesBudget DEF Allocate, Idle
<1>7. CASE ReadForExtend(p, i)
  <2> DEFINE e == [entry[<<i, Live>>] EXCEPT !.rel = Live]
             r == [Idle EXCEPT !.pc = "extend", !.op = "extend", !.id = i, !.ent = e]
  <2>1. used[i] + entry[<<i, Live>>].ext <= MaxExt /\ entry[<<i, Live>>] \in Entry
    BY <1>7 DEF ReadForExtend, Readable, Budget, EntryBudget
  <2>2. r.pc = "extend" /\ r.id = i /\ r.ent.ext = entry[<<i, Live>>].ext
    BY <2>1 DEF Idle, Entry
  <2>3. Become(p, r)
    BY <1>7 DEF ReadForExtend
  <2> HIDE DEF r
  <2> QED
    BY <1>1, <1>2, <1>3, <2>1, <2>2, <2>3, BecomesBudget
<1>8. ASSUME NEW op \in {"release", "wipe"}, ReadForRelease(p, i, op) PROVE Budget'
  <2> DEFINE r == [Idle EXCEPT !.pc = "mark", !.op = op, !.id = i, !.ts = now,
                      !.ent = entry[<<i, Live>>]]
  <2>1. used[i] + entry[<<i, Live>>].ext <= MaxExt
    BY <1>8 DEF ReadForRelease, Budget, EntryBudget
  <2>2. r.pc = "mark" /\ r.id = i /\ r.ent = entry[<<i, Live>>]
    BY DEF Idle
  <2>3. Become(p, r)
    BY <1>8 DEF ReadForRelease
  <2> HIDE DEF r
  <2> QED
    BY <1>1, <1>2, <1>3, <2>1, <2>2, <2>3, BecomesBudget
<1>9. ASSUME NEW t \in Time, NEW target \in Ids, ReadTarget(p, i, t, target)
      PROVE  Budget'
  BY <1>2, <1>3, <1>9, BecomesBudget DEF ReadTarget, Idle
<1>10. ASSUME NEW t \in Time, CheckRevivable(p, i, t) PROVE FALSE
  BY <1>10 DEF CheckRevivable, Start, UsersTurn
<1> QED
  BY <1>4, <1>5, <1>6, <1>7, <1>8, <1>9, <1>10

\* The steps that take no extension and open no file.
LEMMA PlainBudget ==
    ASSUME UsersTurn, TypeOK, Budget, NEW p \in Procs, NEW r, Become(p, r),
           r.pc \notin {"revive", "putback", "create", "extend", "mark", "write"},
           tool[p].pc # "write", KeepsLive, KeepsOpen, UNCHANGED used
    PROVE  Budget'
<1>1. open'[p] = None
  BY NothingOpen DEF KeepsOpen
<1>2. \A i \in Ids : EntryBudget(i)'
  BY EntriesKeep DEF Budget
<1> QED
  BY <1>1, <1>2, BecomesBudget

\* Opening an entry empties it.
LEMMA OpenBudget ==
    ASSUME UsersTurn, TypeOK, Budget, NEW p \in Procs, NEW r, Become(p, r),
           NEW i \in Ids, OpenEntry(p, <<i, Live>>), r.pc = "write", r.id = i,
           used' \in [Ids -> Nat], used'[i] + r.ent.ext <= MaxExt, used'[i] <= MaxExt,
           \A j \in Ids \ {i} : used'[j] = used[j]
    PROVE  Budget'
<1>1. <<i, Live>> \in Key /\ entry \in [Key -> Entry \cup {Empty, None}]
      /\ open \in [Procs -> Key \cup {None}]
  BY LiveLabel, KeyInKey DEF TypeOK, StoreTypeOK
<1>2. ASSUME NEW j \in Ids PROVE EntryBudget(j)'
  <2>1. CASE j = i
    <3>1. entry'[<<i, Live>>] = Empty
      BY <1>1 DEF OpenEntry
    <3> QED
      BY <2>1, <3>1 DEF EntryBudget, Readable
  <2>2. CASE j # i
    <3>1. <<j, Live>> # <<i, Live>> /\ <<j, Live>> \in Key
      BY <2>2, LiveLabel, KeyInKey
    <3>2. entry'[<<j, Live>>] = entry[<<j, Live>>]
      BY <1>1, <3>1 DEF OpenEntry
    <3> QED
      BY <2>2, <3>2 DEF EntryBudget, Readable, Budget
  <2> QED
    BY <2>1, <2>2
<1>3. open'[p] = <<i, Live>>
  BY <1>1 DEF OpenEntry
<1> QED
  BY <1>2, <1>3, BecomesBudget

LEMMA CreateEntryBudget ==
    ASSUME UsersTurn, TypeOK, Budget, NEW p \in Procs, NEW duration \in Durations,
           CreateEntry(p, duration)
    PROVE  Budget'
<1> DEFINE i == tool[p].id
           r == [tool[p] EXCEPT !.pc = "write", !.ent.exp = now + duration]
<1>1. tool[p].pc = "create" /\ tool[p].ent.ext = MaxExt
  BY DEF CreateEntry, At, Budget, ToolBudget
<1>2. tool[p] \in Process /\ i \in Ids /\ tool[p].ent \in Entry
  BY <1>1 DEF TypeOK, ToolTypeOK, WellFormed
<1>3. r.pc = "write" /\ r.id = i /\ r.ent.ext = MaxExt
  BY <1>1, <1>2 DEF Process, Entry
<1>4. used' = [used EXCEPT ![i] = 0] /\ used \in [Ids -> Nat]
  BY DEF CreateEntry, TypeOK, ToolTypeOK
<1>5. used' \in [Ids -> Nat] /\ used'[i] = 0 /\ \A j \in Ids \ {i} : used'[j] = used[j]
  BY <1>2, <1>4
<1>6. Become(p, r) /\ OpenEntry(p, <<i, Live>>)
  BY DEF CreateEntry
<1> HIDE DEF i, r
<1> QED
  BY <1>2, <1>3, <1>5, <1>6, OpenBudget

LEMMA UseExtensionBudget ==
    ASSUME UsersTurn, TypeOK, Budget, NEW p \in Procs, NEW duration \in Durations,
           UseExtension(p, duration)
    PROVE  Budget'
<1> DEFINE i == tool[p].id
           e == tool[p].ent
           c == Cost(e, duration)
           r == [tool[p] EXCEPT !.pc = "write", !.ent.exp = Prolonged(e, duration),
                    !.ent.ext = e.ext - c]
<1>1. tool[p].pc = "extend" /\ used[i] + e.ext <= MaxExt
  BY DEF UseExtension, At, Budget, ToolBudget
<1>2. tool[p] \in Process /\ i \in Ids /\ e \in Entry /\ e.ext \in 0 .. MaxExt
      /\ used \in [Ids -> Nat]
  BY <1>1 DEF TypeOK, ToolTypeOK, WellFormed, Entry
<1>3. CASE Exit(p) /\ UNCHANGED <<entry, open, used>>
  BY <1>1, <1>3, SameKeeps, PlainBudget DEF Exit, Idle
<1>4. CASE e.ext >= c /\ OpenEntry(p, <<i, Live>>) /\ Become(p, r)
           /\ CountUse(i, e, duration)
  <2>1. r.pc = "write" /\ r.id = i /\ r.ent.ext = e.ext - c
    BY <1>2 DEF Process, Entry
  <2>2. used' \in [Ids -> Nat] /\ used'[i] = used[i] + c
        /\ \A j \in Ids \ {i} : used'[j] = used[j]
    BY <1>2, <1>4 DEF CountUse, Cost
  <2>3. c \in {0, 1}
    BY DEF Cost
  <2>4. used'[i] + r.ent.ext <= MaxExt /\ used'[i] <= MaxExt
    <3> HIDE DEF r, c
    <3> QED
      BY <1>1, <1>2, <1>4, <2>1, <2>2, <2>3
  <2> HIDE DEF i, e, r
  <2> QED
    BY <1>2, <1>4, <2>1, <2>2, <2>4, OpenBudget
<1> QED
  BY <1>3, <1>4 DEF UseExtension

LEMMA MarkReleasedBudget ==
    ASSUME UsersTurn, TypeOK, Budget, NEW p \in Procs, MarkReleased(p)
    PROVE  Budget'
<1> DEFINE i == tool[p].id
           r == [tool[p] EXCEPT !.pc = "write", !.ent.exp = now, !.ent.rel = now]
<1>1. tool[p].pc = "mark" /\ used[i] + tool[p].ent.ext <= MaxExt
  BY DEF MarkReleased, At, Budget, ToolBudget
<1>2. tool[p] \in Process /\ i \in Ids /\ tool[p].ent \in Entry
      /\ used \in [Ids -> Nat] /\ used' = used
  BY <1>1 DEF TypeOK, ToolTypeOK, WellFormed, MarkReleased
<1>3. r.pc = "write" /\ r.id = i /\ r.ent.ext = tool[p].ent.ext
  BY <1>2 DEF Process, Entry
<1>4. Become(p, r) /\ OpenEntry(p, <<i, Live>>)
  BY DEF MarkReleased
<1>5. used[i] <= MaxExt
  BY <1>2 DEF Budget, EntryBudget
<1> HIDE DEF i, r
<1> QED
  BY <1>1, <1>2, <1>3, <1>4, <1>5, OpenBudget

\* What is written was within the limit when it was read, and only this process
\* has been granted a prolongation since.
LEMMA FinishWriteBudget ==
    ASSUME UsersTurn, TypeOK, Budget, NEW p \in Procs, FinishWrite(p)
    PROVE  Budget'
<1>1. tool[p].pc = "write"
      /\ (open[p] # None => /\ used[tool[p].id] + tool[p].ent.ext <= MaxExt
                            /\ open[p][1] = tool[p].id)
  BY DEF FinishWrite, At, Budget, ToolBudget
<1>2. entry \in [Key -> Entry \cup {Empty, None}] /\ open \in [Procs -> Key \cup {None}]
      /\ used' = used
  BY DEF TypeOK, StoreTypeOK, FinishWrite
<1>3. ASSUME NEW j \in Ids PROVE EntryBudget(j)'
  <2>0. <<j, Live>> \in Key
    BY LiveLabel, KeyInKey
  <2>1. CASE open[p] = <<j, Live>>
    <3>0. open[p] # None
      BY <2>0, <2>1
    <3>1. entry'[<<j, Live>>] = tool[p].ent /\ tool[p].id = j
      BY <1>1, <1>2, <2>0, <2>1, <3>0 DEF FinishWrite, WriteEntry
    <3> QED
      BY <1>1, <1>2, <3>0, <3>1 DEF EntryBudget, Budget
  <2>2. CASE open[p] # <<j, Live>>
    <3>1. entry'[<<j, Live>>] = entry[<<j, Live>>]
      BY <1>2, <2>0, <2>2 DEF FinishWrite, WriteEntry
    <3> QED
      BY <1>2, <3>1 DEF EntryBudget, Budget, Readable
  <2> QED
    BY <2>1, <2>2
<1>4. open'[p] = None
  BY <1>2 DEF FinishWrite, WriteEntry
<1>5. CASE Exit(p)
  BY <1>3, <1>4, <1>5, BecomesBudget DEF Exit, Idle
<1>6. CASE Goto(p, "retire")
  <2> DEFINE r == [tool[p] EXCEPT !.pc = "retire"]
  <2>1. r.pc = "retire"
    BY <1>1 DEF TypeOK, ToolTypeOK, Process
  <2>2. Become(p, r)
    BY <1>6 DEF Goto
  <2> HIDE DEF r
  <2> QED
    BY <1>3, <1>4, <2>1, <2>2, BecomesBudget
<1> QED
  BY <1>5, <1>6 DEF FinishWrite

\* The process goes on to a step that neither writes nor creates an entry.
LEMMA GotoBudget ==
    ASSUME UsersTurn, TypeOK, Budget, NEW p \in Procs, tool[p].pc # "write",
           KeepsLive, KeepsOpen, UNCHANGED used,
           \/ Exit(p)
           \/ \E pc \in {"movedir", "wipe", "forget", "unlink"} : Goto(p, pc)
           \/ \E e : Become(p, [tool[p] EXCEPT !.pc = "refill", !.ent = e])
    PROVE  Budget'
<1>0. tool[p] \in Process
  BY DEF TypeOK, ToolTypeOK
<1>1. CASE Exit(p)
  BY <1>1, PlainBudget DEF Exit, Idle
<1>2. ASSUME NEW pc \in {"movedir", "wipe", "forget", "unlink"}, Goto(p, pc)
      PROVE  Budget'
  <2> DEFINE r == [tool[p] EXCEPT !.pc = pc]
  <2>1. r.pc = pc /\ Become(p, r)
    BY <1>0, <1>2 DEF Process, Goto
  <2> HIDE DEF r
  <2> QED
    BY <2>1, PlainBudget
<1>3. ASSUME NEW e, Become(p, [tool[p] EXCEPT !.pc = "refill", !.ent = e])
      PROVE  Budget'
  <2> DEFINE r == [tool[p] EXCEPT !.pc = "refill", !.ent = e]
  <2>1. r.pc = "refill" /\ Become(p, r)
    BY <1>0, <1>3 DEF Process
  <2> HIDE DEF r
  <2> QED
    BY <2>1, PlainBudget
<1> QED
  BY <1>1, <1>2, <1>3

LEMMA MakeDirBudget ==
    ASSUME UsersTurn, TypeOK, Budget, NEW p \in Procs, NEW s \in Spaces, MakeDir(p, s)
    PROVE  Budget'
<1> DEFINE r == [tool[p] EXCEPT !.pc = "create",
                    !.ent = [space |-> s, exp |-> 0, ext |-> MaxExt, rel |-> Live]]
<1>1. tool[p] \in Process
  BY DEF TypeOK, ToolTypeOK
<1>2. r.pc = "create" /\ r.ent.ext = MaxExt
  BY <1>1 DEF Process
<1>3. Become(p, r) /\ UNCHANGED <<entry, open, used>> /\ tool[p].pc = "mkdir"
  BY DEF MakeDir, At
<1>4. open'[p] = None
  BY <1>3, NothingOpen
<1>5. \A i \in Ids : EntryBudget(i)'
  BY <1>3, EntriesKeep, SameKeeps DEF Budget
<1> HIDE DEF r
<1> QED
  BY <1>2, <1>3, <1>4, <1>5, BecomesBudget

\* The rest of the steps of a tool.
LEMMA OtherStepBudget ==
    ASSUME UsersTurn, TypeOK, Budget, NEW p \in Procs,
           \/ RetireEntry(p) \/ RetireDir(p) \/ ForgetEntry(p) \/ ReadSource(p)
           \/ Refill(p) \/ UnlinkSource(p) \/ ReviveEntry(p) \/ PutBack(p)
    PROVE  Budget'
<1> DEFINE i == tool[p].id
           t == tool[p].ts
<1>0. EntryTypeOK /\ tool[p] \in Process /\ t \in Label
  BY StoreTypes DEF TypeOK, ToolTypeOK, Process
<1>1. CASE RetireEntry(p)
  <2>1. tool[p].pc = "retire" /\ i \in Ids /\ t \in Time /\ t # Live /\ UNCHANGED used
    BY <1>1, LiveIsNoTime DEF RetireEntry, At, TypeOK, ToolTypeOK, WellFormed
  <2>2. KeepsLive /\ KeepsOpen
    BY <1>0, <1>1, <2>1, LiveLabel, RenameKeeps, SameKeeps DEF RetireEntry
  <2>3. Exit(p) \/ Goto(p, "movedir")
    BY <1>1 DEF RetireEntry
  <2> QED
    BY <2>1, <2>2, <2>3, GotoBudget
<1>2. CASE RetireDir(p)
  <2>1. tool[p].pc = "movedir" /\ UNCHANGED <<entry, open, used>>
        /\ (Exit(p) \/ Goto(p, "wipe"))
    BY <1>2 DEF RetireDir, At
  <2> QED
    BY <2>1, SameKeeps, GotoBudget
<1>3. CASE ForgetEntry(p) \/ UnlinkSource(p)
  <2>1. tool[p].pc \in {"forget", "unlink"} /\ i \in Ids /\ UnlinkEntry(<<i, t>>)
        /\ UNCHANGED used /\ Exit(p)
    BY <1>3 DEF ForgetEntry, UnlinkSource, At, TypeOK, ToolTypeOK, WellFormed
  <2> QED
    BY <1>0, <2>1, KeyInKey, UnlinkKeeps, GotoBudget
<1>4. CASE ReadSource(p)
  <2>1. tool[p].pc = "lookup" /\ UNCHANGED <<entry, open, used>>
    BY <1>4 DEF ReadSource, At, storeVars
  <2>2. Exit(p) \/ \E e : Become(p, [tool[p] EXCEPT !.pc = "refill", !.ent = e])
    BY <1>4 DEF ReadSource
  <2> QED
    BY <2>1, <2>2, SameKeeps, GotoBudget
<1>5. CASE Refill(p)
  <2>1. tool[p].pc = "refill" /\ UNCHANGED <<entry, open, used>>
        /\ (Exit(p) \/ Goto(p, "unlink"))
    BY <1>5 DEF Refill, At
  <2> QED
    BY <2>1, SameKeeps, GotoBudget
<1>6. ~ReviveEntry(p) /\ ~PutBack(p)
  BY DEF ReviveEntry, PutBack, At, Budget, ToolBudget
<1> QED
  BY <1>1, <1>2, <1>3, <1>4, <1>5, <1>6

LEMMA WipeBudget ==
    ASSUME UsersTurn, TypeOK, Budget, NEW p \in Procs, NEW rest \in SUBSET Data,
           WipeData(p, rest)
    PROVE  Budget'
<1>1. tool[p].pc = "wipe" /\ UNCHANGED <<entry, open, used>>
      /\ (UNCHANGED tool \/ Goto(p, "forget"))
  BY DEF WipeData, At
<1>2. CASE UNCHANGED tool
  BY <1>1, <1>2 DEF Budget, EntryBudget, ToolBudget, Readable
<1>3. CASE Goto(p, "forget")
  BY <1>1, <1>3, SameKeeps, GotoBudget
<1> QED
  BY <1>1, <1>2, <1>3

LEMMA ProceedBudget ==
    ASSUME UsersTurn, TypeOK, Budget, NEW p \in Procs, Proceed(p)
    PROVE  Budget'
BY MakeDirBudget, CreateEntryBudget, UseExtensionBudget, MarkReleasedBudget,
   FinishWriteBudget, WipeBudget, OtherStepBudget
DEF Proceed

LEMMA CrashBudget ==
    ASSUME UsersTurn, TypeOK, Budget, NEW p \in Procs, Crash(p)
    PROVE  Budget'
<1>1. UNCHANGED <<entry, used>> /\ Exit(p) /\ open'[p] = None
  BY DEF Crash, TypeOK, StoreTypeOK
<1>2. \A i \in Ids : EntryBudget(i)'
  BY <1>1 DEF Budget, EntryBudget, Readable
<1> QED
  BY <1>1, <1>2, BecomesBudget DEF Exit, Idle

\* A failing write empties nothing that was read, and leaves no file open.
LEMMA DiskFailBudget ==
    ASSUME UsersTurn, TypeOK, Budget, NEW p \in Procs, OpenFails(p) \/ WriteFails(p)
    PROVE  Budget'
<1>1. UNCHANGED <<entry, used>> /\ open'[p] = None /\ \A q \in Procs : q = p
  <2>1. CASE OpenFails(p)
    <3>1. tool[p].pc # "write" /\ UNCHANGED <<entry, open, used>>
      BY <2>1 DEF OpenFails, At, storeVars
    <3> QED
      BY <3>1, NothingOpen DEF UsersTurn
  <2>2. CASE WriteFails(p)
    BY <2>2 DEF WriteFails, TypeOK, StoreTypeOK, UsersTurn
  <2> QED
    BY <2>1, <2>2
<1>2. \A i \in Ids : EntryBudget(i)'
  BY <1>1 DEF Budget, EntryBudget, Readable
<1>3. tool'[p].pc = "write"
  BY DEF OpenFails, WriteFails, Goto, Become, At, TypeOK, ToolTypeOK, Process
<1>4. ToolBudget(p)'
  BY <1>1, <1>3 DEF ToolBudget
<1> QED
  BY <1>1, <1>2, <1>4 DEF Budget

-----------------------------------------------------------------------------
(* The steps of the others: the expirer renames and removes entries only.  *)

LEMMA RunBudget ==
    ASSUME TypeOK, Budget, KeepsLive, KeepsOpen, UNCHANGED toolVars
    PROVE  Budget'
<1>1. \A i \in Ids : EntryBudget(i)'
  BY EntriesKeep DEF Budget, toolVars
<1>2. \A p \in Procs : ToolBudget(p)'
  BY DEF Budget, ToolBudget, KeepsOpen, toolVars
<1> QED
  BY <1>1, <1>2 DEF Budget

LEMMA ContinueRunKeeps ==
    ASSUME TypeOK, ContinueRun
    PROVE  KeepsLive /\ KeepsOpen
<1>0. EntryTypeOK
  BY StoreTypes DEF TypeOK
<1>1. CASE ExpireEntry
  <2>1. CASE UNCHANGED <<entry, open>>
    BY <2>1, SameKeeps
  <2>2. CASE RenameEntry(xp.job.key, <<xp.job.key[1], xp.job.ts>>)
    <3>1. xp.job \in Job
      BY <1>1 DEF ExpireEntry, TypeOK, ExpirerTypeOK
    <3>2. xp.job.key \in Key /\ xp.job.ts \in Time
      BY <3>1 DEF Job
    <3>3. xp.job.ts \in Label /\ xp.job.ts # Live
      BY <3>2, LiveIsNoTime, LiveLabel
    <3>4. PICK i \in Ids, l \in Label : xp.job.key = <<i, l>>
      BY <3>2 DEF Key
    <3>5. RenameEntry(<<i, l>>, <<i, xp.job.ts>>)
      BY <2>2, <3>4
    <3> QED
      BY <1>0, <3>3, <3>5, RenameKeeps
  <2> QED
    BY <1>1, <2>1, <2>2 DEF ExpireEntry
<1>2. CASE UnlinkRemoved
  <2>1. xp.job.key \in Key
    BY <1>2 DEF UnlinkRemoved, TypeOK, ExpirerTypeOK, Job
  <2> QED
    BY <1>0, <1>2, <2>1, UnlinkKeeps, SameKeeps DEF UnlinkRemoved
<1>3. CASE ~ExpireEntry /\ ~UnlinkRemoved
  <2>1. UNCHANGED <<entry, open>>
    BY <1>3
    DEF ContinueRun, ScanSpace, ScanTrash, ListEntries, CheckEntry, VisitEntry,
        VisitRemoved, VisitDir, ListRemovedEntries, VisitTrash, ListLive,
        ExpireDir, ListRemoved, DeleteRemoved, FinishRun, storeVars
  <2> QED
    BY <2>1, SameKeeps
<1> QED
  BY <1>1, <1>2, <1>3

LEMMA BudgetKept ==
    ASSUME UsersTurn, TypeOK, Budget, Next
    PROVE  Budget'
<1>1. CASE UNCHANGED <<entry, open, tool, used>>
  BY <1>1 DEF Budget, EntryBudget, ToolBudget, Readable
<1>2. CASE ToolStarts
  BY <1>2, LaunchBudget DEF ToolStarts
<1>3. ASSUME NEW p \in Procs, ToolStep(p) PROVE Budget'
  BY <1>3, ProceedBudget DEF ToolStep
<1>4. CASE ToolCrashes
  BY <1>4, CrashBudget DEF ToolCrashes
<1>5. CASE RunStep
  BY <1>5, ContinueRunKeeps, RunBudget DEF RunStep
<1>6. CASE ClockTicks \/ JobStep \/ RunStarts \/ RunCrashes
  BY <1>1, <1>6 DEF ClockTicks, Tick, JobStep, JobWrites, RunStarts, StartRun,
                    RunCrashes, storeVars, toolVars
<1>7. CASE DiskFails
  BY <1>7, DiskFailBudget DEF DiskFails
<1> QED
  BY <1>2, <1>3, <1>4, <1>5, <1>6, <1>7 DEF Next

LEMMA BudgetInductive == ASSUME UsersTurn PROVE Spec => []Budget
<1>1. Init => Budget
  <2> SUFFICES ASSUME Init PROVE Budget
    OBVIOUS
  <2>1. /\ \A i \in Ids : used[i] = 0 /\ entry[<<i, Live>>] = None
        /\ \A p \in Procs : tool[p] = Idle /\ open[p] = None
    BY LiveLabel, KeyInKey DEF Init, StoreInit, ToolInit
  <2> QED
    BY <2>1 DEF Budget, EntryBudget, ToolBudget, Readable, Idle
<1>2. ASSUME TypeOK, Budget, [Next]_vars PROVE Budget'
  <2>1. CASE UNCHANGED vars
    BY <1>2, <2>1 DEF Budget, EntryBudget, ToolBudget, Readable, vars, storeVars, toolVars
  <2> QED
    BY <1>2, <2>1, BudgetKept
<1>3. TypeOK /\ Budget /\ [Next]_vars => Budget'
  BY <1>2
<1> QED
  BY <1>1, <1>3, TypeCorrect, PTL DEF Spec

\* use_extension: a workspace is prolonged at most maxextensions times, where
\* one user's tool runs at a time and the administrator revives nothing; the
\* expirer may run at any moment, and any of them may be killed.
THEOREM ExtensionsLimited == ASSUME UsersTurn PROVE Spec => []ExtensionBudget
<1>1. Budget => ExtensionBudget
  BY DEF Budget, EntryBudget, ExtensionBudget
<1> QED
  BY <1>1, BudgetInductive, PTL

-----------------------------------------------------------------------------
(* What the steps on the directories leave alone                           *)

\* No live directory goes away.
KeepsDirs == \A s \in Spaces, i \in Ids : <<s, i, Live>> \in dirs =>
                                              <<s, i, Live>> \in dirs'

LEMMA HasDirKept ==
    ASSUME EntryHasDir, KeepsLive, KeepsDirs
    PROVE  EntryHasDir'
<1> SUFFICES ASSUME NEW i \in Ids, Readable(<<i, Live>>)'
             PROVE  (<<entry[<<i, Live>>].space, i, Live>> \in dirs)'
  BY DEF EntryHasDir
<1>1. entry'[<<i, Live>>] = entry[<<i, Live>>] /\ Readable(<<i, Live>>)
  BY DEF KeepsLive, Readable
<1>2. entry[<<i, Live>>].space \in Spaces
  BY <1>1 DEF Readable, Entry
<1> QED
  BY <1>1, <1>2 DEF EntryHasDir, KeepsDirs

LEMMA SameDirsKeep == ASSUME UNCHANGED dirs PROVE KeepsDirs
BY DEF KeepsDirs

LEMMA MoveKeeps ==
    ASSUME NEW s, NEW i, NEW l, l # Live, NEW to, MoveDir(<<s, i, l>>, to)
    PROVE  KeepsDirs
BY DEF KeepsDirs, MoveDir

LEMMA RemoveKeeps ==
    ASSUME NEW s, NEW i, NEW l, l # Live, NEW rest, RemoveTree(<<s, i, l>>, rest)
    PROVE  KeepsDirs
BY DEF KeepsDirs, RemoveTree

\* A live directory may go where its entry does not exist.
LEMMA VacatedKept ==
    ASSUME EntryHasDir, NEW s, NEW i, ~Exists(<<i, Live>>), NEW to,
           MoveDir(<<s, i, Live>>, to), UNCHANGED entry
    PROVE  EntryHasDir'
<1> SUFFICES ASSUME NEW j \in Ids, Readable(<<j, Live>>)
             PROVE  <<entry[<<j, Live>>].space, j, Live>> \in dirs'
  BY DEF EntryHasDir, Readable
<1>1. j # i
  BY DEF Readable, Exists
<1> QED
  BY <1>1 DEF EntryHasDir, MoveDir

-----------------------------------------------------------------------------
(* The steps of the only process, while the expirer rests                  *)

LEMMA ExpirerRests ==
    ASSUME Places, NEW p \in Procs, tool[p].pc # "idle"
    PROVE  ~Running
BY DEF Places, ExpirerPlaces, ToolsIdle, At

\* The process comes to have the record r.
LEMMA BecomesPlaces ==
    ASSUME UsersTurn, TypeOK, NEW p \in Procs, NEW r, Become(p, r),
           ~Running, UNCHANGED xp, EntryHasDir',
           r.pc \in {"create", "extend", "mark", "write"} =>
              <<r.ent.space, r.id, Live>> \in dirs',
           r.pc = "movedir" => entry'[<<r.id, Live>>] = None,
           r.pc \in {"lookup", "refill"} => r.ts # Live
    PROVE  Places'
<1>1. tool'[p] = r
  BY DEF Become, TypeOK, ToolTypeOK
<1>2. \A q \in Procs : q = p
  BY DEF UsersTurn
<1>3. ToolPlaces(p)'
  BY <1>1 DEF ToolPlaces, Exists
<1>4. ExpirerPlaces'
  BY DEF ExpirerPlaces, Running
<1> QED
  BY <1>2, <1>3, <1>4 DEF Places

LEMMA LaunchPlaces ==
    ASSUME UsersTurn, TypeOK, Places, NEW p \in Procs, Launch(p), ~Running,
           UNCHANGED xp
    PROVE  Places'
<1>1. UNCHANGED storeVars
  BY DEF Launch, Reuse, Allocate, ReadForExtend, ReadForRelease, ReadTarget,
         CheckRevivable
<1>2. UNCHANGED <<entry, dirs>> /\ EntryHasDir /\ EntryHasDir'
  BY <1>1 DEF storeVars, Places, EntryHasDir, Readable
<1>4. PICK i \in Ids :
         \/ Reuse(p, i)
         \/ Allocate(p, i)
         \/ ReadForExtend(p, i)
         \/ \E op \in {"release", "wipe"} : ReadForRelease(p, i, op)
         \/ \E t \in Time : \/ \E target \in Ids : ReadTarget(p, i, t, target)
                            \/ CheckRevivable(p, i, t)
  BY DEF Launch
<1>5. CASE Reuse(p, i)
  <2>1. UNCHANGED tool
    BY <1>5 DEF Reuse
  <2>2. \A q \in Procs : ToolPlaces(q)'
    BY <1>2, <2>1 DEF Places, ToolPlaces, Exists
  <2>3. ExpirerPlaces'
    BY DEF ExpirerPlaces, Running
  <2> QED
    BY <1>2, <2>2, <2>3 DEF Places
<1>6. CASE Allocate(p, i)
  BY <1>2, <1>6, BecomesPlaces DEF Allocate, Idle
<1>7. CASE ReadForExtend(p, i)
  <2> DEFINE e == [entry[<<i, Live>>] EXCEPT !.rel = Live]
             r == [Idle EXCEPT !.pc = "extend", !.op = "extend", !.id = i, !.ent = e]
  <2>1. entry[<<i, Live>>] \in Entry
        /\ <<entry[<<i, Live>>].space, i, Live>> \in dirs'
    BY <1>2, <1>7 DEF ReadForExtend, Readable, EntryHasDir
  <2>2. r.pc = "extend" /\ r.id = i /\ r.ent.space = entry[<<i, Live>>].space
    BY <2>1 DEF Idle, Entry
  <2>3. Become(p, r)
    BY <1>7 DEF ReadForExtend
  <2> HIDE DEF r
  <2> QED
    BY <1>2, <2>1, <2>2, <2>3, BecomesPlaces
<1>8. ASSUME NEW op \in {"release", "wipe"}, ReadForRelease(p, i, op) PROVE Places'
  <2> DEFINE r == [Idle EXCEPT !.pc = "mark", !.op = op, !.id = i, !.ts = now,
                      !.ent = entry[<<i, Live>>]]
  <2>1. <<entry[<<i, Live>>].space, i, Live>> \in dirs'
    BY <1>2, <1>8 DEF ReadForRelease, EntryHasDir
  <2>2. r.pc = "mark" /\ r.id = i /\ r.ent = entry[<<i, Live>>]
    BY DEF Idle
  <2>3. Become(p, r)
    BY <1>8 DEF ReadForRelease
  <2> HIDE DEF r
  <2> QED
    BY <1>2, <2>1, <2>2, <2>3, BecomesPlaces
<1>9. ASSUME NEW t \in Time, NEW target \in Ids, ReadTarget(p, i, t, target)
      PROVE  Places'
  BY <1>2, <1>9, LiveIsNoTime, BecomesPlaces DEF ReadTarget, Idle
<1>10. ASSUME NEW t \in Time, CheckRevivable(p, i, t) PROVE FALSE
  BY <1>10 DEF CheckRevivable, Start, UsersTurn
<1> QED
  BY <1>4, <1>5, <1>6, <1>7, <1>8, <1>9, <1>10

\* The process goes on to a step that needs no directory of its own.
LEMMA GotoPlaces ==
    ASSUME UsersTurn, TypeOK, NEW p \in Procs, ~Running, UNCHANGED xp, EntryHasDir',
           Exit(p) \/ \E pc \in {"retire", "wipe", "forget", "unlink"} : Goto(p, pc)
    PROVE  Places'
<1>0. tool[p] \in Process
  BY DEF TypeOK, ToolTypeOK
<1>1. CASE Exit(p)
  BY <1>1, BecomesPlaces DEF Exit, Idle
<1>2. ASSUME NEW pc \in {"retire", "wipe", "forget", "unlink"}, Goto(p, pc)
      PROVE  Places'
  <2> DEFINE r == [tool[p] EXCEPT !.pc = pc]
  <2>1. r.pc = pc /\ Become(p, r)
    BY <1>0, <1>2 DEF Process, Goto
  <2> HIDE DEF r
  <2> QED
    BY <2>1, BecomesPlaces
<1> QED
  BY <1>1, <1>2

LEMMA MakeDirPlaces ==
    ASSUME UsersTurn, TypeOK, Places, NEW p \in Procs, NEW s \in Spaces,
           MakeDir(p, s), UNCHANGED xp
    PROVE  Places'
<1> DEFINE i == tool[p].id
           r == [tool[p] EXCEPT !.pc = "create",
                    !.ent = [space |-> s, exp |-> 0, ext |-> MaxExt, rel |-> Live]]
<1>1. tool[p] \in Process /\ tool[p].pc = "mkdir"
  BY DEF TypeOK, ToolTypeOK, MakeDir, At
<1>2. r.pc = "create" /\ r.ent.space = s /\ r.id = i
  BY <1>1 DEF Process
<1>3. Become(p, r) /\ UNCHANGED <<entry, open>> /\ dirs' = dirs \cup {<<s, i, Live>>}
  BY DEF MakeDir
<1>4. EntryHasDir'
  BY <1>3, HasDirKept, SameKeeps DEF KeepsDirs, Places
<1>5. ~Running
  BY <1>1, ExpirerRests
<1> HIDE DEF i, r
<1> QED
  BY <1>2, <1>3, <1>4, <1>5, BecomesPlaces

\* Opening an entry for writing leaves it without a path.
LEMMA OpenKeeps ==
    ASSUME TypeOK, EntryHasDir, NEW p \in Procs, NEW i \in Ids,
           OpenEntry(p, <<i, Live>>), UNCHANGED dirs
    PROVE  EntryHasDir'
<1>1. \A j \in Ids : <<j, Live>> \in Key
  BY LiveLabel, KeyInKey
<1>2. KeepsLive
  BY <1>1 DEF KeepsLive, OpenEntry, TypeOK, StoreTypeOK
<1> QED
  BY <1>2, SameDirsKeep, HasDirKept

\* The steps that open the entry and keep its path.
LEMMA OpenPlaces ==
    ASSUME UsersTurn, TypeOK, Places, NEW p \in Procs, UNCHANGED xp,
           \/ \E duration \in Durations : CreateEntry(p, duration)
           \/ \E duration \in Durations : UseExtension(p, duration)
           \/ MarkReleased(p)
    PROVE  Places'
<1> DEFINE i == tool[p].id
           e == tool[p].ent
<1>1. tool[p].pc \in {"create", "extend", "mark"} /\ UNCHANGED dirs
  BY DEF CreateEntry, UseExtension, MarkReleased, At
<1>2. tool[p] \in Process /\ i \in Ids /\ e \in Entry /\ ~Running
      /\ <<e.space, i, Live>> \in dirs'
  BY <1>1, ExpirerRests DEF TypeOK, ToolTypeOK, WellFormed, Places, ToolPlaces
<1>3. ASSUME NEW r, Become(p, r), r.pc = "write", r.id = i, r.ent.space = e.space,
             OpenEntry(p, <<i, Live>>)
      PROVE  Places'
  BY <1>1, <1>2, <1>3, OpenKeeps, BecomesPlaces DEF Places
<1>4. ASSUME NEW duration \in Durations, CreateEntry(p, duration) PROVE Places'
  <2> DEFINE r == [tool[p] EXCEPT !.pc = "write", !.ent.exp = now + duration]
  <2>1. r.pc = "write" /\ r.id = i /\ r.ent.space = e.space
    BY <1>2 DEF Process, Entry
  <2>2. Become(p, r) /\ OpenEntry(p, <<i, Live>>)
    BY <1>4 DEF CreateEntry
  <2> HIDE DEF i, e, r
  <2> QED
    BY <1>3, <2>1, <2>2
<1>5. ASSUME NEW duration \in Durations, UseExtension(p, duration) PROVE Places'
  <2> DEFINE c == Cost(e, duration)
             r == [tool[p] EXCEPT !.pc = "write", !.ent.exp = Prolonged(e, duration),
                      !.ent.ext = e.ext - c]
  <2>1. CASE Exit(p) /\ UNCHANGED <<entry, open>>
    BY <1>1, <1>2, <2>1, SameKeeps, SameDirsKeep, HasDirKept, GotoPlaces DEF Places
  <2>2. CASE OpenEntry(p, <<i, Live>>) /\ Become(p, r)
    <3>1. r.pc = "write" /\ r.id = i /\ r.ent.space = e.space
      BY <1>2 DEF Process, Entry
    <3> HIDE DEF i, e, r
    <3> QED
      BY <1>3, <2>2, <3>1
  <2> QED
    BY <1>5, <2>1, <2>2 DEF UseExtension
<1>6. CASE MarkReleased(p)
  <2> DEFINE r == [tool[p] EXCEPT !.pc = "write", !.ent.exp = now, !.ent.rel = now]
  <2>1. r.pc = "write" /\ r.id = i /\ r.ent.space = e.space
    BY <1>2 DEF Process, Entry
  <2>2. Become(p, r) /\ OpenEntry(p, <<i, Live>>)
    BY <1>6 DEF MarkReleased
  <2> HIDE DEF i, e, r
  <2> QED
    BY <1>3, <2>1, <2>2
<1> QED
  BY <1>4, <1>5, <1>6

\* What is written is the path of a directory that is there.
LEMMA FinishWritePlaces ==
    ASSUME UsersTurn, TypeOK, Budget, Places, NEW p \in Procs, FinishWrite(p),
           UNCHANGED xp
    PROVE  Places'
<1>1. tool[p].pc = "write" /\ WriteEntry(p, tool[p].ent) /\ UNCHANGED dirs
      /\ (Exit(p) \/ Goto(p, "retire"))
  BY DEF FinishWrite, At
<1>2. /\ <<tool[p].ent.space, tool[p].id, Live>> \in dirs
      /\ open[p] # None => open[p][1] = tool[p].id
      /\ entry \in [Key -> Entry \cup {Empty, None}]
  BY <1>1 DEF Places, ToolPlaces, Budget, ToolBudget, TypeOK, StoreTypeOK
<1>3. ASSUME NEW j \in Ids, Readable(<<j, Live>>)'
      PROVE  (<<entry[<<j, Live>>].space, j, Live>> \in dirs)'
  <2>0. <<j, Live>> \in Key /\ <<j, Live>> # None
    BY LiveLabel, KeyInKey
  <2>1. CASE open[p] = <<j, Live>>
    <3>1. entry'[<<j, Live>>] = tool[p].ent /\ tool[p].id = j
      BY <1>1, <1>2, <2>0, <2>1 DEF WriteEntry
    <3> QED
      BY <1>1, <1>2, <3>1
  <2>2. CASE open[p] # <<j, Live>>
    <3>1. entry'[<<j, Live>>] = entry[<<j, Live>>]
      BY <1>1, <1>2, <2>0, <2>2 DEF WriteEntry
    <3> QED
      BY <1>1, <1>3, <3>1 DEF Places, EntryHasDir, Readable
  <2> QED
    BY <2>1, <2>2
<1>4. EntryHasDir'
  BY <1>3 DEF EntryHasDir
<1>5. ~Running
  BY <1>1, ExpirerRests
<1> QED
  BY <1>1, <1>4, <1>5, GotoPlaces

\* The entry is moved to its removed name before the directory is.
LEMMA RetireEntryPlaces ==
    ASSUME UsersTurn, TypeOK, Places, NEW p \in Procs, RetireEntry(p), UNCHANGED xp
    PROVE  Places'
<1> DEFINE i == tool[p].id
           t == tool[p].ts
           r == [tool[p] EXCEPT !.pc = "movedir"]
<1>1. tool[p] \in Process /\ tool[p].pc = "retire" /\ i \in Ids /\ t \in Time
      /\ EntryTypeOK /\ UNCHANGED dirs
  BY StoreTypes DEF RetireEntry, At, TypeOK, ToolTypeOK, WellFormed
<1>2. ~Running /\ t # Live /\ t \in Label /\ KeepsDirs
  BY <1>1, ExpirerRests, LiveIsNoTime, LiveLabel, SameDirsKeep
<1>3. CASE Exit(p) /\ UNCHANGED <<entry, open>>
  BY <1>2, <1>3, SameKeeps, HasDirKept, GotoPlaces DEF Places
<1>4. CASE Goto(p, "movedir") /\ RenameEntry(<<i, Live>>, <<i, t>>)
  <2>1. EntryHasDir'
    BY <1>1, <1>2, <1>4, LiveLabel, RenameKeeps, HasDirKept DEF Places
  <2>2. entry'[<<i, Live>>] = None
    <3>1. <<i, Live>> \in Key
      BY <1>1, LiveLabel, KeyInKey
    <3> QED
      BY <1>1, <1>4, <3>1 DEF RenameEntry, EntryTypeOK
  <2>3. r.pc = "movedir" /\ r.id = i /\ Become(p, r)
    BY <1>1, <1>4 DEF Goto, Process
  <2> HIDE DEF i, t, r
  <2> QED
    BY <1>2, <2>1, <2>2, <2>3, BecomesPlaces
<1> QED
  BY <1>3, <1>4 DEF RetireEntry

\* The rest of the steps of a tool.
LEMMA OtherStepPlaces ==
    ASSUME UsersTurn, TypeOK, Budget, Places, NEW p \in Procs, UNCHANGED xp,
           \/ RetireDir(p) \/ ForgetEntry(p) \/ ReadSource(p) \/ Refill(p)
           \/ UnlinkSource(p) \/ ReviveEntry(p) \/ PutBack(p)
    PROVE  Places'
<1> DEFINE i == tool[p].id
           t == tool[p].ts
           s == tool[p].ent.space
<1>0. EntryTypeOK /\ tool[p] \in Process /\ t \in Label
      /\ (tool[p].pc # "idle" => ~Running) /\ EntryHasDir /\ ToolPlaces(p)
  BY StoreTypes, ExpirerRests DEF TypeOK, ToolTypeOK, Process, Places
<1>1. CASE RetireDir(p)
  <2>1. tool[p].pc = "movedir" /\ UNCHANGED <<entry, open>>
        /\ (Exit(p) \/ Goto(p, "wipe")) /\ ~Running
        /\ (UNCHANGED dirs \/ MoveDir(<<s, i, Live>>, <<s, i, t>>))
    BY <1>0, <1>1 DEF RetireDir, At
  <2>2. ~Exists(<<i, Live>>)
    BY <1>0, <2>1 DEF ToolPlaces
  <2>3. EntryHasDir'
    BY <1>0, <2>1, <2>2, VacatedKept, SameKeeps, SameDirsKeep, HasDirKept
  <2> QED
    BY <2>1, <2>3, GotoPlaces
<1>2. CASE ForgetEntry(p) \/ UnlinkSource(p)
  <2>1. tool[p].pc \in {"forget", "unlink"} /\ i \in Ids /\ UnlinkEntry(<<i, t>>)
        /\ UNCHANGED dirs /\ Exit(p)
    BY <1>2 DEF ForgetEntry, UnlinkSource, At, TypeOK, ToolTypeOK, WellFormed
  <2>2. EntryHasDir'
    BY <1>0, <2>1, KeyInKey, UnlinkKeeps, SameDirsKeep, HasDirKept
  <2> QED
    BY <1>0, <2>1, <2>2, GotoPlaces
<1>3. CASE ReadSource(p)
  <2>1. tool[p].pc = "lookup" /\ UNCHANGED <<entry, open, dirs>>
    BY <1>3 DEF ReadSource, At, storeVars
  <2>2. EntryHasDir' /\ t # Live
    BY <1>0, <2>1, SameKeeps, SameDirsKeep, HasDirKept DEF ToolPlaces
  <2>3. ASSUME NEW e, Become(p, [tool[p] EXCEPT !.pc = "refill", !.ent = e])
        PROVE  Places'
    <3> DEFINE r == [tool[p] EXCEPT !.pc = "refill", !.ent = e]
    <3>1. r.pc = "refill" /\ r.ts = t /\ Become(p, r)
      BY <1>0, <2>3 DEF Process
    <3> HIDE DEF r, t
    <3> QED
      BY <1>0, <2>1, <2>2, <3>1, BecomesPlaces
  <2>4. Exit(p) \/ \E e : Become(p, [tool[p] EXCEPT !.pc = "refill", !.ent = e])
    BY <1>3 DEF ReadSource
  <2> QED
    BY <1>0, <2>1, <2>2, <2>3, <2>4, GotoPlaces
<1>4. CASE Refill(p)
  <2>1. tool[p].pc = "refill" /\ UNCHANGED <<entry, open>>
        /\ (Exit(p) \/ Goto(p, "unlink"))
        /\ (UNCHANGED dirs \/ MoveDir(<<s, i, t>>, tool[p].to))
    BY <1>4 DEF Refill, At
  <2>2. KeepsDirs
    BY <1>0, <2>1, MoveKeeps, SameDirsKeep DEF ToolPlaces
  <2>3. EntryHasDir'
    BY <1>0, <2>1, <2>2, SameKeeps, HasDirKept
  <2> QED
    BY <1>0, <2>1, <2>3, GotoPlaces
<1>5. ~ReviveEntry(p) /\ ~PutBack(p)
  BY DEF ReviveEntry, PutBack, At, Budget, ToolBudget
<1> QED
  BY <1>1, <1>2, <1>3, <1>4, <1>5

\* The removed directory is deleted, not the live one.
LEMMA WipePlaces ==
    ASSUME UsersTurn, TypeOK, Places, NEW p \in Procs, NEW rest \in SUBSET Data,
           WipeData(p, rest), UNCHANGED xp
    PROVE  Places'
<1>1. tool[p].pc = "wipe" /\ UNCHANGED <<entry, open>>
      /\ RemoveTree(<<tool[p].ent.space, tool[p].id, tool[p].ts>>, rest)
      /\ (UNCHANGED tool \/ Goto(p, "forget"))
  BY DEF WipeData, At
<1>2. tool[p].ts # Live /\ ~Running
  BY <1>1, LiveIsNoTime, ExpirerRests DEF TypeOK, ToolTypeOK, WellFormed
<1>3. EntryHasDir'
  BY <1>1, <1>2, RemoveKeeps, SameKeeps, HasDirKept DEF Places
<1>4. CASE UNCHANGED tool
  <2>1. \A q \in Procs : q = p
    BY DEF UsersTurn
  <2>2. ToolPlaces(p)'
    BY <1>1, <1>4 DEF ToolPlaces
  <2>3. ExpirerPlaces'
    BY <1>2 DEF ExpirerPlaces, Running
  <2> QED
    BY <1>3, <2>1, <2>2, <2>3 DEF Places
<1>5. CASE Goto(p, "forget")
  BY <1>2, <1>3, <1>5, GotoPlaces
<1> QED
  BY <1>1, <1>4, <1>5

LEMMA ProceedPlaces ==
    ASSUME UsersTurn, TypeOK, Budget, Places, NEW p \in Procs, Proceed(p), UNCHANGED xp
    PROVE  Places'
BY MakeDirPlaces, OpenPlaces, FinishWritePlaces, RetireEntryPlaces, WipePlaces,
   OtherStepPlaces
DEF Proceed

LEMMA CrashPlaces ==
    ASSUME UsersTurn, TypeOK, Places, NEW p \in Procs, Crash(p), UNCHANGED xp
    PROVE  Places'
<1>1. UNCHANGED <<entry, dirs>> /\ Exit(p) /\ ~Running
  BY ExpirerRests DEF Crash, At
<1>2. EntryHasDir'
  BY <1>1 DEF Places, EntryHasDir, Readable
<1> QED
  BY <1>1, <1>2, GotoPlaces

LEMMA DiskFailPlaces ==
    ASSUME UsersTurn, TypeOK, Places, NEW p \in Procs, OpenFails(p) \/ WriteFails(p),
           UNCHANGED xp
    PROVE  Places'
<1>1. UNCHANGED <<entry, dirs>> /\ tool[p].pc \in {"create", "extend", "mark", "write"}
  BY DEF OpenFails, WriteFails, At, storeVars
<1>2. /\ ~Running
      /\ tool[p] \in Process
      /\ <<tool[p].ent.space, tool[p].id, Live>> \in dirs'
  BY <1>1, ExpirerRests DEF Places, ToolPlaces, TypeOK, ToolTypeOK
<1>3. EntryHasDir'
  BY <1>1 DEF Places, EntryHasDir, Readable
<1>4. CASE OpenFails(p)
  <2> DEFINE r == [tool[p] EXCEPT !.pc = "write"]
  <2>1. Become(p, r) /\ r.pc = "write" /\ r.ent = tool[p].ent /\ r.id = tool[p].id
    BY <1>2, <1>4 DEF OpenFails, Goto, Process
  <2> HIDE DEF r
  <2> QED
    BY <1>2, <1>3, <2>1, BecomesPlaces
<1>5. CASE WriteFails(p)
  <2>1. UNCHANGED tool
    BY <1>5 DEF WriteFails
  <2>2. ExpirerPlaces' /\ \A q \in Procs : ToolPlaces(q)'
    BY <1>1, <1>2, <2>1 DEF Places, ToolPlaces, Exists, ExpirerPlaces, Running
  <2> QED
    BY <1>3, <2>2 DEF Places
<1> QED
  BY <1>4, <1>5

-----------------------------------------------------------------------------
(* The steps of the expirer, while the process rests                       *)

LEMMA ToolRests ==
    ASSUME Places, Running, UNCHANGED tool
    PROVE  ToolsIdle' /\ \A p \in Procs : ToolPlaces(p)'
BY DEF Places, ExpirerPlaces, ToolsIdle, At, ToolPlaces

\* The steps that only read: the lists of the entries are made and kept.
LEMMA ListingPlaces ==
    ASSUME TypeOK, RunInv, Places, Running, UNCHANGED <<entry, dirs, tool>>,
           \/ \E s \in Spaces : ScanSpace(s) \/ ScanTrash(s)
           \/ ListEntries \/ ListRemovedEntries \/ ListLive \/ ListRemoved
           \/ FinishRun
           \/ \E k \in Key : CheckEntry(k) \/ VisitEntry(k) \/ VisitRemoved(k)
    PROVE  Places'
<1>0. xp \in Fields /\ EntryHasDir' /\ LiveKeys' = LiveKeys /\ ExpirerPlaces
  BY DEF TypeOK, ExpirerTypeOK, Fields, Places, EntryHasDir, Readable, LiveKeys, Exists
<1>1. ASSUME xp'.pc \notin {"check", "stray", "retire", "movedir"} PROVE ExpirerPlaces'
  BY <1>1, ToolRests DEF ExpirerPlaces
<1>2. ASSUME NEW s \in Spaces, ScanSpace(s) \/ ScanTrash(s) PROVE ExpirerPlaces'
  BY <1>0, <1>1, <1>2 DEF ScanSpace, ScanTrash, Fields
<1>3. ASSUME ListEntries PROVE ExpirerPlaces'
  <2>1. xp'.pc \in {"check", "stray"} /\ xp'.names = LiveKeys
    BY <1>0, <1>3 DEF ListEntries, Fields
  <2> QED
    BY <1>0, <2>1, ToolRests DEF ExpirerPlaces
<1>4. ASSUME ListRemovedEntries \/ ListLive \/ ListRemoved \/ FinishRun
      PROVE  ExpirerPlaces'
  <2>1. CASE ListRemovedEntries \/ ListRemoved
    BY <1>0, <1>1, <2>1 DEF ListRemovedEntries, ListRemoved, Fields
  <2>2. CASE ListLive \/ FinishRun
    <3>1. ListLive => xp'.pc = "expire"
      BY DEF ListLive, Resting
    <3>2. FinishRun => xp'.pc = "idle"
      BY DEF FinishRun, Abort, Resting
    <3> QED
      BY <1>1, <2>2, <3>1, <3>2
  <2> QED
    BY <1>4, <2>1, <2>2
<1>5. ASSUME NEW k \in Key, CheckEntry(k) PROVE ExpirerPlaces'
  <2>1. CASE Abort
    BY <1>1, <2>1 DEF Abort, Resting
  <2>2. CASE xp' = [xp EXCEPT !.todo = @ \ {k},
                       !.pc = IF xp.todo = {k} THEN "stray" ELSE "check"]
    <3>1. xp.pc = "check" /\ xp'.pc \in {"check", "stray"} /\ xp'.names = xp.names
      BY <1>0, <1>5, <2>2 DEF CheckEntry, Fields
    <3> QED
      BY <1>0, <3>1, ToolRests DEF ExpirerPlaces
  <2> QED
    BY <1>5, <2>1, <2>2 DEF CheckEntry
<1>6. ASSUME NEW k \in Key, VisitEntry(k) PROVE ExpirerPlaces'
  <2>1. xp.pc = "expire" /\ k \in xp.todo /\ k[2] = Live
    BY <1>6 DEF VisitEntry, RunInv, JobInv
  <2>2. xp'.pc = "expire" \/ (xp'.pc = "retire" /\ xp'.job.key = k)
    BY <1>0, <1>6 DEF VisitEntry, Fields
  <2> QED
    BY <1>1, <2>1, <2>2, ToolRests DEF ExpirerPlaces
<1>7. ASSUME NEW k \in Key, VisitRemoved(k) PROVE ExpirerPlaces'
  BY <1>0, <1>1, <1>7 DEF VisitRemoved, Fields
<1>8. ExpirerPlaces'
  BY <1>2, <1>3, <1>4, <1>5, <1>6, <1>7
<1> QED
  BY <1>0, <1>8, ToolRests DEF Places

\* The steps that move or delete a directory: one that has no entry, or a
\* removed one.
LEMMA DirPlaces ==
    ASSUME TypeOK, RunInv, Places, Running, UNCHANGED <<entry, tool>>,
           NEW path \in Path, NEW rest,
           VisitDir(path) \/ VisitTrash(path, rest) \/ ExpireDir \/ DeleteRemoved(rest)
    PROVE  Places'
<1>0. xp \in Fields /\ EntryHasDir /\ ExpirerPlaces /\ LiveKeys' = LiveKeys
      /\ path = <<path[1], path[2], path[3]>> /\ path[2] \in Ids /\ KeepsLive
  BY LiveLabel DEF TypeOK, ExpirerTypeOK, Fields, Places, LiveKeys, Exists, Path, KeepsLive
<1>1. CASE VisitDir(path)
  <2>1. xp.pc = "stray" /\ xp'.pc = "stray" /\ xp'.names = xp.names
    BY <1>0, <1>1 DEF VisitDir, Fields
  <2>2. ASSUME MoveDir(path, <<path[1], path[2], now>>),
               <<path[2], Live>> \notin xp.names
        PROVE  EntryHasDir'
    <3>1. ~Exists(<<path[2], Live>>)
      BY <1>0, <2>1, <2>2, LiveLabel, KeyInKey DEF ExpirerPlaces, LiveKeys
    <3>2. CASE path[3] = Live
      BY <1>0, <2>2, <3>1, <3>2, VacatedKept
    <3>3. CASE path[3] # Live
      BY <1>0, <2>2, <3>3, MoveKeeps, HasDirKept
    <3> QED
      BY <3>2, <3>3
  <2>3. ASSUME UNCHANGED dirs PROVE EntryHasDir'
    BY <1>0, <2>3, SameDirsKeep, HasDirKept
  <2>4. EntryHasDir'
    BY <1>1, <2>2, <2>3 DEF VisitDir
  <2>5. ExpirerPlaces'
    BY <1>0, <2>1, ToolRests DEF ExpirerPlaces
  <2> QED
    BY <2>4, <2>5, ToolRests DEF Places
<1>2. CASE VisitTrash(path, rest)
  <2>1. xp.pc = "trash" /\ xp'.pc = "trash" /\ path[3] # Live
    BY <1>0, <1>2 DEF VisitTrash, Fields, RunInv, ListInv
  <2>2. KeepsDirs
    BY <1>0, <1>2, <2>1, RemoveKeeps, SameDirsKeep DEF VisitTrash, DelDir
  <2>3. EntryHasDir' /\ ExpirerPlaces'
    BY <1>0, <2>1, <2>2, HasDirKept, ToolRests DEF ExpirerPlaces
  <2> QED
    BY <2>3, ToolRests DEF Places
<1>3. CASE ExpireDir
  <2>1. xp.pc = "movedir" /\ xp'.pc = "expire"
    BY <1>0, <1>3 DEF ExpireDir, Fields
  <2>2. xp.job.key = <<xp.job.key[1], Live>> /\ ~Exists(xp.job.key)
    BY <1>0, <2>1 DEF ExpirerPlaces, TypeOK, ExpirerTypeOK, Job, Key
  <2>3. EntryHasDir'
    BY <1>0, <1>3, <2>2, VacatedKept, SameDirsKeep, HasDirKept DEF ExpireDir
  <2>4. ExpirerPlaces'
    BY <2>1, ToolRests DEF ExpirerPlaces
  <2> QED
    BY <2>3, <2>4, ToolRests DEF Places
<1>4. CASE DeleteRemoved(rest)
  <2>1. xp.pc = "deldir" /\ xp'.pc = "reap" /\ xp.job.key[2] # Live
    BY <1>0, <1>4 DEF DeleteRemoved, Fields, RunInv, JobInv
  <2>2. KeepsDirs
    BY <1>4, <2>1, RemoveKeeps DEF DeleteRemoved, DelDir
  <2>3. EntryHasDir' /\ ExpirerPlaces'
    BY <1>0, <2>1, <2>2, HasDirKept, ToolRests DEF ExpirerPlaces
  <2> QED
    BY <2>3, ToolRests DEF Places
<1> QED
  BY <1>1, <1>2, <1>3, <1>4

\* The steps that rename or remove an entry leave no live one behind.
LEMMA EntryStepPlaces ==
    ASSUME TypeOK, RunInv, Places, Running, UNCHANGED <<dirs, tool>>,
           ExpireEntry \/ UnlinkRemoved
    PROVE  Places'
<1>0. xp \in Fields /\ ExpirerPlaces
  BY DEF TypeOK, ExpirerTypeOK, Fields, Places
<1>1. EntryHasDir'
  BY ContinueRunKeeps, SameDirsKeep, HasDirKept DEF Places, ContinueRun
<1>2. ExpirerPlaces'
  <2>1. CASE Abort
    BY <2>1 DEF Abort, Resting, ExpirerPlaces, Running
  <2>2. CASE xp' = [xp EXCEPT !.pc = "deldir"]
    BY <1>0, <2>2, ToolRests DEF ExpirerPlaces, Fields
  <2>3. CASE /\ ExpireEntry /\ xp' = [xp EXCEPT !.pc = "movedir"]
             /\ RenameEntry(xp.job.key, <<xp.job.key[1], xp.job.ts>>)
    <3>1. xp.pc = "retire" /\ xp'.pc = "movedir" /\ xp'.job = xp.job
      BY <1>0, <2>3 DEF ExpireEntry, Fields
    <3>2. xp.job.key \in Key /\ xp.job.key[2] = Live
      BY <1>0, <3>1 DEF ExpirerPlaces, TypeOK, ExpirerTypeOK, Job
    <3>3. ~Exists(xp.job.key)'
      BY <2>3, <3>1, <3>2 DEF RenameEntry, Exists, TypeOK, StoreTypeOK
    <3> QED
      BY <3>1, <3>2, <3>3, ToolRests DEF ExpirerPlaces
  <2> QED
    BY <2>1, <2>2, <2>3 DEF ExpireEntry, UnlinkRemoved
<1> QED
  BY <1>1, <1>2, ToolRests DEF Places

\* A step of the expirer is one of a run, and takes no time.
LEMMA RunStepRuns == ASSUME ContinueRun PROVE Running /\ UNCHANGED now
<1>1. Running
  BY Zenon
  DEF Running, ContinueRun, ScanSpace, ScanTrash, ListEntries, CheckEntry,
      VisitEntry, VisitRemoved, VisitDir, ListRemovedEntries, VisitTrash,
      ListLive, ExpireEntry, ExpireDir, ListRemoved, UnlinkRemoved,
      DeleteRemoved, FinishRun
<1>2. UNCHANGED now
  BY DEF ContinueRun, ScanSpace, ScanTrash, ListEntries, CheckEntry,
         VisitEntry, VisitRemoved, VisitDir, ListRemovedEntries, VisitTrash,
         ListLive, ExpireEntry, ExpireDir, ListRemoved, UnlinkRemoved,
         DeleteRemoved, FinishRun, storeVars
<1> QED
  BY <1>1, <1>2

LEMMA RunStepPlaces ==
    ASSUME TypeOK, RunInv, Places, ContinueRun, UNCHANGED tool
    PROVE  Places'
<1>1. Running
  BY RunStepRuns
<1>2. CASE ExpireEntry \/ UnlinkRemoved
  BY <1>1, <1>2, EntryStepPlaces DEF ExpireEntry, UnlinkRemoved
<1>3. ASSUME NEW path \in Path, NEW rest,
             VisitDir(path) \/ VisitTrash(path, rest) \/ ExpireDir \/ DeleteRemoved(rest)
      PROVE  Places'
  <2>1. UNCHANGED entry
    BY <1>3 DEF VisitDir, VisitTrash, ExpireDir, DeleteRemoved
  <2> QED
    BY <1>1, <1>3, <2>1, DirPlaces, Zenon
<1>4. ASSUME \/ \E s \in Spaces : ScanSpace(s) \/ ScanTrash(s)
             \/ ListEntries \/ ListRemovedEntries \/ ListLive \/ ListRemoved
             \/ FinishRun
             \/ \E k \in Key : CheckEntry(k) \/ VisitEntry(k) \/ VisitRemoved(k)
      PROVE  Places'
  <2>1. UNCHANGED <<entry, dirs>>
    BY <1>4 DEF ScanSpace, ScanTrash, ListEntries, CheckEntry, VisitEntry,
                VisitRemoved, ListRemovedEntries, ListLive, ListRemoved,
                FinishRun, storeVars
  <2> QED
    BY <1>1, <1>4, <2>1, ListingPlaces
<1>5. ASSUME NEW rest, ExpireDir \/ DeleteRemoved(rest) PROVE \E path \in Path : TRUE
  <2>1. <<xp.job.ent.space, xp.job.key[1], Live>> \in Path
    BY <1>5, LiveLabel DEF ExpireDir, DeleteRemoved, TypeOK, ExpirerTypeOK, Job,
                           Key, Entry, Path
  <2> QED
    BY <2>1
<1> QED
  BY <1>2, <1>3, <1>4, <1>5 DEF ContinueRun

-----------------------------------------------------------------------------
(* The theorem                                                             *)

LEMMA PlacesKept ==
    ASSUME UsersTurn, Quiet, TypeOK, RunInv, Budget, Places, Next
    PROVE  Places'
<1>1. CASE ClockTicks \/ JobStep
  BY <1>1 DEF ClockTicks, Tick, JobStep, JobWrites, toolVars, Places, EntryHasDir,
              Readable, ToolPlaces, Exists, ExpirerPlaces, Running, ToolsIdle, At,
              LiveKeys
<1>2. CASE ToolStarts
  BY <1>2, LaunchPlaces DEF ToolStarts
<1>3. ASSUME NEW p \in Procs, ToolStep(p) PROVE Places'
  BY <1>3, ProceedPlaces DEF ToolStep
<1>4. CASE ToolCrashes
  BY <1>4, CrashPlaces DEF ToolCrashes
<1>5. CASE RunStarts
  <2>1. ToolsIdle /\ UNCHANGED <<entry, dirs, tool>> /\ xp'.pc = "scan"
    BY <1>5 DEF RunStarts, StartRun, Resting, storeVars, toolVars
  <2> QED
    BY <2>1 DEF Places, EntryHasDir, Readable, ToolPlaces, Exists, ExpirerPlaces,
                ToolsIdle, At
<1>6. CASE RunStep
  BY <1>6, RunStepPlaces DEF RunStep, toolVars
<1>7. CASE RunCrashes
  BY <1>7 DEF RunCrashes, Abort, Resting, storeVars, Places, EntryHasDir, Readable,
              ToolPlaces, Exists, ExpirerPlaces, Running
<1>8. CASE DiskFails
  BY <1>8, DiskFailPlaces DEF DiskFails
<1> QED
  BY <1>1, <1>2, <1>3, <1>4, <1>5, <1>6, <1>7, <1>8 DEF Next

LEMMA PlacesInductive == ASSUME UsersTurn, Quiet PROVE Spec => []Places
<1>1. Init => Places
  <2> SUFFICES ASSUME Init PROVE Places
    OBVIOUS
  <2>1. /\ \A i \in Ids : entry[<<i, Live>>] = None
        /\ \A p \in Procs : tool[p] = Idle
        /\ xp = Resting
    BY LiveLabel, KeyInKey DEF Init, StoreInit, ToolInit, ExpirerInit
  <2> QED
    BY <2>1 DEF Places, EntryHasDir, Readable, ToolPlaces, Idle, ExpirerPlaces,
                Running, Resting
<1>2. ASSUME IInv, Budget, Places, [Next]_vars PROVE Places'
  <2>1. CASE UNCHANGED vars
    BY <1>2, <2>1
    DEF vars, storeVars, toolVars, Places, EntryHasDir, Readable, ToolPlaces,
        Exists, ExpirerPlaces, Running, ToolsIdle, At, LiveKeys
  <2> QED
    BY <1>2, <2>1, PlacesKept DEF IInv
<1>3. IInv /\ Budget /\ Places /\ [Next]_vars => Places'
  BY <1>2
<1> QED
  BY <1>1, <1>3, Inductive, BudgetInductive, PTL DEF Spec

\* Where one user's tool runs at a time, the expirer runs between them and the
\* administrator revives nothing, a live entry names a directory that exists:
\* the order of the steps of ws_allocate, ws_release and ws_expirer gives it,
\* and it survives that any of them is killed.
THEOREM LiveEntryHasDir == ASSUME UsersTurn, Quiet PROVE Spec => []EntryHasDir
<1>1. Places => EntryHasDir
  BY DEF Places
<1> QED
  BY <1>1, PlacesInductive, PTL

-----------------------------------------------------------------------------
(* What is recorded of the data, as long as no process has been killed     *)

\* The paths that have data.
Full == {x \in Path : \E d \in Data : where[d] = x}

\* The entry k can be read and says that its directory is in space s.
Names(k, s) == Readable(k) /\ entry[k].space = s

\* A tool or the expirer is between its steps on the entry and on the
\* directory of workspace i.
AtWork(s, i) ==
    \/ \E p \in Procs : /\ tool[p].pc \in {"create", "write", "movedir"}
                        /\ tool[p].id = i /\ tool[p].ent.space = s
    \/ xp.pc = "movedir" /\ xp.job.key[1] = i /\ xp.job.ent.space = s

\* The data under the removed name k may be deleted.
Lawful(k) == now > k[2] + KeepTime \/ k \in clobbered \cup waived \cup reaped

\* Every live directory is the one its entry names.
DirsOwned == \A s \in Spaces, i \in Ids : <<s, i, Live>> \in dirs =>
                Names(<<i, Live>>, s) \/ AtWork(s, i)

\* Removed data have a removed entry that names their directory.
DataOwned == \A s \in Spaces, i \in Ids, l \in Label : <<s, i, l>> \in Full =>
                l = Live \/ Names(<<i, l>>, s) \/ Lawful(<<i, l>>)

\* Data were removed in the past, and a workspace expires no sooner than the
\* last removal of its name that left data.
LabelsPast == \A s \in Spaces, i \in Ids, l \in Label : <<s, i, l>> \in Full =>
                l <= now /\ (Readable(<<i, Live>>) => l <= entry[<<i, Live>>].exp)

\* What the copy a tool has of an entry still says of the stores.
ToolRecords(p) ==
    /\ tool[p].pc \in {"mkdir", "create"} => ~Exists(<<tool[p].id, Live>>)
    /\ tool[p].pc \in {"mkdir", "create", "extend", "mark", "write", "retire", "movedir"} =>
          tool[p].ts <= now
    /\ tool[p].pc = "write" => /\ open[p] = <<tool[p].id, Live>>
                               /\ ~Readable(<<tool[p].id, Live>>)
    /\ tool[p].pc \in {"extend", "mark", "retire"} =>
          Names(<<tool[p].id, Live>>, tool[p].ent.space)
    /\ tool[p].pc \in {"extend", "write"} =>
          \A s \in Spaces, l \in Label :
             <<s, tool[p].id, l>> \in Full => l <= tool[p].ent.exp
    /\ tool[p].pc \in {"movedir", "refill", "unlink"} =>
          Names(<<tool[p].id, tool[p].ts>>, tool[p].ent.space)
    /\ tool[p].pc \in {"lookup", "refill"} => tool[p].to[3] = Live
    /\ tool[p].pc = "unlink" =>
          tool[p].ts # Live /\ <<tool[p].ent.space, tool[p].id, tool[p].ts>> \notin Full
    /\ tool[p].pc = "forget" => <<tool[p].id, tool[p].ts>> \in waived

\* What the lists and the job of the expirer still say of them.
ExpirerRecords ==
    /\ xp.pc \in {"scan", "check", "stray"} => \A x \in xp.paths : x[3] = Live
    /\ xp.pc = "trash" => RemovedKeys \subseteq xp.names
    /\ xp.pc = "retire" => Names(xp.job.key, xp.job.ent.space)
    /\ xp.pc = "movedir" => Names(<<xp.job.key[1], xp.job.ts>>, xp.job.ent.space)
    /\ xp.pc \in {"retire", "movedir"} =>
          /\ xp.job.ts <= now
          /\ \A s \in Spaces, l \in Label :
                <<s, xp.job.key[1], l>> \in Full => l < xp.job.ts
    /\ xp.pc = "deldir" => Lawful(xp.job.key)

Records == /\ DirsOwned /\ DataOwned /\ LabelsPast
           /\ \A p \in Procs : ToolRecords(p)
           /\ ExpirerRecords

\* A tool that is killed may leave a directory without an entry: its data are
\* not restorable.
RecordsHold == faults = 0 => Records

-----------------------------------------------------------------------------
(* What the steps leave alone                                              *)

\* Time does not run backwards, and what may be deleted stays so.
Onward == /\ now \in Nat /\ now' \in Nat /\ now <= now'
          /\ \A k \in Key : Lawful(k) => Lawful(k)'

\* The removed entries stay, and no data come to a removed directory.
KeepsRemoved == \A i \in Ids, l \in Label \ {Live} : entry'[<<i, l>>] = entry[<<i, l>>]
KeepsData == \A s \in Spaces, i \in Ids, l \in Label :
                <<s, i, l>> \in Full' => l = Live \/ <<s, i, l>> \in Full

LEMMA Paths == /\ \A s \in Spaces, i \in Ids, l \in Label : <<s, i, l>> \in Path
               /\ \A k \in Key : k = <<k[1], k[2]>> /\ k[1] \in Ids /\ k[2] \in Label
BY DEF Path, Key

LEMMA NextOnward ==
    ASSUME TypeOK, Next PROVE Onward
<1>1. now \in Nat /\ now' \in Nat /\ now <= now'
  BY TimeMonotone
<1>2. clobbered \cup waived \cup reaped \subseteq (clobbered \cup waived \cup reaped)'
  BY DEF Next, Observe
<1>3. ASSUME NEW k \in Key, Lawful(k) PROVE Lawful(k)'
  <2>1. k[2] + KeepTime \in Nat
    BY Paths, LiveLabel
  <2> QED
    BY <1>1, <1>2, <1>3, <2>1 DEF Lawful
<1> QED
  BY <1>1, <1>3 DEF Onward

LEMMA SameData == ASSUME UNCHANGED where PROVE Full' = Full /\ KeepsData
BY DEF Full, KeepsData

LEMMA MovedData ==
    ASSUME NEW from \in Path, NEW to \in Path, from # to, MoveDir(from, to)
    PROVE  /\ Full' \subseteq (Full \ {from}) \cup {to}
           /\ from \notin Full => Full' \subseteq Full
<1>1. ASSUME NEW x \in Full', x # to PROVE x \in Full \ {from}
  BY <1>1 DEF Full, MoveDir
<1>2. ASSUME from \notin Full PROVE Full' \subseteq Full
  BY <1>2 DEF Full, MoveDir
<1> QED
  BY <1>1, <1>2

LEMMA RemovedData ==
    ASSUME NEW path, NEW rest, RemoveTree(path, rest), TypeOK
    PROVE  Full' \subseteq Full /\ KeepsData
<1>1. ASSUME NEW x \in Full' PROVE x \in Full
  <2>1. PICK d \in Data : where'[d] = x
    BY <1>1 DEF Full
  <2>2. x \in Path /\ x # Gone
    BY <1>1 DEF Full
  <2>3. where[d] = x
    BY <2>1, <2>2 DEF RemoveTree
  <2> QED
    BY <2>2, <2>3 DEF Full
<1> QED
  BY <1>1 DEF KeepsData

\* The steps that leave the removed ones alone.
LEMMA DataOwnedKept ==
    ASSUME Onward, KeepsRemoved, KeepsData, DataOwned PROVE DataOwned'
<1> SUFFICES ASSUME NEW s \in Spaces, NEW i \in Ids, NEW l \in Label,
                    <<s, i, l>> \in Full', l # Live
             PROVE  Names(<<i, l>>, s)' \/ Lawful(<<i, l>>)'
  BY DEF DataOwned
<1>1. <<s, i, l>> \in Full /\ entry'[<<i, l>>] = entry[<<i, l>>] /\ <<i, l>> \in Key
  BY KeyInKey DEF KeepsData, KeepsRemoved
<1>2. Names(<<i, l>>, s) \/ Lawful(<<i, l>>)
  BY <1>1 DEF DataOwned
<1> QED
  BY <1>1, <1>2 DEF Onward, Names, Readable

LEMMA LabelsPastKept ==
    ASSUME Onward, KeepsLive, KeepsData, LabelsPast PROVE LabelsPast'
<1> SUFFICES ASSUME NEW s \in Spaces, NEW i \in Ids, NEW l \in Label,
                    <<s, i, l>> \in Full'
             PROVE  l <= now' /\ (Readable(<<i, Live>>)' => l <= entry'[<<i, Live>>].exp)
  BY DEF LabelsPast
<1>1. Readable(<<i, Live>>)' => Readable(<<i, Live>>)
                                /\ entry'[<<i, Live>>] = entry[<<i, Live>>]
  BY DEF KeepsLive, Readable
<1>2. CASE <<s, i, l>> \in Full
  <2>1. l <= now /\ (Readable(<<i, Live>>) => l <= entry[<<i, Live>>].exp)
    BY <1>2 DEF LabelsPast
  <2>2. l \in Nat
    BY LiveLabel
  <2> QED
    BY <1>1, <2>1, <2>2 DEF Onward
<1>3. CASE l = Live
  <2>1. Readable(<<i, Live>>) => entry[<<i, Live>>].exp \in Nat
    BY DEF Readable, Entry
  <2> QED
    BY <1>1, <1>3, <2>1 DEF Onward, Live
<1> QED
  BY <1>2, <1>3 DEF KeepsData

LEMMA DirsOwnedKept ==
    ASSUME DirsOwned, \A i \in Ids : entry'[<<i, Live>>] = entry[<<i, Live>>],
           \A s \in Spaces, i \in Ids : <<s, i, Live>> \in dirs' => <<s, i, Live>> \in dirs,
           \A s \in Spaces, i \in Ids : AtWork(s, i) => AtWork(s, i)'
    PROVE  DirsOwned'
BY DEF DirsOwned, Names, Readable

-----------------------------------------------------------------------------
(* The steps of the only process                                           *)

\* A step of the only process, while the expirer rests.
AloneStep == /\ UsersTurn /\ TypeOK /\ Budget /\ Places /\ Records
             /\ ~Running /\ UNCHANGED xp /\ Onward /\ Observe

LEMMA AloneKnows ==
    ASSUME AloneStep, NEW p \in Procs
    PROVE  /\ tool[p] \in Process /\ WellFormed(tool[p]) /\ EntryTypeOK
           /\ \A q \in Procs : q = p
           /\ \A s, i : AtWork(s, i) <=> /\ tool[p].pc \in {"create", "write", "movedir"}
                                         /\ tool[p].id = i /\ tool[p].ent.space = s
           /\ \A s, i : AtWork(s, i)' <=> /\ tool'[p].pc \in {"create", "write", "movedir"}
                                          /\ tool'[p].id = i /\ tool'[p].ent.space = s
           /\ ToolRecords(p) /\ ToolPlaces(p) /\ DirsOwned /\ DataOwned /\ LabelsPast
           /\ Onward
<1>1. xp.pc = "idle" /\ xp'.pc = "idle"
  BY DEF AloneStep, Running
<1> QED
  BY <1>1, StoreTypes
  DEF AloneStep, TypeOK, ToolTypeOK, UsersTurn, Records, Places, AtWork

\* It suffices to look at the process and the stores.
LEMMA AloneRecords ==
    ASSUME AloneStep, NEW p \in Procs, DirsOwned', DataOwned', LabelsPast',
           ToolRecords(p)'
    PROVE  Records'
<1>1. xp'.pc = "idle"
  BY DEF AloneStep, Running
<1>2. ExpirerRecords'
  BY <1>1 DEF ExpirerRecords
<1> QED
  BY <1>2, AloneKnows DEF Records

\* The tool ends.
LEMMA ExitRecords == ASSUME TypeOK, NEW p \in Procs, Exit(p)
                     PROVE  ToolRecords(p)' /\ tool'[p].pc = "idle"
<1>1. tool'[p] = Idle
  BY DEF Exit, Become, TypeOK, ToolTypeOK
<1> QED
  BY <1>1 DEF ToolRecords, Idle

\* A tool is started: it reads, and the stores stay as they are.
LEMMA LaunchRecords ==
    ASSUME AloneStep, NEW p \in Procs, Launch(p) PROVE Records'
<1> DEFINE r == tool'[p]
<1>0. tool \in [Procs -> Process]
  BY DEF AloneStep, TypeOK, ToolTypeOK
<1>1. UNCHANGED storeVars /\ tool[p].pc = "idle"
  BY DEF Launch, Reuse, Allocate, ReadForExtend, ReadForRelease, ReadTarget,
         CheckRevivable, Start, At
<1>2. UNCHANGED <<now, entry, dirs, where>>
  BY <1>1 DEF storeVars
<1>3. \A s, i : ~AtWork(s, i)
  BY <1>1, AloneKnows
<1>4. KeepsLive /\ KeepsRemoved /\ KeepsData /\ Full' = Full
  BY <1>2, SameData DEF KeepsLive, KeepsRemoved
<1>5. DirsOwned' /\ DataOwned' /\ LabelsPast'
  BY <1>2, <1>3, <1>4, AloneKnows, DirsOwnedKept, DataOwnedKept, LabelsPastKept
<1>6. PICK i \in Ids :
         \/ Reuse(p, i)
         \/ Allocate(p, i)
         \/ ReadForExtend(p, i)
         \/ \E op \in {"release", "wipe"} : ReadForRelease(p, i, op)
         \/ \E t \in Time : \/ \E target \in Ids : ReadTarget(p, i, t, target)
                            \/ CheckRevivable(p, i, t)
  BY DEF Launch
<1>14. Live <= now'
  BY AloneKnows DEF Onward, Live
<1>7. ASSUME Reuse(p, i) PROVE ToolRecords(p)'
  <2>1. r.pc = "idle"
    BY <1>1, <1>7 DEF Reuse
  <2> QED
    BY <2>1 DEF ToolRecords
<1>8. ASSUME Allocate(p, i) PROVE ToolRecords(p)'
  <2>1. r.pc = "mkdir" /\ r.id = i /\ r.ts = Live
    BY <1>0, <1>8 DEF Allocate, Become, Idle
  <2>2. ~Exists(<<i, Live>>)'
    BY <1>2, <1>8 DEF Allocate, Exists
  <2> QED
    BY <1>14, <2>1, <2>2 DEF ToolRecords
<1>9. ASSUME ReadForExtend(p, i) PROVE ToolRecords(p)'
  <2>1. entry[<<i, Live>>] \in Entry
    BY <1>9 DEF ReadForExtend, Readable
  <2>2. r.pc = "extend" /\ r.id = i /\ r.ts = Live
        /\ r.ent.space = entry[<<i, Live>>].space /\ r.ent.exp = entry[<<i, Live>>].exp
    BY <1>0, <1>9, <2>1 DEF ReadForExtend, Become, Idle, Entry
  <2>3. \A s \in Spaces, l \in Label : <<s, i, l>> \in Full => l <= r.ent.exp
    BY <2>1, <2>2, AloneKnows DEF LabelsPast, Readable
  <2>4. Names(<<i, Live>>, tool[p].ent.space)'
    BY <1>2, <2>1, <2>2 DEF Names, Readable
  <2> QED
    BY <1>14, <1>4, <2>2, <2>3, <2>4 DEF ToolRecords
<1>10. ASSUME NEW op \in {"release", "wipe"}, ReadForRelease(p, i, op)
       PROVE  ToolRecords(p)'
  <2>1. entry[<<i, Live>>] \in Entry
    BY <1>10 DEF ReadForRelease, Readable
  <2>2. r.pc = "mark" /\ r.id = i /\ r.ts = now /\ r.ent = entry[<<i, Live>>]
    BY <1>0, <1>10 DEF ReadForRelease, Become, Idle
  <2> QED
    BY <1>2, <2>1, <2>2, AloneKnows DEF ToolRecords, Names, Readable, Onward
<1>11. ASSUME NEW t \in Time, NEW target \in Ids, ReadTarget(p, i, t, target)
       PROVE  ToolRecords(p)'
  <2>1. r.pc = "lookup" /\ r.to = <<entry[<<target, Live>>].space, target, Live>>
    BY <1>0, <1>11 DEF ReadTarget, Become, Idle
  <2> QED
    BY <2>1 DEF ToolRecords
<1>12. ASSUME NEW t \in Time, CheckRevivable(p, i, t) PROVE FALSE
  BY <1>12 DEF CheckRevivable, Start, AloneStep, UsersTurn
<1>13. ToolRecords(p)'
  BY <1>6, <1>7, <1>8, <1>9, <1>10, <1>11, <1>12
<1> QED
  BY <1>5, <1>13, AloneRecords

\* The directory is made where no other one of the workspace is left.
LEMMA MakeDirRecords ==
    ASSUME AloneStep, NEW p \in Procs, NEW s \in Spaces, MakeDir(p, s)
    PROVE  Records'
<1> DEFINE r == tool'[p]
           i == tool[p].id
<1>1. tool[p].pc = "mkdir" /\ i \in Ids /\ tool[p].ts <= now
      /\ ~Exists(<<i, Live>>)
  BY AloneKnows DEF MakeDir, At, WellFormed, ToolRecords
<1>2. r.pc = "create" /\ r.id = i /\ r.ts = tool[p].ts /\ r.ent.space = s
  BY DEF MakeDir, Become, AloneStep, TypeOK, ToolTypeOK, Process
<1>3. UNCHANGED <<now, entry, where>> /\ dirs' = dirs \cup {<<s, i, Live>>}
  BY DEF MakeDir
<1>4. KeepsLive /\ KeepsRemoved /\ KeepsData
  BY <1>3, SameData DEF KeepsLive, KeepsRemoved
<1>5. DirsOwned'
  <2> SUFFICES ASSUME NEW t \in Spaces, NEW j \in Ids, <<t, j, Live>> \in dirs'
               PROVE  Names(<<j, Live>>, t)' \/ AtWork(t, j)'
    BY DEF DirsOwned
  <2>1. CASE <<t, j, Live>> \in dirs
    <3>1. Names(<<j, Live>>, t)
      BY <1>1, <2>1, AloneKnows DEF DirsOwned
    <3> QED
      BY <1>3, <3>1 DEF Names, Readable
  <2>2. CASE t = s /\ j = i
    BY <1>2, <2>2, AloneKnows
  <2> QED
    BY <1>3, <2>1, <2>2
<1>6. ToolRecords(p)'
  BY <1>1, <1>2, <1>3 DEF ToolRecords, Exists
<1> QED
  BY <1>4, <1>5, <1>6, AloneKnows, AloneRecords, DataOwnedKept, LabelsPastKept

\* The entry is opened by a tool that knows the directory of the workspace.
LEMMA OpenRecords ==
    ASSUME AloneStep, NEW p \in Procs, tool[p].pc \in {"create", "extend", "mark"},
           OpenEntry(p, <<tool[p].id, Live>>), UNCHANGED <<now, dirs, where>>,
           tool'[p].pc = "write", tool'[p].id = tool[p].id, tool'[p].ts = tool[p].ts,
           tool'[p].ent.space = tool[p].ent.space,
           \A s \in Spaces, l \in Label :
              <<s, tool[p].id, l>> \in Full => l <= tool'[p].ent.exp
    PROVE  Records'
<1> DEFINE i == tool[p].id
<1>1. i \in Ids /\ tool[p].ts <= now /\ <<i, Live>> \in Key
      /\ entry \in [Key -> Entry \cup {Empty, None}]
      /\ open \in [Procs -> Key \cup {None}]
  BY LiveLabel, KeyInKey, AloneKnows DEF WellFormed, ToolRecords, EntryTypeOK
<1>2. \A k \in Key : k # <<i, Live>> => entry'[k] = entry[k]
  BY <1>1 DEF OpenEntry
<1>3. entry'[<<i, Live>>] = Empty /\ open'[p] = <<i, Live>>
  BY <1>1 DEF OpenEntry
<1>4. KeepsLive /\ KeepsRemoved
  BY <1>2, <1>3, LiveLabel, KeyInKey DEF KeepsLive, KeepsRemoved
<1>5. KeepsData /\ Full' = Full
  BY SameData
<1>6. DirsOwned'
  <2> SUFFICES ASSUME NEW t \in Spaces, NEW j \in Ids, <<t, j, Live>> \in dirs
               PROVE  Names(<<j, Live>>, t)' \/ AtWork(t, j)'
    BY DEF DirsOwned
  <2>1. Names(<<j, Live>>, t) \/ AtWork(t, j)
    BY AloneKnows DEF DirsOwned
  <2>2. CASE j = i
    <3>1. ASSUME tool[p].pc = "create" PROVE t = tool[p].ent.space
      <4>1. ~Names(<<i, Live>>, t)
        <5>1. ~Exists(<<i, Live>>)
          BY <3>1, AloneKnows DEF ToolRecords
        <5> QED
          BY <5>1 DEF Names, Readable, Exists
      <4> QED
        BY <2>1, <2>2, <4>1, AloneKnows
    <3>2. ASSUME tool[p].pc \in {"extend", "mark"} PROVE t = tool[p].ent.space
      <4>1. Names(<<i, Live>>, tool[p].ent.space) /\ ~AtWork(t, j)
        BY <3>2, AloneKnows DEF ToolRecords
      <4> QED
        BY <2>1, <2>2, <4>1 DEF Names
    <3>3. t = tool[p].ent.space
      BY <3>1, <3>2
    <3> QED
      BY <2>2, <3>3, AloneKnows
  <2>3. CASE j # i
    <3>1. Names(<<j, Live>>, t) /\ <<j, Live>> \in Key /\ <<j, Live>> # <<i, Live>>
      BY <2>1, <2>3, LiveLabel, KeyInKey, AloneKnows
    <3> QED
      BY <1>2, <3>1 DEF Names, Readable
  <2> QED
    BY <2>2, <2>3
<1>7. ToolRecords(p)'
  BY <1>1, <1>3, <1>5 DEF ToolRecords, Readable
<1> QED
  BY <1>4, <1>5, <1>6, <1>7, AloneKnows, AloneRecords, DataOwnedKept, LabelsPastKept

\* ws_allocate gives the workspace an expiration from now on, ws_allocate -x
\* one that is no sooner than before, or from now on.
LEMMA RewriteRecords ==
    ASSUME AloneStep, NEW p \in Procs,
           \/ \E duration \in Durations : CreateEntry(p, duration)
           \/ \E duration \in Durations : UseExtension(p, duration)
           \/ MarkReleased(p)
    PROVE  Records'
<1> DEFINE i == tool[p].id
           e == tool[p].ent
<1>1. tool[p].pc \in {"create", "extend", "mark"} /\ UNCHANGED <<now, dirs, where>>
  BY DEF CreateEntry, UseExtension, MarkReleased, At
<1>2. tool[p] \in Process /\ i \in Ids /\ e \in Entry /\ tool \in [Procs -> Process]
      /\ e.exp \in Nat /\ now \in Nat
  BY <1>1, AloneKnows DEF WellFormed, Entry, Onward, AloneStep, TypeOK, ToolTypeOK
<1>3. \A s \in Spaces, l \in Label : <<s, i, l>> \in Full => l <= now /\ l \in Nat
  BY <1>2, LiveLabel, AloneKnows DEF LabelsPast
<1>8. tool[p].pc = "extend" =>
         \A s \in Spaces, l \in Label : <<s, i, l>> \in Full => l <= e.exp
  BY AloneKnows DEF ToolRecords
<1>4. ASSUME NEW x \in Nat, NEW r, Become(p, r), OpenEntry(p, <<i, Live>>), r.pc = "write",
             r.id = i, r.ts = tool[p].ts, r.ent.space = e.space, r.ent.exp = x,
             now <= x \/ (tool[p].pc = "extend" /\ x = e.exp)
      PROVE  Records'
  <2>1. tool'[p] = r
    BY <1>2, <1>4 DEF Become
  <2>2. \A s \in Spaces, l \in Label : <<s, i, l>> \in Full => l <= x
    BY <1>2, <1>3, <1>4, <1>8
  <2> QED
    BY <1>1, <1>4, <2>1, <2>2, OpenRecords
<1>5. ASSUME NEW duration \in Durations, CreateEntry(p, duration) PROVE Records'
  <2> DEFINE r == [tool[p] EXCEPT !.pc = "write", !.ent.exp = now + duration]
  <2>1. r.pc = "write" /\ r.id = i /\ r.ts = tool[p].ts /\ r.ent.space = e.space
        /\ r.ent.exp = now + duration
    BY <1>2 DEF Process, Entry
  <2>2. Become(p, r) /\ OpenEntry(p, <<i, Live>>)
    BY <1>5 DEF CreateEntry
  <2>3. duration \in Nat
    OBVIOUS
  <2>4. now + duration \in Nat /\ now <= now + duration
    BY <1>2, <2>3
  <2> HIDE DEF i, e, r
  <2> QED
    BY <1>4, <2>1, <2>2, <2>4
<1>6. ASSUME NEW duration \in Durations, UseExtension(p, duration) PROVE Records'
  <2> DEFINE c == Cost(e, duration)
             r == [tool[p] EXCEPT !.pc = "write", !.ent.exp = Prolonged(e, duration),
                      !.ent.ext = e.ext - c]
  <2>1. CASE Exit(p) /\ UNCHANGED <<entry, open>>
    <3>1. tool[p].pc = "extend"
      BY <1>6 DEF UseExtension, At
    <3>2. KeepsLive /\ KeepsRemoved /\ KeepsData
      BY <1>1, <2>1, SameData DEF KeepsLive, KeepsRemoved
    <3>3. DirsOwned'
      BY <1>1, <2>1, <3>1, AloneKnows, DirsOwnedKept
    <3>4. ToolRecords(p)'
      BY <2>1, ExitRecords DEF AloneStep
    <3> QED
      BY <3>2, <3>3, <3>4, AloneKnows, AloneRecords, DataOwnedKept, LabelsPastKept
  <2>2. CASE Become(p, r) /\ OpenEntry(p, <<i, Live>>)
    <3>1. r.pc = "write" /\ r.id = i /\ r.ts = tool[p].ts /\ r.ent.space = e.space
          /\ r.ent.exp = Prolonged(e, duration)
      BY <1>2 DEF Process, Entry
    <3>2. tool[p].pc = "extend"
      BY <1>6 DEF UseExtension, At
    <3>3. duration \in Nat
      OBVIOUS
    <3>4. /\ Prolonged(e, duration) \in Nat
          /\ now <= Prolonged(e, duration) \/ Prolonged(e, duration) = e.exp
      BY <1>2, <3>3 DEF Prolonged
    <3> HIDE DEF i, e, r
    <3> QED
      BY <1>4, <2>2, <3>1, <3>2, <3>4
  <2> QED
    BY <1>6, <2>1, <2>2 DEF UseExtension
<1>7. CASE MarkReleased(p)
  <2> DEFINE r == [tool[p] EXCEPT !.pc = "write", !.ent.exp = now, !.ent.rel = now]
  <2>1. r.pc = "write" /\ r.id = i /\ r.ts = tool[p].ts /\ r.ent.space = e.space
        /\ r.ent.exp = now
    BY <1>2 DEF Process, Entry
  <2>2. Become(p, r) /\ OpenEntry(p, <<i, Live>>)
    BY <1>7 DEF MarkReleased
  <2> HIDE DEF i, e, r
  <2> QED
    BY <1>2, <1>4, <2>1, <2>2
<1> QED
  BY <1>5, <1>6, <1>7

\* What is written names the directory again, with an expiration that is late
\* enough.
LEMMA FinishWriteRecords ==
    ASSUME AloneStep, NEW p \in Procs, FinishWrite(p) PROVE Records'
<1> DEFINE i == tool[p].id
           e == tool[p].ent
<1>1. tool[p].pc = "write" /\ i \in Ids /\ e \in Entry /\ <<i, Live>> \in Key
      /\ tool[p] \in Process /\ tool \in [Procs -> Process]
  BY LiveLabel, KeyInKey, AloneKnows
  DEF FinishWrite, At, WellFormed, AloneStep, TypeOK, ToolTypeOK
<1>2. /\ tool[p].ts <= now /\ open[p] = <<i, Live>>
      /\ \A s \in Spaces, l \in Label : <<s, i, l>> \in Full => l <= e.exp
  BY <1>1, AloneKnows DEF ToolRecords
<1>3. UNCHANGED <<now, dirs, where>> /\ WriteEntry(p, e)
  BY DEF FinishWrite
<1>4. entry' = [entry EXCEPT ![<<i, Live>>] = e] /\ entry \in [Key -> Entry \cup {Empty, None}]
  BY <1>1, <1>2, <1>3, AloneKnows DEF WriteEntry, EntryTypeOK
<1>5. entry'[<<i, Live>>] = e /\ \A k \in Key : k # <<i, Live>> => entry'[k] = entry[k]
  BY <1>1, <1>4
<1>6. KeepsRemoved /\ KeepsData /\ Full' = Full
  BY <1>3, <1>5, LiveLabel, KeyInKey, SameData DEF KeepsRemoved
<1>7. DirsOwned'
  <2> SUFFICES ASSUME NEW t \in Spaces, NEW j \in Ids, <<t, j, Live>> \in dirs
               PROVE  Names(<<j, Live>>, t)'
    BY <1>3 DEF DirsOwned
  <2>0. <<j, Live>> \in Key
    BY LiveLabel, KeyInKey
  <2>1. Names(<<j, Live>>, t) \/ AtWork(t, j)
    BY AloneKnows DEF DirsOwned
  <2>2. CASE AtWork(t, j)
    <3>1. j = i /\ t = e.space
      BY <2>2, AloneKnows
    <3> QED
      BY <1>1, <1>5, <3>1 DEF Names, Readable
  <2>3. CASE Names(<<j, Live>>, t) /\ j # i
    BY <1>5, <2>0, <2>3 DEF Names, Readable
  <2>4. CASE Names(<<j, Live>>, t) /\ j = i
    <3>1. ~Readable(<<i, Live>>)
      BY <1>1, AloneKnows DEF ToolRecords
    <3> QED
      BY <2>4, <3>1 DEF Names
  <2> QED
    BY <2>1, <2>2, <2>3, <2>4
<1>8. LabelsPast'
  <2> SUFFICES ASSUME NEW s \in Spaces, NEW j \in Ids, NEW l \in Label, <<s, j, l>> \in Full
               PROVE  l <= now /\ (Readable(<<j, Live>>)' => l <= entry'[<<j, Live>>].exp)
    BY <1>3, <1>6 DEF LabelsPast
  <2>0. <<j, Live>> \in Key
    BY LiveLabel, KeyInKey
  <2>1. l <= now /\ (Readable(<<j, Live>>) => l <= entry[<<j, Live>>].exp)
    BY AloneKnows DEF LabelsPast
  <2>2. CASE j = i
    BY <1>2, <1>5, <2>1, <2>2
  <2>3. CASE j # i
    BY <1>5, <2>0, <2>1, <2>3 DEF Readable
  <2> QED
    BY <2>2, <2>3
<1>9. ToolRecords(p)'
  <2>1. CASE Exit(p)
    BY <2>1, ExitRecords DEF AloneStep
  <2>2. CASE Goto(p, "retire")
    <3>1. tool'[p].pc = "retire" /\ tool'[p].id = i /\ tool'[p].ent = e
          /\ tool'[p].ts = tool[p].ts
      BY <1>1, <2>2 DEF Goto, Become, Process
    <3>2. entry'[<<i, Live>>] \in Entry /\ entry'[<<i, Live>>].space = e.space
      BY <1>1, <1>5
    <3> QED
      BY <1>2, <1>3, <3>1, <3>2 DEF ToolRecords, Names, Readable
  <2> QED
    BY <2>1, <2>2 DEF FinishWrite
<1> QED
  BY <1>6, <1>7, <1>8, <1>9, AloneKnows, AloneRecords, DataOwnedKept

\* The removed name gets the entry; data it had are nobody's from now on.
LEMMA RetireEntryRecords ==
    ASSUME AloneStep, NEW p \in Procs, RetireEntry(p) PROVE Records'
<1> DEFINE i == tool[p].id
           e == tool[p].ent
           ts == tool[p].ts
<1>1. tool[p].pc = "retire" /\ i \in Ids /\ e \in Entry /\ ts \in Time
      /\ tool[p] \in Process /\ tool \in [Procs -> Process]
  BY AloneKnows DEF RetireEntry, At, WellFormed, AloneStep, TypeOK, ToolTypeOK
<1>2. /\ <<i, Live>> \in Key /\ <<i, ts>> \in Key /\ ts # Live /\ ts \in Label
      /\ EntryTypeOK
  <2>1. Live \in Label /\ ts \in Label /\ ts # Live
    BY <1>1, LiveLabel, LiveIsNoTime
  <2> QED
    BY <1>1, <2>1, KeyInKey, AloneKnows
<1>3. ts <= now /\ Readable(<<i, Live>>) /\ entry[<<i, Live>>].space = e.space
  BY <1>1, AloneKnows DEF ToolRecords, Names
<1>4. RenameEntry(<<i, Live>>, <<i, ts>>) /\ Goto(p, "movedir")
      /\ UNCHANGED <<now, dirs, where>>
  BY <1>3 DEF RetireEntry, Readable, Exists
<1>5. /\ entry'[<<i, ts>>] = entry[<<i, Live>>] /\ entry'[<<i, Live>>] = None
      /\ \A k \in Key \ {<<i, Live>>, <<i, ts>>} : entry'[k] = entry[k]
  BY <1>2, <1>4 DEF RenameEntry, EntryTypeOK
<1>6. tool'[p].pc = "movedir" /\ tool'[p].id = i /\ tool'[p].ent = e /\ tool'[p].ts = ts
  BY <1>1, <1>4 DEF Goto, Become, Process
<1>7. KeepsLive /\ KeepsData /\ Full' = Full
  <2>1. KeepsLive
    BY <1>1, <1>2, <1>4, LiveLabel, RenameKeeps
  <2> QED
    BY <1>4, <2>1, SameData
<1>8. DirsOwned'
  <2> SUFFICES ASSUME NEW t \in Spaces, NEW j \in Ids, <<t, j, Live>> \in dirs
               PROVE  Names(<<j, Live>>, t)' \/ AtWork(t, j)'
    BY <1>4 DEF DirsOwned
  <2>1. Names(<<j, Live>>, t)
    BY <1>1, AloneKnows DEF DirsOwned
  <2>2. CASE j = i
    BY <1>3, <1>6, <2>1, <2>2, AloneKnows DEF Names
  <2>3. CASE j # i
    <3>1. <<j, Live>> \in Key \ {<<i, Live>>, <<i, ts>>}
      BY <2>3, LiveLabel, KeyInKey
    <3> QED
      BY <1>5, <2>1, <3>1 DEF Names, Readable
  <2> QED
    BY <2>2, <2>3
<1>9. DataOwned'
  <2> SUFFICES ASSUME NEW s \in Spaces, NEW j \in Ids, NEW l \in Label,
                      <<s, j, l>> \in Full, l # Live
               PROVE  Names(<<j, l>>, s)' \/ Lawful(<<j, l>>)'
    BY <1>7 DEF DataOwned
  <2>0. <<j, l>> \in Key
    BY KeyInKey
  <2>1. Names(<<j, l>>, s) \/ Lawful(<<j, l>>)
    BY AloneKnows DEF DataOwned
  <2>2. CASE Lawful(<<j, l>>)
    BY <2>0, <2>2, AloneKnows DEF Onward
  <2>3. CASE Names(<<j, l>>, s) /\ <<j, l>> = <<i, ts>>
    <3>1. Reused(<<j, l>>)
      BY <1>1, <1>6, <2>3 DEF Reused, At, Names, Readable, Exists
    <3>2. <<j, l>> \in clobbered'
      BY <2>0, <3>1 DEF AloneStep, Observe
    <3> QED
      BY <3>2 DEF Lawful
  <2>4. CASE Names(<<j, l>>, s) /\ <<j, l>> # <<i, ts>>
    BY <1>5, <2>0, <2>4 DEF Names, Readable
  <2> QED
    BY <2>1, <2>2, <2>3, <2>4
<1>10. ToolRecords(p)'
  BY <1>3, <1>4, <1>5, <1>6 DEF ToolRecords, Names, Readable
<1> QED
  BY <1>7, <1>8, <1>9, <1>10, AloneKnows, AloneRecords, LabelsPastKept

\* The data follow the entry to the removed name.
LEMMA RetireDirRecords ==
    ASSUME AloneStep, NEW p \in Procs, RetireDir(p) PROVE Records'
<1> DEFINE i == tool[p].id
           ts == tool[p].ts
           from == <<tool[p].ent.space, i, Live>>
           to == <<tool[p].ent.space, i, ts>>
<1>1. tool[p].pc = "movedir" /\ i \in Ids /\ tool[p].ent \in Entry /\ ts \in Time
      /\ tool[p] \in Process /\ tool \in [Procs -> Process] /\ tool[p].ent.space \in Spaces
  BY AloneKnows DEF RetireDir, At, WellFormed, AloneStep, TypeOK, ToolTypeOK, Entry
<1>2. /\ <<i, Live>> \in Key /\ <<i, ts>> \in Key /\ ts # Live /\ ts \in Label
      /\ from \in Path /\ to \in Path /\ from # to
  BY <1>1, LiveLabel, LiveIsNoTime, KeyInKey, Paths
<1>3. ts <= now /\ Names(<<i, ts>>, tool[p].ent.space) /\ ~Exists(<<i, Live>>)
  BY <1>1, AloneKnows DEF ToolRecords, ToolPlaces
<1>4. UNCHANGED <<now, entry, open>>
  BY DEF RetireDir
<1>5. \/ from \notin dirs /\ Exit(p) /\ UNCHANGED <<dirs, where>>
      \/ MoveDir(from, to) /\ (Goto(p, "wipe") \/ Exit(p))
  BY DEF RetireDir
<1>6. tool'[p].pc \in {"wipe", "idle"} /\ ToolRecords(p)'
  <2>1. CASE Exit(p)
    BY <2>1, ExitRecords DEF AloneStep
  <2>2. CASE Goto(p, "wipe")
    <3>1. tool'[p].pc = "wipe"
      BY <1>1, <2>2 DEF Goto, Become, Process
    <3> QED
      BY <3>1 DEF ToolRecords
  <2> QED
    BY <1>5, <2>1, <2>2
<1>7. from \notin dirs' /\ \A x \in dirs' : x \in dirs \/ x = to
  BY <1>2, <1>5 DEF MoveDir
<1>8. \A x \in Full' : x \in Full \/ x = to
  BY <1>2, <1>5, SameData, MovedData
<1>9. DirsOwned'
  <2> SUFFICES ASSUME NEW t \in Spaces, NEW j \in Ids, <<t, j, Live>> \in dirs'
               PROVE  Names(<<j, Live>>, t)
    BY <1>4 DEF DirsOwned, Names, Readable
  <2>1. <<t, j, Live>> \in dirs /\ <<t, j, Live>> # from
    BY <1>2, <1>7
  <2> QED
    BY <2>1, AloneKnows DEF DirsOwned
<1>10. DataOwned'
  <2> SUFFICES ASSUME NEW s \in Spaces, NEW j \in Ids, NEW l \in Label,
                      <<s, j, l>> \in Full', l # Live
               PROVE  Names(<<j, l>>, s) \/ Lawful(<<j, l>>)'
    BY <1>4 DEF DataOwned, Names, Readable
  <2>1. CASE <<s, j, l>> \in Full
    BY <2>1, KeyInKey, AloneKnows DEF DataOwned, Onward
  <2>2. CASE <<s, j, l>> = to
    BY <1>3, <2>2
  <2> QED
    BY <1>8, <2>1, <2>2
<1>11. LabelsPast'
  <2> SUFFICES ASSUME NEW s \in Spaces, NEW j \in Ids, NEW l \in Label, <<s, j, l>> \in Full'
               PROVE  l <= now /\ (Readable(<<j, Live>>) => l <= entry[<<j, Live>>].exp)
    BY <1>4 DEF LabelsPast, Readable
  <2>1. CASE <<s, j, l>> \in Full
    BY <2>1, AloneKnows DEF LabelsPast
  <2>2. CASE <<s, j, l>> = to
    BY <1>3, <2>2 DEF Readable, Exists
  <2> QED
    BY <1>8, <2>1, <2>2
<1> QED
  BY <1>6, <1>9, <1>10, <1>11, AloneRecords

\* The steps that bring no data to a removed directory and leave the live
\* names as they are.
LEMMA PlainRecords ==
    ASSUME AloneStep, NEW p \in Procs, KeepsData,
           tool[p].pc \notin {"create", "write", "movedir"},
           \A i \in Ids : entry'[<<i, Live>>] = entry[<<i, Live>>],
           \A s \in Spaces, i \in Ids : <<s, i, Live>> \in dirs' => <<s, i, Live>> \in dirs,
           DataOwned', ToolRecords(p)'
    PROVE  Records'
<1>1. DirsOwned'
  BY AloneKnows, DirsOwnedKept
<1>2. KeepsLive
  BY DEF KeepsLive
<1> QED
  BY <1>1, <1>2, AloneKnows, AloneRecords, LabelsPastKept

\* The deletion of the data is the wish of the user.
LEMMA WipeRecords ==
    ASSUME AloneStep, NEW p \in Procs, NEW rest \in SUBSET Data, WipeData(p, rest)
    PROVE  Records'
<1> DEFINE i == tool[p].id
           ts == tool[p].ts
<1>1. tool[p].pc = "wipe" /\ i \in Ids /\ ts \in Time /\ ts # Live /\ <<i, ts>> \in Key
      /\ tool[p] \in Process /\ tool \in [Procs -> Process]
  <2>1. tool[p].pc = "wipe"
    BY DEF WipeData, At
  <2>2. i \in Ids /\ ts \in Time /\ tool[p] \in Process /\ tool \in [Procs -> Process]
    BY <2>1, AloneKnows DEF WellFormed, AloneStep, TypeOK, ToolTypeOK
  <2> QED
    BY <2>1, <2>2, LiveLabel, LiveIsNoTime, KeyInKey
<1>2. UNCHANGED <<now, entry>> /\ RemoveTree(<<tool[p].ent.space, i, ts>>, rest)
      /\ (UNCHANGED tool \/ Goto(p, "forget"))
  BY DEF WipeData
<1>3. KeepsData /\ KeepsRemoved /\ DataOwned'
  <2>1. KeepsData
    BY <1>2, RemovedData DEF AloneStep
  <2>2. KeepsRemoved
    BY <1>2 DEF KeepsRemoved
  <2> QED
    BY <2>1, <2>2, AloneKnows, DataOwnedKept
<1>4. \A x \in dirs' : x \in dirs
  BY <1>2 DEF RemoveTree
<1>5. <<i, ts>> \in waived'
  BY <1>1 DEF AloneStep, Observe, At
<1>6. ToolRecords(p)'
  <2>1. CASE UNCHANGED tool
    BY <1>1, <2>1 DEF ToolRecords
  <2>2. CASE Goto(p, "forget")
    <3>1. tool'[p].pc = "forget" /\ tool'[p].id = i /\ tool'[p].ts = ts
      BY <1>1, <2>2 DEF Goto, Become, Process
    <3> QED
      BY <1>5, <3>1 DEF ToolRecords
  <2> QED
    BY <1>2, <2>1, <2>2
<1> QED
  BY <1>1, <1>2, <1>3, <1>4, <1>6, PlainRecords

\* A removed entry goes away that had been waived, or that has no data left.
LEMMA UnlinkRecords ==
    ASSUME AloneStep, NEW p \in Procs, ForgetEntry(p) \/ UnlinkSource(p)
    PROVE  Records'
<1> DEFINE i == tool[p].id
           ts == tool[p].ts
<1>1. tool[p].pc \in {"forget", "unlink"} /\ UnlinkEntry(<<i, ts>>) /\ Exit(p)
      /\ UNCHANGED <<now, dirs, where>>
  BY DEF ForgetEntry, UnlinkSource, At
<1>2. i \in Ids /\ ts \in Label /\ ts # Live
  <2>1. i \in Ids /\ ts \in Label
    BY <1>1, AloneKnows DEF WellFormed, Process
  <2>2. ASSUME tool[p].pc = "unlink" PROVE ts # Live
    BY <2>2, AloneKnows DEF ToolRecords
  <2>3. ASSUME tool[p].pc = "forget" PROVE ts # Live
    BY <2>3, LiveIsNoTime, AloneKnows DEF WellFormed
  <2> QED
    BY <1>1, <2>1, <2>2, <2>3
<1>3. \A k \in Key : k # <<i, ts>> => entry'[k] = entry[k]
  BY <1>1, AloneKnows DEF UnlinkEntry, EntryTypeOK
<1>4. \A j \in Ids : entry'[<<j, Live>>] = entry[<<j, Live>>]
  BY <1>2, <1>3, LiveLabel, KeyInKey
<1>5. KeepsData /\ Full' = Full
  BY <1>1, SameData
<1>6. DataOwned'
  <2> SUFFICES ASSUME NEW s \in Spaces, NEW j \in Ids, NEW l \in Label,
                      <<s, j, l>> \in Full, l # Live
               PROVE  Names(<<j, l>>, s)' \/ Lawful(<<j, l>>)'
    BY <1>5 DEF DataOwned
  <2>0. <<j, l>> \in Key
    BY KeyInKey
  <2>1. Names(<<j, l>>, s) \/ Lawful(<<j, l>>)
    BY AloneKnows DEF DataOwned
  <2>2. CASE Lawful(<<j, l>>)
    BY <2>0, <2>2, AloneKnows DEF Onward
  <2>3. CASE Names(<<j, l>>, s) /\ <<j, l>> # <<i, ts>>
    BY <1>3, <2>0, <2>3 DEF Names, Readable
  <2>4. CASE Names(<<j, l>>, s) /\ <<j, l>> = <<i, ts>>
    <3>1. CASE tool[p].pc = "forget"
      <4>1. <<i, ts>> \in waived
        BY <3>1, AloneKnows DEF ToolRecords
      <4>2. Lawful(<<j, l>>)
        BY <2>4, <4>1 DEF Lawful
      <4> QED
        BY <2>2, <4>2
    <3>2. CASE tool[p].pc = "unlink"
      <4>1. entry[<<i, ts>>].space = tool[p].ent.space
            /\ <<tool[p].ent.space, i, ts>> \notin Full
        BY <3>2, AloneKnows DEF ToolRecords, Names
      <4> QED
        BY <2>4, <4>1 DEF Names
    <3> QED
      BY <1>1, <3>1, <3>2
  <2> QED
    BY <2>1, <2>2, <2>3, <2>4
<1>7. ToolRecords(p)'
  BY <1>1, ExitRecords DEF AloneStep
<1> QED
  BY <1>1, <1>4, <1>5, <1>6, <1>7, PlainRecords

LEMMA ReadSourceRecords ==
    ASSUME AloneStep, NEW p \in Procs, ReadSource(p) PROVE Records'
<1> DEFINE key == <<tool[p].id, tool[p].ts>>
<1>1. tool[p].pc = "lookup" /\ UNCHANGED <<now, entry, dirs, where>>
  BY DEF ReadSource, At, storeVars
<1>2. KeepsData /\ KeepsRemoved /\ DataOwned'
  <2>1. KeepsData /\ KeepsRemoved
    BY <1>1, SameData DEF KeepsRemoved
  <2> QED
    BY <2>1, AloneKnows, DataOwnedKept
<1>3. ToolRecords(p)'
  <2>1. CASE Exit(p)
    BY <2>1, ExitRecords DEF AloneStep
  <2>2. CASE /\ Readable(key)
             /\ Become(p, [tool[p] EXCEPT !.pc = "refill", !.ent = entry[key]])
    <3>1. tool'[p].pc = "refill" /\ tool'[p].id = tool[p].id /\ tool'[p].ts = tool[p].ts
          /\ tool'[p].ent = entry[key] /\ tool'[p].to = tool[p].to
      BY <2>2 DEF Become, Process, AloneStep, TypeOK, ToolTypeOK
    <3> QED
      <4>1. tool'[p].to[3] = Live
        BY <1>1, <3>1, AloneKnows DEF ToolRecords
      <4>2. Names(<<tool[p].id, tool[p].ts>>, tool[p].ent.space)'
        BY <1>1, <2>2, <3>1 DEF Names, Readable
      <4> QED
        BY <3>1, <4>1, <4>2 DEF ToolRecords
  <2> QED
    BY <2>1, <2>2 DEF ReadSource
<1> QED
  BY <1>1, <1>2, <1>3, PlainRecords

\* All the data of the removed directory leave it.
LEMMA RefillRecords ==
    ASSUME AloneStep, NEW p \in Procs, Refill(p) PROVE Records'
<1> DEFINE i == tool[p].id
           ts == tool[p].ts
           from == <<tool[p].ent.space, i, ts>>
           to == tool[p].to
<1>1. tool[p].pc = "refill" /\ UNCHANGED <<now, entry, open>>
  BY DEF Refill, At
<1>2. i \in Ids /\ ts \in Label /\ ts # Live /\ to \in Path /\ from \in Path
      /\ tool[p] \in Process /\ tool \in [Procs -> Process]
  <2>1. i \in Ids /\ ts \in Label /\ to \in Path /\ tool[p].ent \in Entry
        /\ tool[p] \in Process /\ tool \in [Procs -> Process]
    BY <1>1, AloneKnows DEF WellFormed, Process, AloneStep, TypeOK, ToolTypeOK
  <2>2. ts # Live
    BY <1>1, AloneKnows DEF ToolPlaces
  <2>3. tool[p].ent.space \in Spaces
    BY <2>1 DEF Entry
  <2> QED
    BY <2>1, <2>2, <2>3, Paths
<1>3. Names(<<i, ts>>, tool[p].ent.space)
  BY <1>1, AloneKnows DEF ToolRecords
<1>4. to[3] = Live
  BY <1>1, AloneKnows DEF ToolRecords
<1>5. from # to
  BY <1>2, <1>4
<1>6. KeepsRemoved
  BY <1>1 DEF KeepsRemoved
<1>7. ASSUME Exit(p), UNCHANGED <<dirs, where>> PROVE Records'
  <2>1. KeepsData /\ ToolRecords(p)'
    BY <1>7, SameData, ExitRecords DEF AloneStep
  <2>2. DataOwned'
    BY <1>6, <2>1, AloneKnows, DataOwnedKept
  <2> QED
    BY <1>1, <1>7, <2>1, <2>2, PlainRecords
<1>8. ASSUME {from, to} \subseteq dirs, MoveDir(from, to), Goto(p, "unlink")
      PROVE  Records'
  <2>1. Full' \subseteq (Full \ {from}) \cup {to}
    BY <1>2, <1>5, <1>8, MovedData
  <2>2. KeepsData
    BY <1>4, <2>1 DEF KeepsData
  <2>3. DataOwned'
    BY <1>6, <2>2, AloneKnows, DataOwnedKept
  <2>4. \A x \in dirs' : x \in dirs
    BY <1>8 DEF MoveDir
  <2>5. tool'[p].pc = "unlink" /\ tool'[p].id = i /\ tool'[p].ts = ts
        /\ tool'[p].ent = tool[p].ent
    BY <1>2, <1>8 DEF Goto, Become, Process
  <2>6. from \notin Full'
    BY <1>5, <2>1
  <2>7. ToolRecords(p)'
    BY <1>1, <1>2, <1>3, <2>5, <2>6 DEF ToolRecords, Names, Readable
  <2> QED
    BY <1>1, <2>2, <2>3, <2>4, <2>7, PlainRecords
<1> QED
  BY <1>7, <1>8 DEF Refill

LEMMA ProceedRecords ==
    ASSUME AloneStep, NEW p \in Procs, Proceed(p) PROVE Records'
<1>1. ~ReviveEntry(p) /\ ~PutBack(p)
  BY DEF ReviveEntry, PutBack, At, AloneStep, Budget, ToolBudget
<1> QED
  BY <1>1, MakeDirRecords, RewriteRecords, FinishWriteRecords, RetireEntryRecords,
     RetireDirRecords, WipeRecords, UnlinkRecords, ReadSourceRecords, RefillRecords
  DEF Proceed

-----------------------------------------------------------------------------
(* The steps of the expirer, while no tool runs                            *)

\* A step of the expirer at a quiet site.
RunAlone == /\ TypeOK /\ RunInv /\ Places /\ Records /\ Running
            /\ UNCHANGED tool /\ Onward /\ Observe

LEMMA RunKnows ==
    ASSUME RunAlone
    PROVE  /\ xp \in Fields /\ EntryTypeOK /\ ListInv /\ JobInv /\ Onward
           /\ \A p \in Procs : ToolRecords(p)'
           /\ \A s, i : AtWork(s, i) <=>
                 xp.pc = "movedir" /\ xp.job.key[1] = i /\ xp.job.ent.space = s
           /\ \A s, i : AtWork(s, i)' <=>
                 xp'.pc = "movedir" /\ xp'.job.key[1] = i /\ xp'.job.ent.space = s
           /\ DirsOwned /\ DataOwned /\ LabelsPast /\ ExpirerRecords /\ ExpirerPlaces
<1>1. \A p \in Procs : tool[p].pc = "idle" /\ tool'[p].pc = "idle"
  BY DEF RunAlone, Places, ExpirerPlaces, ToolsIdle, At
<1>2. \A p \in Procs : ToolRecords(p)'
  BY <1>1 DEF ToolRecords
<1>3. xp \in Fields /\ EntryTypeOK
  BY StoreTypes DEF RunAlone, TypeOK, ExpirerTypeOK, Fields
<1> QED
  BY <1>1, <1>2, <1>3 DEF RunAlone, AtWork, RunInv, Records, Places

LEMMA RunRecords ==
    ASSUME RunAlone, DirsOwned', DataOwned', LabelsPast', ExpirerRecords'
    PROVE  Records'
BY RunKnows DEF Records

\* The steps that only read.
LEMMA ReadingRecords ==
    ASSUME RunAlone, UNCHANGED <<entry, dirs, where>>, xp.pc # "movedir",
           ExpirerRecords'
    PROVE  Records'
<1>1. KeepsLive /\ KeepsRemoved /\ KeepsData
  BY SameData DEF KeepsLive, KeepsRemoved
<1>2. DirsOwned'
  BY RunKnows, DirsOwnedKept
<1> QED
  BY <1>1, <1>2, RunKnows, RunRecords, DataOwnedKept, LabelsPastKept

LEMMA ListingRecords ==
    ASSUME RunAlone, UNCHANGED <<entry, dirs, where>>,
           \/ \E s \in Spaces : ScanSpace(s) \/ ScanTrash(s)
           \/ ListEntries \/ ListRemovedEntries \/ ListLive \/ ListRemoved
           \/ FinishRun
           \/ \E k \in Key : CheckEntry(k) \/ VisitEntry(k) \/ VisitRemoved(k)
    PROVE  Records'
<1>0. xp \in Fields /\ ExpirerRecords /\ RemovedKeys' = RemovedKeys /\ Full' = Full
  BY RunKnows, SameData DEF RemovedKeys, Exists
<1>1. ASSUME xp'.pc \notin {"scan", "check", "stray", "trash", "retire", "movedir", "deldir"}
      PROVE  ExpirerRecords'
  BY <1>1 DEF ExpirerRecords
<1>2. ASSUME NEW s \in Spaces, ScanSpace(s) PROVE ExpirerRecords'
  <2>1. xp.pc = "scan" /\ xp'.pc = "scan"
        /\ xp'.paths = xp.paths \cup {x \in dirs : x[1] = s /\ x[3] = Live}
    BY <1>0, <1>2 DEF ScanSpace, Fields
  <2> QED
    BY <1>0, <2>1 DEF ExpirerRecords
<1>3. ASSUME NEW s \in Spaces, ScanTrash(s) PROVE ExpirerRecords'
  <2>1. xp.pc = "trash" /\ xp'.pc = "trash" /\ xp'.names = xp.names
    BY <1>0, <1>3 DEF ScanTrash, Fields
  <2> QED
    BY <1>0, <2>1 DEF ExpirerRecords
<1>4. ASSUME ListEntries PROVE ExpirerRecords'
  <2>1. xp.pc = "scan" /\ xp'.pc \in {"check", "stray"} /\ xp'.paths = xp.paths
    BY <1>0, <1>4 DEF ListEntries, Fields
  <2> QED
    BY <1>0, <2>1 DEF ExpirerRecords
<1>5. ASSUME ListRemovedEntries PROVE ExpirerRecords'
  <2>1. xp'.pc = "trash" /\ xp'.names = RemovedKeys
    BY <1>0, <1>5 DEF ListRemovedEntries, Fields
  <2> QED
    BY <1>0, <2>1 DEF ExpirerRecords
<1>6. ASSUME ListLive \/ ListRemoved \/ FinishRun PROVE ExpirerRecords'
  <2>1. ListLive => xp'.pc = "expire"
    BY DEF ListLive, Resting
  <2>2. FinishRun => xp'.pc = "idle"
    BY DEF FinishRun, Abort, Resting
  <2>3. ListRemoved => xp'.pc = "reap"
    BY <1>0 DEF ListRemoved, Fields
  <2> QED
    BY <1>1, <1>6, <2>1, <2>2, <2>3
<1>7. ASSUME NEW k \in Key, CheckEntry(k) PROVE ExpirerRecords'
  <2>1. ASSUME Abort PROVE ExpirerRecords'
    BY <1>1, <2>1 DEF Abort, Resting
  <2>2. ASSUME xp' = [xp EXCEPT !.todo = @ \ {k},
                         !.pc = IF xp.todo = {k} THEN "stray" ELSE "check"]
        PROVE  ExpirerRecords'
    <3>1. xp.pc = "check" /\ xp'.pc \in {"check", "stray"} /\ xp'.paths = xp.paths
      BY <1>0, <1>7, <2>2 DEF CheckEntry, Fields
    <3> QED
      BY <1>0, <3>1 DEF ExpirerRecords
  <2> QED
    BY <1>7, <2>1, <2>2 DEF CheckEntry
<1>8. ASSUME NEW k \in Key, VisitEntry(k) PROVE ExpirerRecords'
  <2>1. CASE xp'.pc = "expire"
    BY <1>1, <2>1
  <2>2. CASE /\ Readable(k) /\ now > entry[k].exp
             /\ xp' = [xp EXCEPT !.pc = "retire", !.todo = @ \ {k},
                          !.job = [key |-> k, ent |-> entry[k], ts |-> now]]
    <3>1. k[2] = Live /\ k = <<k[1], Live>> /\ k[1] \in Ids
      BY <1>8, Paths, RunKnows DEF VisitEntry, JobInv
    <3>2. xp'.pc = "retire" /\ xp'.job.key = k /\ xp'.job.ent = entry[k]
          /\ xp'.job.ts = now
      BY <1>0, <2>2 DEF Fields
    <3>3. \A s \in Spaces, l \in Label : <<s, k[1], l>> \in Full => l < now
      <4> SUFFICES ASSUME NEW s \in Spaces, NEW l \in Label, <<s, k[1], l>> \in Full
                   PROVE  l < now
        OBVIOUS
      <4>1. l <= entry[k].exp
        BY <2>2, <3>1, RunKnows DEF LabelsPast
      <4>2. entry[k].exp \in Nat /\ l \in Nat /\ now \in Nat
        BY <2>2, LiveLabel, RunKnows DEF Readable, Entry, Onward
      <4> QED
        BY <2>2, <4>1, <4>2
    <3>4. now <= now'
      BY RunKnows DEF Onward
    <3> QED
      BY <1>0, <2>2, <3>2, <3>3, <3>4 DEF ExpirerRecords, Names, Readable
  <2>3. CASE xp' = [xp EXCEPT !.todo = @ \ {k}]
    BY <1>0, <1>8, <2>1, <2>3 DEF VisitEntry, Fields
  <2> QED
    BY <1>8, <2>2, <2>3 DEF VisitEntry
<1>9. ASSUME NEW k \in Key, VisitRemoved(k) PROVE ExpirerRecords'
  <2>1. DOMAIN xp = {"pc", "spaces", "paths", "names", "todo", "job"}
    BY <1>0 DEF Fields
  <2>2. xp.pc = "reap" /\ xp'.pc \in {xp.pc, "unlink"}
    BY <1>9, <2>1 DEF VisitRemoved
  <2> QED
    BY <1>1, <2>2
<1>10. xp.pc # "movedir"
  BY Zenon
  DEF ScanSpace, ScanTrash, ListEntries, ListRemovedEntries, ListLive, ListRemoved,
      FinishRun, CheckEntry, VisitEntry, VisitRemoved
<1> QED
  BY <1>2, <1>3, <1>4, <1>5, <1>6, <1>7, <1>8, <1>9, <1>10, ReadingRecords

\* Nothing is stray: every listed directory that is left has its entry.
LEMMA VisitDirRecords ==
    ASSUME RunAlone, NEW path \in Path, VisitDir(path) PROVE Records'
<1>1. xp \in Fields /\ xp.pc = "stray" /\ path \in xp.paths /\ path[3] = Live
      /\ path = <<path[1], path[2], Live>> /\ path[1] \in Spaces /\ path[2] \in Ids
  BY RunKnows DEF VisitDir, ExpirerRecords, Path
<1>2. ASSUME path \in dirs PROVE <<path[2], Live>> \in xp.names
  <2>1. Names(<<path[2], Live>>, path[1])
    BY <1>1, <1>2, RunKnows DEF DirsOwned
  <2>2. <<path[2], Live>> \in LiveKeys
    BY <1>1, <2>1, LiveLabel, KeyInKey DEF LiveKeys, Names, Readable, Exists
  <2> QED
    BY <1>1, <2>2, RunKnows DEF ExpirerPlaces
<1>3. UNCHANGED <<entry, dirs, where>>
  BY <1>2 DEF VisitDir, CanRename
<1>4. ExpirerRecords'
  <2>1. xp'.pc = "stray" /\ \A x \in xp'.paths : x \in xp.paths
    BY <1>1 DEF VisitDir, Fields
  <2> QED
    BY <1>1, <2>1, RunKnows DEF ExpirerRecords
<1> QED
  BY <1>1, <1>3, <1>4, ReadingRecords

\* The steps that delete a removed directory.
LEMMA DeletionRecords ==
    ASSUME RunAlone, NEW path \in Path, NEW rest,
           VisitTrash(path, rest) \/ DeleteRemoved(rest)
    PROVE  Records'
<1>1. xp \in Fields /\ UNCHANGED entry /\ xp.pc # "movedir" /\ xp'.pc # "movedir"
  BY RunKnows DEF VisitTrash, DeleteRemoved, Fields
<1>2. \/ UNCHANGED <<dirs, where>>
      \/ \E x : RemoveTree(x, rest)
  BY DEF VisitTrash, DeleteRemoved, DelDir
<1>3. KeepsLive /\ KeepsRemoved /\ KeepsData
  <2>1. KeepsData
    BY <1>2, SameData, RemovedData DEF RunAlone
  <2> QED
    BY <1>1, <2>1 DEF KeepsLive, KeepsRemoved
<1>4. \A x \in dirs' : x \in dirs
  BY <1>2 DEF RemoveTree
<1>5. DirsOwned'
  BY <1>1, <1>4, RunKnows, DirsOwnedKept
<1>6. ExpirerRecords'
  <2>1. CASE VisitTrash(path, rest)
    <3>1. xp.pc = "trash" /\ xp'.pc = "trash" /\ xp'.names = xp.names
      BY <1>1, <2>1 DEF VisitTrash, Fields
    <3>2. RemovedKeys' = RemovedKeys
      BY <1>1 DEF RemovedKeys, Exists
    <3> QED
      BY <3>1, <3>2, RunKnows DEF ExpirerRecords
  <2>2. CASE DeleteRemoved(rest)
    <3>1. xp'.pc = "reap"
      BY <1>1, <2>2 DEF DeleteRemoved, Fields
    <3> QED
      BY <3>1 DEF ExpirerRecords
  <2> QED
    BY <2>1, <2>2
<1> QED
  BY <1>3, <1>5, <1>6, RunKnows, RunRecords, DataOwnedKept, LabelsPastKept

\* The removed name is later than all removals that left data: it is free.
LEMMA ExpireEntryRecords ==
    ASSUME RunAlone, ExpireEntry PROVE Records'
<1> DEFINE i == xp.job.key[1]
           e == xp.job.ent
           ts == xp.job.ts
<1>1. /\ xp \in Fields /\ xp.pc = "retire" /\ UNCHANGED <<now, dirs, where>>
      /\ xp.job \in Job
  BY RunKnows DEF ExpireEntry, RunAlone, TypeOK, ExpirerTypeOK
<1>2. xp.job.key = <<i, Live>> /\ i \in Ids /\ e \in Entry /\ ts \in Time
  BY <1>1, Paths, RunKnows DEF Job, ExpirerPlaces
<1>3. ts # Live /\ ts \in Label /\ <<i, Live>> \in Key /\ <<i, ts>> \in Key /\ EntryTypeOK
  <2>1. Live \in Label /\ ts \in Label /\ ts # Live
    BY <1>2, LiveLabel, LiveIsNoTime
  <2> QED
    BY <1>2, <2>1, KeyInKey, RunKnows
<1>4. /\ Readable(<<i, Live>>) /\ entry[<<i, Live>>].space = e.space
      /\ ts <= now
      /\ \A s \in Spaces, l \in Label : <<s, i, l>> \in Full => l < ts
  BY <1>1, <1>2, RunKnows DEF ExpirerRecords, Names
<1>5. RenameEntry(<<i, Live>>, <<i, ts>>) /\ xp' = [xp EXCEPT !.pc = "movedir"]
  BY <1>2, <1>4 DEF ExpireEntry, Readable, Exists
<1>6. /\ entry'[<<i, ts>>] = entry[<<i, Live>>]
      /\ \A k \in Key \ {<<i, Live>>, <<i, ts>>} : entry'[k] = entry[k]
  BY <1>3, <1>5 DEF RenameEntry, EntryTypeOK
<1>7. xp'.pc = "movedir" /\ xp'.job = xp.job
  BY <1>1, <1>5 DEF Fields
<1>8. KeepsLive /\ KeepsData /\ Full' = Full
  <2>1. KeepsLive
    BY <1>2, <1>3, <1>5, LiveLabel, RenameKeeps
  <2> QED
    BY <1>1, <2>1, SameData
<1>9. DirsOwned'
  <2> SUFFICES ASSUME NEW t \in Spaces, NEW j \in Ids, <<t, j, Live>> \in dirs
               PROVE  Names(<<j, Live>>, t)' \/ AtWork(t, j)'
    BY <1>1 DEF DirsOwned
  <2>1. Names(<<j, Live>>, t)
    BY <1>1, RunKnows DEF DirsOwned
  <2>2. CASE j = i
    BY <1>4, <1>7, <2>1, <2>2, RunKnows DEF Names
  <2>3. CASE j # i
    <3>1. <<j, Live>> \in Key \ {<<i, Live>>, <<i, ts>>}
      BY <2>3, LiveLabel, KeyInKey
    <3> QED
      BY <1>6, <2>1, <3>1 DEF Names, Readable
  <2> QED
    BY <2>2, <2>3
<1>10. DataOwned'
  <2> SUFFICES ASSUME NEW s \in Spaces, NEW j \in Ids, NEW l \in Label,
                      <<s, j, l>> \in Full, l # Live
               PROVE  Names(<<j, l>>, s)' \/ Lawful(<<j, l>>)'
    BY <1>8 DEF DataOwned
  <2>0. <<j, l>> \in Key /\ ts \in Nat
    BY <1>2, KeyInKey, LiveLabel
  <2>1. Names(<<j, l>>, s) \/ Lawful(<<j, l>>)
    BY RunKnows DEF DataOwned
  <2>2. CASE Lawful(<<j, l>>)
    BY <2>0, <2>2, RunKnows DEF Onward
  <2>3. CASE Names(<<j, l>>, s)
    <3>1. <<j, l>> # <<i, ts>>
      BY <1>4, <2>0
    <3> QED
      BY <1>6, <2>0, <2>3, <3>1 DEF Names, Readable
  <2> QED
    BY <2>1, <2>2, <2>3
<1>11. ExpirerRecords'
  BY <1>1, <1>4, <1>6, <1>7, <1>8 DEF ExpirerRecords, Names, Readable
<1> QED
  BY <1>8, <1>9, <1>10, <1>11, RunKnows, RunRecords, LabelsPastKept

\* So the rename of the directory does not fail, and the data follow.
LEMMA ExpireDirRecords ==
    ASSUME RunAlone, ExpireDir PROVE Records'
<1> DEFINE i == xp.job.key[1]
           ts == xp.job.ts
           from == <<xp.job.ent.space, i, Live>>
           to == <<xp.job.ent.space, i, ts>>
<1>1. /\ xp \in Fields /\ xp.pc = "movedir" /\ UNCHANGED <<now, entry>>
      /\ xp.job \in Job
  BY RunKnows DEF ExpireDir, RunAlone, TypeOK, ExpirerTypeOK
<1>2. xp.job.key = <<i, Live>> /\ i \in Ids /\ xp.job.ent \in Entry /\ ts \in Time
      /\ xp.job.ent.space \in Spaces
  BY <1>1, Paths, RunKnows DEF Job, ExpirerPlaces, Entry
<1>3. ts # Live /\ ts \in Label /\ ts \in Nat /\ from \in Path /\ to \in Path /\ from # to
  BY <1>2, LiveLabel, LiveIsNoTime, Paths
<1>4. /\ Names(<<i, ts>>, xp.job.ent.space) /\ ts <= now /\ ~Exists(<<i, Live>>)
      /\ \A s \in Spaces, l \in Label : <<s, i, l>> \in Full => l < ts
  BY <1>1, <1>2, RunKnows DEF ExpirerRecords, ExpirerPlaces
<1>5. Contents(to) = {}
  <2>1. to \notin Full
    BY <1>2, <1>3, <1>4
  <2> QED
    BY <1>3, <2>1 DEF Full, Contents
<1>6. \/ from \notin dirs /\ UNCHANGED <<dirs, where>>
      \/ MoveDir(from, to)
  BY <1>5 DEF ExpireDir, CanRename
<1>7. from \notin dirs' /\ \A x \in dirs' : x \in dirs \/ x = to
  BY <1>3, <1>6 DEF MoveDir
<1>8. \A x \in Full' : x \in Full \/ x = to
  BY <1>3, <1>6, SameData, MovedData
<1>9. DirsOwned'
  <2> SUFFICES ASSUME NEW t \in Spaces, NEW j \in Ids, <<t, j, Live>> \in dirs'
               PROVE  Names(<<j, Live>>, t)
    BY <1>1 DEF DirsOwned, Names, Readable
  <2>1. <<t, j, Live>> \in dirs /\ <<t, j, Live>> # from
    BY <1>3, <1>7
  <2> QED
    BY <2>1, RunKnows DEF DirsOwned
<1>10. DataOwned'
  <2> SUFFICES ASSUME NEW s \in Spaces, NEW j \in Ids, NEW l \in Label,
                      <<s, j, l>> \in Full', l # Live
               PROVE  Names(<<j, l>>, s) \/ Lawful(<<j, l>>)'
    BY <1>1 DEF DataOwned, Names, Readable
  <2>1. CASE <<s, j, l>> \in Full
    BY <2>1, KeyInKey, RunKnows DEF DataOwned, Onward
  <2>2. CASE <<s, j, l>> = to
    BY <1>4, <2>2
  <2> QED
    BY <1>8, <2>1, <2>2
<1>11. LabelsPast'
  <2> SUFFICES ASSUME NEW s \in Spaces, NEW j \in Ids, NEW l \in Label, <<s, j, l>> \in Full'
               PROVE  l <= now /\ (Readable(<<j, Live>>) => l <= entry[<<j, Live>>].exp)
    BY <1>1 DEF LabelsPast, Readable
  <2>1. CASE <<s, j, l>> \in Full
    BY <2>1, RunKnows DEF LabelsPast
  <2>2. CASE <<s, j, l>> = to
    BY <1>4, <2>2 DEF Readable, Exists
  <2> QED
    BY <1>8, <2>1, <2>2
<1>12. ExpirerRecords'
  <2>1. xp'.pc = "expire"
    BY <1>1 DEF ExpireDir, Fields
  <2> QED
    BY <2>1 DEF ExpirerRecords
<1> QED
  BY <1>9, <1>10, <1>11, <1>12, RunRecords

\* A removed entry goes away whose data may be deleted.
LEMMA UnlinkRemovedRecords ==
    ASSUME RunAlone, UnlinkRemoved PROVE Records'
<1> DEFINE key == xp.job.key
<1>1. /\ xp \in Fields /\ xp.pc = "unlink" /\ UNCHANGED <<now, dirs, where>>
      /\ xp.job \in Job
  BY RunKnows DEF UnlinkRemoved, RunAlone, TypeOK, ExpirerTypeOK
<1>2. key \in Key /\ key[2] # Live /\ Due(key[2], xp.job.ent)
  BY <1>1, RunKnows DEF Job, JobInv
<1>3. ASSUME Abort, UNCHANGED entry PROVE Records'
  <2>1. ExpirerRecords'
    BY <1>3 DEF Abort, Resting, ExpirerRecords
  <2> QED
    BY <1>1, <1>3, <2>1, ReadingRecords
<1>4. ASSUME UnlinkEntry(key), xp' = [xp EXCEPT !.pc = "deldir"] PROVE Records'
  <2>1. xp'.pc = "deldir" /\ xp'.job = xp.job
    BY <1>1, <1>4 DEF Fields
  <2>2. Lawful(key)'
    <3>1. CASE now > key[2] + KeepTime
      BY <1>2, <2>1, <3>1, RunKnows DEF Onward, Lawful
    <3>2. CASE xp.job.ent.rel # Live /\ now > xp.job.ent.rel + Grace
      <4>1. key \in reaped'
        BY <1>1, <1>2, <2>1, <3>2 DEF RunAlone, Observe
      <4>2. key \in (clobbered \cup waived \cup reaped)'
        BY <2>1, <4>1
      <4> QED
        BY <2>1, <4>2 DEF Lawful
    <3> QED
      BY <1>2, <3>1, <3>2 DEF Due
  <2>3. \A k \in Key : k # key => entry'[k] = entry[k]
    BY <1>4, RunKnows DEF UnlinkEntry, EntryTypeOK
  <2>4. \A j \in Ids : entry'[<<j, Live>>] = entry[<<j, Live>>]
    BY <1>2, <2>3, LiveLabel, KeyInKey
  <2>5. KeepsLive /\ KeepsData /\ Full' = Full
    BY <1>1, <2>4, SameData DEF KeepsLive
  <2>6. DirsOwned'
    BY <1>1, <2>4, RunKnows, DirsOwnedKept
  <2>7. DataOwned'
    <3> SUFFICES ASSUME NEW s \in Spaces, NEW j \in Ids, NEW l \in Label,
                        <<s, j, l>> \in Full, l # Live
                 PROVE  Names(<<j, l>>, s)' \/ Lawful(<<j, l>>)'
      BY <2>5 DEF DataOwned
    <3>0. <<j, l>> \in Key
      BY KeyInKey
    <3>1. Names(<<j, l>>, s) \/ Lawful(<<j, l>>)
      BY RunKnows DEF DataOwned
    <3>2. CASE Lawful(<<j, l>>)
      BY <3>0, <3>2, RunKnows DEF Onward
    <3>3. CASE <<j, l>> = key
      <4>1. Lawful(key)' => Lawful(<<j, l>>)'
        BY <2>1, <3>3 DEF Lawful
      <4> QED
        BY <2>2, <4>1
    <3>4. CASE Names(<<j, l>>, s) /\ <<j, l>> # key
      BY <2>3, <3>0, <3>4 DEF Names, Readable
    <3> QED
      BY <3>1, <3>2, <3>3, <3>4
  <2>8. ExpirerRecords'
    BY <2>1, <2>2 DEF ExpirerRecords
  <2> QED
    BY <2>5, <2>6, <2>7, <2>8, RunKnows, RunRecords, LabelsPastKept
<1> QED
  BY <1>3, <1>4 DEF UnlinkRemoved

LEMMA RunStepRecords ==
    ASSUME RunAlone, ContinueRun PROVE Records'
<1>1. ASSUME \/ \E s \in Spaces : ScanSpace(s) \/ ScanTrash(s)
             \/ ListEntries \/ ListRemovedEntries \/ ListLive \/ ListRemoved
             \/ FinishRun
             \/ \E k \in Key : CheckEntry(k) \/ VisitEntry(k) \/ VisitRemoved(k)
      PROVE  Records'
  <2>1. UNCHANGED <<entry, dirs, where>>
    BY <1>1 DEF ScanSpace, ScanTrash, ListEntries, CheckEntry, VisitEntry,
                VisitRemoved, ListRemovedEntries, ListLive, ListRemoved,
                FinishRun, storeVars
  <2> QED
    BY <1>1, <2>1, ListingRecords, Zenon
<1>2. ASSUME NEW rest, DeleteRemoved(rest) PROVE Records'
  <2>1. <<xp.job.ent.space, xp.job.key[1], Live>> \in Path
    BY <1>2, LiveLabel DEF DeleteRemoved, RunAlone, TypeOK, ExpirerTypeOK, Job,
                           Key, Entry, Path
  <2> QED
    BY <1>2, <2>1, DeletionRecords
<1>3. ASSUME NEW path \in Path, NEW rest, VisitTrash(path, rest) PROVE Records'
  BY <1>3, DeletionRecords
<1> QED
  BY <1>1, <1>2, <1>3, VisitDirRecords, ExpireEntryRecords, ExpireDirRecords,
     UnlinkRemovedRecords
  DEF ContinueRun

-----------------------------------------------------------------------------
(* The theorem                                                             *)

LEMMA FaultsGrow ==
    ASSUME TypeOK, Next
    PROVE  /\ faults' = 0 => faults = 0 /\ ~ToolCrashes /\ ~RunCrashes /\ ~DiskFails
           /\ faults = 0 \/ faults' # 0
<1>0. faults \in Nat
  BY DEF TypeOK, ToolTypeOK
<1>1. CASE ToolCrashes \/ RunCrashes \/ DiskFails
  <2>1. faults' = faults + 1
    BY <1>1 DEF ToolCrashes, Crash, RunCrashes, DiskFails, OpenFails, WriteFails
  <2> QED
    BY <1>0, <2>1
<1>2. CASE ~ToolCrashes /\ ~RunCrashes /\ ~DiskFails
  <2>1. ASSUME NEW p \in Procs, Launch(p) \/ Proceed(p) PROVE UNCHANGED faults
    BY <2>1 DEF Launch, Reuse, Allocate, ReadForExtend, ReadForRelease, ReadTarget,
                CheckRevivable, Start, Proceed, MakeDir, CreateEntry, UseExtension,
                MarkReleased, FinishWrite, RetireEntry, RetireDir, WipeData,
                ForgetEntry, ReadSource, Refill, UnlinkSource, ReviveEntry, PutBack,
                Continue
  <2>2. UNCHANGED faults
    BY <1>2, <2>1 DEF Next, ClockTicks, ToolStarts, ToolStep, JobStep, JobWrites,
                      RunStarts, RunStep, toolVars
  <2> QED
    BY <1>2, <2>2
<1> QED
  BY <1>1, <1>2

\* The clock and the jobs: data come to live directories only.
LEMMA OutsideRecords ==
    ASSUME TypeOK, Records, Onward, Observe, ClockTicks \/ JobStep PROVE Records'
<1>0. UNCHANGED <<entry, open, dirs, tool, xp>>
  BY DEF ClockTicks, Tick, JobStep, JobWrites, toolVars
<1>1. KeepsData
  <2>1. CASE ClockTicks
    BY <2>1, SameData DEF ClockTicks, Tick
  <2>2. CASE JobStep
    <3>1. PICK d \in Data, s \in Spaces, i \in Ids :
             where' = [where EXCEPT ![d] = <<s, i, Live>>]
      BY <2>2 DEF JobStep, JobWrites
    <3>2. ASSUME NEW x \in Full', x \notin Full PROVE x = <<s, i, Live>>
      BY <3>1, <3>2 DEF Full
    <3> QED
      BY <3>2 DEF KeepsData
  <2> QED
    BY <2>1, <2>2
<1>2. \A s \in Spaces, i \in Ids, l \in Label :
         <<s, i, l>> \in Full' => <<s, i, l>> \in Full \/ l = Live
  BY <1>1 DEF KeepsData
<1>3. DirsOwned' /\ DataOwned' /\ LabelsPast'
  <2>1. KeepsLive /\ KeepsRemoved
    BY <1>0 DEF KeepsLive, KeepsRemoved
  <2>2. \A s, i : AtWork(s, i)' <=> AtWork(s, i)
    BY <1>0 DEF AtWork
  <2> QED
    BY <1>0, <1>1, <2>1, <2>2, DirsOwnedKept, DataOwnedKept, LabelsPastKept DEF Records
<1>4. ASSUME NEW p \in Procs PROVE ToolRecords(p)'
  <2>0. ToolRecords(p) /\ tool[p] \in Process /\ WellFormed(tool[p])
        /\ waived \subseteq waived'
    BY DEF Records, TypeOK, ToolTypeOK, Observe
  <2>1. tool[p].ts <= now => tool[p].ts <= now'
    <3>1. tool[p].ts \in Label
      BY <2>0 DEF Process
    <3>2. tool[p].ts \in Nat
      BY <3>1, LiveLabel
    <3> QED
      BY <3>2 DEF Onward
  <2>2. ASSUME tool[p].pc \in {"extend", "write"}
        PROVE  \A s \in Spaces, l \in Label :
                  <<s, tool[p].id, l>> \in Full' => l <= tool[p].ent.exp
    <3>1. tool[p].id \in Ids /\ tool[p].ent.exp \in Nat
      BY <2>0, <2>2 DEF WellFormed, Entry
    <3>2. \A s \in Spaces, l \in Label :
             <<s, tool[p].id, l>> \in Full => l <= tool[p].ent.exp
      BY <2>0, <2>2 DEF ToolRecords
    <3> QED
      BY <1>2, <3>1, <3>2 DEF Live
  <2>3. ASSUME tool[p].pc = "unlink"
        PROVE  tool[p].ts # Live /\ <<tool[p].ent.space, tool[p].id, tool[p].ts>> \notin Full'
    <3>1. tool[p].id \in Ids /\ tool[p].ent.space \in Spaces /\ tool[p].ts \in Label
      BY <2>0, <2>3 DEF WellFormed, Process, Entry
    <3> QED
      BY <1>2, <2>0, <2>3, <3>1 DEF ToolRecords
  <2> QED
    BY <1>0, <2>0, <2>1, <2>2, <2>3 DEF ToolRecords, Exists, Names, Readable
<1>5. ExpirerRecords'
  <2>0. ExpirerRecords
    BY DEF Records
  <2>1. RemovedKeys' = RemovedKeys
    BY <1>0 DEF RemovedKeys, Exists
  <2>2. ASSUME xp.pc \in {"retire", "movedir"}
        PROVE  /\ xp.job.ts <= now'
               /\ \A s \in Spaces, l \in Label :
                     <<s, xp.job.key[1], l>> \in Full' => l < xp.job.ts
    <3>1. xp.job.ts \in Time /\ xp.job.ts \in Nat /\ xp.job.ts > 0 /\ xp.job.key[1] \in Ids
      BY <2>2, Paths DEF TypeOK, ExpirerTypeOK, Job, Time
    <3>2. /\ xp.job.ts <= now
          /\ \A s \in Spaces, l \in Label :
                <<s, xp.job.key[1], l>> \in Full => l < xp.job.ts
      BY <2>0, <2>2 DEF ExpirerRecords
    <3> QED
      BY <1>2, <3>1, <3>2 DEF Onward, Live
  <2>3. ASSUME xp.pc = "deldir" PROVE Lawful(xp.job.key)'
    <3>1. xp.job.key \in Key
      BY <2>3 DEF TypeOK, ExpirerTypeOK, Job
    <3> QED
      BY <1>0, <2>0, <2>3, <3>1 DEF ExpirerRecords, Onward, Lawful
  <2> QED
    BY <1>0, <2>0, <2>1, <2>2, <2>3 DEF ExpirerRecords, Names, Readable
<1> QED
  BY <1>3, <1>4, <1>5 DEF Records

\* The run begins with empty lists.
LEMMA RunStartRecords ==
    ASSUME TypeOK, Records, Onward, ToolsIdle, RunStarts PROVE Records'
<1>1. /\ UNCHANGED <<entry, dirs, where, tool>>
      /\ xp.pc = "idle" /\ xp'.pc = "scan" /\ xp'.paths = {}
  BY DEF RunStarts, StartRun, Resting, storeVars, toolVars
<1>2. KeepsLive /\ KeepsRemoved /\ KeepsData
  BY <1>1, SameData DEF KeepsLive, KeepsRemoved
<1>3. \A s, i : ~AtWork(s, i)
  BY <1>1 DEF AtWork, ToolsIdle, At
<1>4. \A p \in Procs : ToolRecords(p)'
  BY <1>1 DEF ToolRecords, ToolsIdle, At
<1>5. ExpirerRecords'
  BY <1>1 DEF ExpirerRecords
<1>6. DirsOwned'
  BY <1>1, <1>3, DirsOwnedKept DEF Records
<1> QED
  BY <1>2, <1>4, <1>5, <1>6, DataOwnedKept, LabelsPastKept DEF Records

LEMMA RecordsKept ==
    ASSUME UsersTurn, Quiet, TypeOK, RunInv, Budget, Places, RecordsHold, Next
    PROVE  RecordsHold'
<1> SUFFICES ASSUME faults' = 0 PROVE Records'
  BY DEF RecordsHold
<1>1. Records /\ ~ToolCrashes /\ ~RunCrashes /\ ~DiskFails /\ Onward /\ Observe
  BY FaultsGrow, NextOnward DEF RecordsHold, Next
<1>2. CASE ClockTicks \/ JobStep
  BY <1>1, <1>2, OutsideRecords
<1>3. CASE ToolStarts
  BY <1>1, <1>3, LaunchRecords DEF ToolStarts, AloneStep
<1>4. ASSUME NEW p \in Procs, ToolStep(p) PROVE Records'
  <2>1. tool[p].pc # "idle"
    BY <1>4 DEF ToolStep, Proceed, MakeDir, CreateEntry, UseExtension, MarkReleased,
                FinishWrite, RetireEntry, RetireDir, WipeData, ForgetEntry, ReadSource,
                Refill, UnlinkSource, ReviveEntry, PutBack, At
  <2> QED
    BY <1>1, <1>4, <2>1, ExpirerRests, ProceedRecords DEF ToolStep, AloneStep
<1>5. CASE RunStarts
  BY <1>1, <1>5, RunStartRecords DEF RunStarts
<1>6. CASE RunStep
  <2>1. ContinueRun /\ Running /\ UNCHANGED tool
    BY <1>6, RunStepRuns DEF RunStep, toolVars
  <2>2. RunAlone
    BY <1>1, <2>1, Zenon DEF RunAlone
  <2> QED
    BY <2>1, <2>2, RunStepRecords
<1> QED
  BY <1>1, <1>2, <1>3, <1>4, <1>5, <1>6 DEF Next

\* At a site that runs one user's tool at a time and the expirer between them,
\* and as long as nothing is killed and no write fails, ws_expirer deletes only
\* data that are due, that the user had deleted, or whose entry another removal had taken.
THEOREM DataRestorable == ASSUME UsersTurn, Quiet PROVE Spec => RestorableUntilDue
<1> DEFINE Lost(path) ==
              \/ now > path[3] + KeepTime
              \/ <<path[2], path[3]>> \in clobbered \cup waived \cup reaped
           Safe == RunActs /\ faults = 0 =>
                      \A d \in Data : where[d] # Gone /\ where'[d] = Gone => Lost(where[d])
<1>1. Init => RecordsHold
  <2> SUFFICES ASSUME Init PROVE Records
    BY DEF RecordsHold
  <2>1. dirs = {} /\ xp = Resting /\ \A p \in Procs : tool[p] = Idle
    BY DEF Init, StoreInit, ToolInit, ExpirerInit
  <2>2. Full = {}
    BY DEF Init, StoreInit, Full
  <2> QED
    BY <2>1, <2>2 DEF Records, DirsOwned, DataOwned, LabelsPast, ToolRecords, Idle,
                      ExpirerRecords, Resting
<1>2. ASSUME IInv, Budget, Places, RecordsHold, [Next]_vars PROVE RecordsHold'
  <2>1. CASE UNCHANGED vars
    <3>1. UNCHANGED <<now, entry, open, dirs, where, tool, xp, faults, clobbered,
                      waived, reaped>>
      BY <2>1 DEF vars, storeVars, toolVars, histVars
    <3>2. Full' = Full /\ RemovedKeys' = RemovedKeys
      BY <3>1, SameData DEF RemovedKeys, Exists
    <3>3. (\A s, i : AtWork(s, i)' <=> AtWork(s, i)) /\ ExpirerRecords' = ExpirerRecords
          /\ (\A p : ToolRecords(p)' <=> ToolRecords(p))
      BY <3>1, <3>2 DEF AtWork, ExpirerRecords, ToolRecords, Names, Readable, Exists, Lawful
    <3> QED
      BY <1>2, <3>1, <3>2, <3>3
      DEF RecordsHold, Records, DirsOwned, DataOwned, LabelsPast, Names, Readable, Lawful
  <2> QED
    BY <1>2, <2>1, RecordsKept DEF IInv
<1>3. ASSUME IInv, RecordsHold, Places, Next PROVE Safe
  <2> SUFFICES ASSUME RunActs, faults = 0, NEW d \in Data, where[d] # Gone,
                      where'[d] = Gone
               PROVE  Lost(where[d])
    OBVIOUS
  <2>0. Records
    BY <1>3 DEF RecordsHold
  <2>1. CASE /\ xp.pc = "deldir"
             /\ where[d] = <<xp.job.ent.space, xp.job.key[1], xp.job.key[2]>>
    <3>1. xp.job.key \in Key
      BY <1>3, <2>1 DEF IInv, TypeOK, ExpirerTypeOK, Job
    <3> QED
      BY <2>0, <2>1, <3>1, Paths DEF Records, ExpirerRecords, Lawful
  <2>2. ASSUME NEW rest \in SUBSET Data, VisitTrash(where[d], rest),
               <<where[d][2], where[d][3]>> \notin xp.names
        PROVE  Lost(where[d])
    <3> DEFINE key == <<where[d][2], where[d][3]>>
    <3>1. xp.pc = "trash" /\ where[d] \in xp.paths
      BY <2>2 DEF VisitTrash
    <3>2. where[d] \in Path /\ where[d][3] # Live
      BY <1>3, <3>1 DEF IInv, TypeOK, ExpirerTypeOK, RunInv, ListInv
    <3>3. where[d] = <<where[d][1], where[d][2], where[d][3]>> /\ where[d] \in Full
          /\ where[d][1] \in Spaces /\ where[d][2] \in Ids /\ where[d][3] \in Label
      BY <3>2 DEF Path, Full
    <3>4. ~Exists(key)
      BY <2>0, <2>2, <3>1, <3>2, <3>3, KeyInKey DEF Records, ExpirerRecords, RemovedKeys
    <3>5. Lawful(key)
      BY <2>0, <3>2, <3>3, <3>4 DEF Records, DataOwned, Names, Readable, Exists
    <3> QED
      BY <3>5 DEF Lawful
  <2> QED
    BY <1>3, <2>1, <2>2, OnlyDelDirDeletes DEF IInv
<1>4. IInv /\ Budget /\ Places /\ RecordsHold /\ [Next]_vars => RecordsHold'
  BY <1>2
<1>5. IInv /\ RecordsHold /\ Places /\ [Next]_vars => [Safe]_vars
  BY <1>3
<1> QED
  BY <1>1, <1>4, <1>5, Inductive, BudgetInductive, PlacesInductive, PTL
  DEF Spec, RestorableUntilDue

-----------------------------------------------------------------------------
(* What the repository says, where it is true                              *)

\* The lists of a run that has the site for itself are complete until they are
\* used, however many tools run between the runs.
ListsCurrent ==
    /\ Running => ToolsIdle
    /\ xp.pc \in {"check", "stray"} => LiveKeys \subseteq xp.names
    /\ xp.pc = "trash" => RemovedKeys \subseteq xp.names

\* Only the later phases of a run change entries.
LEMMA PhaseOneReads ==
    ASSUME xp \in Fields, ContinueRun
    PROVE  UNCHANGED entry \/ xp'.pc \notin {"check", "stray", "trash"}
<1>1. CASE ExpireEntry
  BY <1>1 DEF ExpireEntry, Abort, Resting, Fields
<1>2. CASE UnlinkRemoved
  BY <1>2 DEF UnlinkRemoved, Abort, Resting, Fields
<1>3. CASE ~ExpireEntry /\ ~UnlinkRemoved
  BY <1>3 DEF ContinueRun, ScanSpace, ScanTrash, ListEntries, CheckEntry, VisitEntry,
              VisitRemoved, VisitDir, ListRemovedEntries, VisitTrash, ListLive,
              ExpireDir, ListRemoved, DeleteRemoved, FinishRun, storeVars
<1> QED
  BY <1>1, <1>2, <1>3

LEMMA RunListsCurrent ==
    ASSUME TypeOK, ListsCurrent, ContinueRun, UNCHANGED tool
    PROVE  ListsCurrent'
<1>1. Running /\ xp \in Fields
  BY RunStepRuns DEF TypeOK, ExpirerTypeOK, Fields
<1>2. ToolsIdle'
  BY <1>1 DEF ListsCurrent, ToolsIdle, At
<1>3. CASE xp'.pc \in {"check", "stray", "trash"}
  <2>1. LiveKeys' = LiveKeys /\ RemovedKeys' = RemovedKeys
    BY <1>1, <1>3, PhaseOneReads DEF LiveKeys, RemovedKeys, Exists
  <2>2. \/ xp'.pc \in {"check", "stray"} /\ xp'.names = LiveKeys
        \/ xp'.pc = "trash" /\ xp'.names = RemovedKeys
        \/ /\ xp'.names = xp.names
           /\ \/ xp'.pc = xp.pc
              \/ xp'.pc = "stray" /\ xp.pc = "check"
    <3>1. CASE ListEntries \/ ListRemovedEntries
      BY <1>1, <3>1 DEF ListEntries, ListRemovedEntries, Fields
    <3>2. ASSUME NEW s \in Spaces, ScanSpace(s) \/ ScanTrash(s)
          PROVE  xp'.names = xp.names /\ xp'.pc = xp.pc
      BY <1>1, <3>2 DEF ScanSpace, ScanTrash, Fields
    <3>3. ASSUME NEW k \in Key, CheckEntry(k)
          PROVE  /\ xp'.names = xp.names
                 /\ (xp'.pc = xp.pc) \/ (xp'.pc = "stray" /\ xp.pc = "check")
      <4>1. ~Abort
        BY <1>3 DEF Abort, Resting
      <4>2. xp' = [xp EXCEPT !.todo = @ \ {k},
                             !.pc = IF xp.todo = {k} THEN "stray" ELSE "check"]
            /\ xp.pc = "check"
        BY <3>3, <4>1 DEF CheckEntry
      <4> QED
        BY <1>1, <4>2 DEF Fields
    <3>4. ASSUME NEW path, NEW rest, VisitDir(path) \/ VisitTrash(path, rest)
          PROVE  xp'.names = xp.names /\ xp'.pc = xp.pc
      BY <1>1, <3>4 DEF VisitDir, VisitTrash, Fields
    <3>5. ASSUME NEW k \in Key, VisitEntry(k) PROVE FALSE
      BY <1>1, <1>3, <3>5 DEF VisitEntry, Fields
    <3>6. ASSUME NEW k \in Key, VisitRemoved(k) PROVE FALSE
      BY <1>1, <1>3, <3>6 DEF VisitRemoved, Fields
    <3>7. ~Abort
      BY <1>3 DEF Abort, Resting
    <3>8. ASSUME \/ ListLive \/ ListRemoved \/ ExpireEntry \/ ExpireDir \/ UnlinkRemoved
                 \/ \E rest \in SUBSET Data : DeleteRemoved(rest)
          PROVE  xp'.pc \in {"expire", "reap", "movedir", "deldir"}
      <4>1. ListLive => xp'.pc = "expire"
        BY DEF ListLive, Resting
      <4>2. ListRemoved => xp'.pc = "reap"
        BY <1>1 DEF ListRemoved, Fields
      <4>3. ExpireEntry => xp'.pc = "movedir"
        BY <1>1, <3>7 DEF ExpireEntry, Fields
      <4>4. ExpireDir => xp'.pc = "expire"
        BY <1>1 DEF ExpireDir, Fields
      <4>5. UnlinkRemoved => xp'.pc = "deldir"
        BY <1>1, <3>7 DEF UnlinkRemoved, Fields
      <4>6. ASSUME NEW rest, DeleteRemoved(rest) PROVE xp'.pc = "reap"
        BY <1>1, <4>6 DEF DeleteRemoved, Fields
      <4> QED
        BY <3>8, <4>1, <4>2, <4>3, <4>4, <4>5, <4>6
    <3>9. ~FinishRun
      BY <3>7 DEF FinishRun
    <3> QED
      BY <3>1, <3>2, <3>3, <3>4, <3>5, <3>6, <3>8, <3>9, <1>3 DEF ContinueRun
  <2> QED
    BY <1>2, <1>3, <2>1, <2>2 DEF ListsCurrent
<1>4. CASE xp'.pc \notin {"check", "stray", "trash"}
  BY <1>2, <1>4 DEF ListsCurrent
<1> QED
  BY <1>3, <1>4

LEMMA ListsInductive == ASSUME Quiet PROVE Spec => []ListsCurrent
<1>1. Init => ListsCurrent
  BY DEF Init, ExpirerInit, Resting, ListsCurrent, Running
<1>2. ASSUME TypeOK, ListsCurrent, [Next]_vars PROVE ListsCurrent'
  <2>1. CASE UNCHANGED vars
    BY <1>2, <2>1 DEF ListsCurrent, Running, ToolsIdle, At, LiveKeys, RemovedKeys, Exists,
                      vars, storeVars, toolVars
  <2>2. CASE ClockTicks \/ JobStep
    BY <1>2, <2>2 DEF ClockTicks, Tick, JobStep, JobWrites, toolVars, ListsCurrent,
                      Running, ToolsIdle, At, LiveKeys, RemovedKeys, Exists
  <2>3. ASSUME UNCHANGED xp, xp.pc = "idle" PROVE ListsCurrent'
    BY <2>3 DEF ListsCurrent, Running
  <2>4. CASE ToolStarts
    BY <2>3, <2>4 DEF ToolStarts, Running
  <2>5. CASE ToolCrashes \/ DiskFails \/ \E p \in Procs : ToolStep(p)
    <3>1. ~ToolsIdle /\ UNCHANGED xp
      BY <2>5 DEF ToolCrashes, Crash, DiskFails, OpenFails, WriteFails, ToolStep, Proceed,
                  MakeDir, CreateEntry, UseExtension, MarkReleased, FinishWrite, RetireEntry, RetireDir,
                  WipeData, ForgetEntry, ReadSource, Refill, UnlinkSource, ReviveEntry,
                  PutBack, ToolsIdle, At
    <3> QED
      BY <1>2, <2>3, <3>1 DEF ListsCurrent, Running
  <2>6. CASE RunStarts
    BY <2>6 DEF RunStarts, StartRun, Resting, toolVars, ListsCurrent, ToolsIdle, At
  <2>7. CASE RunStep
    BY <1>2, <2>7, RunListsCurrent DEF RunStep, toolVars
  <2>8. CASE RunCrashes
    BY <2>8 DEF RunCrashes, Abort, Resting, ListsCurrent, Running
  <2> QED
    BY <1>2, <2>1, <2>2, <2>4, <2>5, <2>6, <2>7, <2>8 DEF Next
<1> QED
  BY <1>1, <1>2, TypeCorrect, PTL DEF Spec

\* "entries created during this run of expirer will be ignored" is true when no
\* tool runs during a run, for any number of processes and also with the
\* administrator's ws_restore and with kills.
THEOREM EntriesAreIgnored == ASSUME Quiet PROVE Spec => NewEntriesIgnored
<1> DEFINE Safe == xp.pc = "stray" /\ RunActs =>
                      \A path \in dirs \ dirs' : ~Exists(<<path[2], Live>>)
<1>1. ASSUME IInv, ListsCurrent, Next PROVE Safe
  <2> SUFFICES ASSUME xp.pc = "stray", RunActs, NEW path \in dirs \ dirs'
               PROVE  ~Exists(<<path[2], Live>>)
    OBVIOUS
  <2>1. VisitDir(path)
    BY <1>1, RunActsIn
    DEF RunStarts, RunStep, RunCrashes, ContinueRun, StartRun, storeVars,
        ScanSpace, ScanTrash, ListEntries, CheckEntry, VisitEntry, VisitRemoved,
        VisitDir, MoveDir, ListRemovedEntries, VisitTrash, ListLive,
        ExpireEntry, ExpireDir, ListRemoved, UnlinkRemoved, DeleteRemoved,
        FinishRun
  <2>2. <<path[2], Live>> \notin xp.names
    BY <2>1 DEF VisitDir
  <2>3. path \in Path
    BY <1>1 DEF IInv, TypeOK, StoreTypeOK
  <2>4. <<path[2], Live>> \in Key
    BY <2>3, LiveLabel DEF Path, Key
  <2> QED
    BY <1>1, <2>2, <2>4 DEF ListsCurrent, LiveKeys
<1>2. IInv /\ ListsCurrent /\ [Next]_vars => [Safe]_vars
  BY <1>1
<1> QED
  BY <1>2, Inductive, ListsInductive, PTL DEF Spec, NewEntriesIgnored

\* "ws_release moves DB entry first, workspace second, should be race free" is
\* true when no tool runs during a run; the run release_race shows what a release
\* between the two listings loses otherwise.
THEOREM ReleaseIsRaceFree == ASSUME Quiet PROVE Spec => ReleaseRaceFree
<1> DEFINE Safe == xp.pc = "trash" /\ RunActs =>
                      \A path \in dirs \ dirs' : ~Exists(<<path[2], path[3]>>)
<1>1. ASSUME IInv, ListsCurrent, Next PROVE Safe
  <2> SUFFICES ASSUME xp.pc = "trash", RunActs, NEW path \in dirs \ dirs'
               PROVE  ~Exists(<<path[2], path[3]>>)
    OBVIOUS
  <2>1. PICK x \in Path, rest \in SUBSET Data : VisitTrash(x, rest)
    BY <1>1, RunActsIn
    DEF RunStarts, RunStep, RunCrashes, ContinueRun, StartRun, storeVars,
        ScanSpace, ScanTrash, ListEntries, CheckEntry, VisitEntry, VisitRemoved,
        VisitDir, ListRemovedEntries, ListLive,
        ExpireEntry, ExpireDir, ListRemoved, UnlinkRemoved, DeleteRemoved,
        FinishRun
  <2>2. path = x /\ path \in xp.paths /\ <<path[2], path[3]>> \notin xp.names
    BY <2>1 DEF VisitTrash, DelDir, RemoveTree
  <2>3. path \in Path /\ path[3] # Live
    BY <1>1, <2>2 DEF IInv, TypeOK, StoreTypeOK, RunInv, ListInv
  <2>4. <<path[2], path[3]>> \in Key
    BY <2>3 DEF Path, Key
  <2> QED
    BY <1>1, <2>2, <2>3, <2>4 DEF ListsCurrent, RemovedKeys
<1>2. IInv /\ ListsCurrent /\ [Next]_vars => [Safe]_vars
  BY <1>1
<1> QED
  BY <1>2, Inductive, ListsInductive, PTL DEF Spec, ReleaseRaceFree

\* What the administrator's ws_restore has found missing stays missing, as long as
\* no other tool runs.
StillFree == \A p \in Procs : At(p, "revive") => ~Exists(<<tool[p].id, Live>>)

\* The expirer renames to removed names only.
LEMMA NoLiveAppears ==
    ASSUME TypeOK, ContinueRun, NEW i \in Ids, ~Exists(<<i, Live>>)
    PROVE  ~Exists(<<i, Live>>)'
<1>0. entry \in [Key -> Entry \cup {Empty, None}] /\ <<i, Live>> \in Key
  BY LiveLabel, KeyInKey DEF TypeOK, StoreTypeOK
<1>1. CASE ExpireEntry
  <2>1. xp.job.ts # Live
    BY <1>1, LiveIsNoTime DEF ExpireEntry, TypeOK, ExpirerTypeOK, Job
  <2> QED
    BY <1>0, <1>1, <2>1 DEF ExpireEntry, RenameEntry, Exists
<1>2. CASE UnlinkRemoved
  BY <1>0, <1>2 DEF UnlinkRemoved, UnlinkEntry, Exists
<1>3. CASE ~ExpireEntry /\ ~UnlinkRemoved
  <2>1. UNCHANGED entry
    BY <1>3 DEF ContinueRun, ScanSpace, ScanTrash, ListEntries, CheckEntry,
                VisitEntry, VisitRemoved, VisitDir, ListRemovedEntries, VisitTrash,
                ListLive, ExpireDir, ListRemoved, DeleteRemoved, FinishRun, storeVars
  <2> QED
    BY <2>1 DEF Exists
<1> QED
  BY <1>1, <1>2, <1>3

\* Only the start of the administrator's ws_restore leads to its renaming step.
LEMMA NewToolPc ==
    ASSUME NEW p \in Procs, NEW i \in Ids,
           \/ Allocate(p, i)
           \/ ReadForExtend(p, i)
           \/ \E op \in {"release", "wipe"} : ReadForRelease(p, i, op)
           \/ \E t \in Time, target \in Ids : ReadTarget(p, i, t, target)
    PROVE  \E r : Become(p, r) /\ r.pc \in {"mkdir", "extend", "mark", "lookup"}
<1>1. CASE Allocate(p, i)
  <2>1. [Idle EXCEPT !.pc = "mkdir", !.op = "allocate", !.id = i].pc = "mkdir"
    BY DEF Idle
  <2> QED
    BY <1>1, <2>1 DEF Allocate
<1>2. CASE ReadForExtend(p, i)
  <2>1. [Idle EXCEPT !.pc = "extend", !.op = "extend", !.id = i,
            !.ent = [entry[<<i, Live>>] EXCEPT !.rel = Live]].pc = "extend"
    BY DEF Idle
  <2> QED
    BY <1>2, <2>1 DEF ReadForExtend
<1>3. ASSUME NEW op, ReadForRelease(p, i, op)
      PROVE  \E r : Become(p, r) /\ r.pc = "mark"
  <2>1. [Idle EXCEPT !.pc = "mark", !.op = op, !.id = i, !.ts = now,
            !.ent = entry[<<i, Live>>]].pc = "mark"
    BY DEF Idle
  <2> QED
    BY <1>3, <2>1 DEF ReadForRelease
<1>4. ASSUME NEW t, NEW target, ReadTarget(p, i, t, target)
      PROVE  \E r : Become(p, r) /\ r.pc = "lookup"
  <2>1. [Idle EXCEPT !.pc = "lookup", !.op = "restore", !.id = i, !.ts = t,
            !.to = <<entry[<<target, Live>>].space, target, Live>>].pc = "lookup"
    BY DEF Idle
  <2> QED
    BY <1>4, <2>1 DEF ReadTarget
<1> QED
  BY <1>1, <1>2, <1>3, <1>4

LEMMA NoneRevives ==
    ASSUME tool \in [Procs -> Process], NEW p \in Procs, Proceed(p)
    PROVE  tool'[p].pc # "revive"
<1>1. ASSUME NEW pc \in ToolPc, Goto(p, pc) PROVE tool'[p].pc = pc
  BY <1>1 DEF Goto, Become, Process
<1>2. ASSUME Exit(p) PROVE tool'[p].pc = "idle"
  BY <1>2 DEF Exit, Become, Idle
<1>3. ASSUME NEW s \in Spaces, MakeDir(p, s) PROVE tool'[p].pc = "create"
  BY <1>3 DEF MakeDir, Become, Process
<1>4. ASSUME NEW duration, CreateEntry(p, duration) PROVE tool'[p].pc = "write"
  BY <1>4 DEF CreateEntry, Become, Process
<1>5. ASSUME NEW duration, UseExtension(p, duration)
      PROVE  tool'[p].pc \in {"idle", "write"}
  <2>1. CASE Exit(p)
    BY <1>2, <2>1
  <2>2. CASE ~Exit(p)
    BY <1>5, <2>2 DEF UseExtension, Become, Process
  <2> QED
    BY <2>1, <2>2
<1>6. ASSUME MarkReleased(p) PROVE tool'[p].pc = "write"
  BY <1>6 DEF MarkReleased, Become, Process
<1>7. ASSUME NEW rest, WipeData(p, rest) PROVE tool'[p].pc \in {"wipe", "forget"}
  BY <1>1, <1>7 DEF WipeData, ToolPc, At
<1>8. ASSUME ReadSource(p) PROVE tool'[p].pc \in {"idle", "refill"}
  <2>1. CASE Exit(p)
    BY <1>2, <2>1
  <2>2. CASE ~Exit(p)
    BY <1>8, <2>2 DEF ReadSource, Become, Process
  <2> QED
    BY <2>1, <2>2
<1>9. ASSUME \/ FinishWrite(p) \/ RetireEntry(p) \/ RetireDir(p) \/ ForgetEntry(p)
             \/ Refill(p) \/ UnlinkSource(p) \/ ReviveEntry(p) \/ PutBack(p)
      PROVE  Exit(p) \/ \E pc \in {"retire", "movedir", "wipe", "unlink", "putback"} : Goto(p, pc)
  BY <1>9 DEF FinishWrite, RetireEntry, RetireDir, ForgetEntry, Refill, UnlinkSource,
              ReviveEntry, PutBack
<1> QED
  BY <1>1, <1>2, <1>3, <1>4, <1>5, <1>6, <1>7, <1>8, <1>9 DEF Proceed, ToolPc

\* "workspace with same name exists, resolve it by hand!" is true of one process
\* at a time: whatever the expirer does in between, there is no entry to replace.
THEOREM NothingIsReplaced ==
    ASSUME \A p, q \in Procs : p = q PROVE Spec => NothingReplaced
<1> DEFINE Safe == \A p \in Procs : At(p, "revive") /\ tool'[p].pc = "putback" =>
                      ~Exists(<<tool[p].id, Live>>)
<1>1. Init => StillFree
  BY DEF Init, ToolInit, Idle, StillFree, At
<1>2. ASSUME TypeOK, StillFree, [Next]_vars PROVE StillFree'
  <2> SUFFICES ASSUME NEW p \in Procs, At(p, "revive")'
               PROVE  ~Exists(<<tool[p].id, Live>>)'
    BY DEF StillFree
  <2>0. tool \in [Procs -> Process] /\ WellFormed(tool[p]) /\ \A q \in Procs : q = p
    BY <1>2 DEF TypeOK, ToolTypeOK
  <2>1. ASSUME UNCHANGED tool PROVE At(p, "revive") /\ ~Exists(<<tool[p].id, Live>>)
    BY <1>2, <2>1 DEF At, StillFree
  <2>2. ASSUME UNCHANGED <<entry, tool>> PROVE ~Exists(<<tool[p].id, Live>>)'
    BY <2>1, <2>2 DEF Exists
  <2>3. ASSUME NEW r, Become(p, r) PROVE r.pc = "revive" /\ r = tool'[p]
    BY <2>0, <2>3 DEF Become, At
  <2>4. CASE UNCHANGED vars \/ ClockTicks \/ JobStep \/ RunStarts \/ RunCrashes
    BY <2>2, <2>4 DEF vars, ClockTicks, Tick, JobStep, JobWrites, RunStarts, StartRun,
                      RunCrashes, storeVars, toolVars
  <2>5. CASE ToolStarts
    <3>1. PICK i \in Ids :
             \/ Reuse(p, i)
             \/ Allocate(p, i)
             \/ ReadForExtend(p, i)
             \/ \E op \in {"release", "wipe"} : ReadForRelease(p, i, op)
             \/ \E t \in Time : \/ \E target \in Ids : ReadTarget(p, i, t, target)
                                \/ CheckRevivable(p, i, t)
      BY <2>0, <2>5 DEF ToolStarts, Launch
    <3>2. CASE Reuse(p, i)
      BY <2>2, <3>2 DEF Reuse, storeVars
    <3>3. ASSUME \/ Allocate(p, i)
                 \/ ReadForExtend(p, i)
                 \/ \E op \in {"release", "wipe"} : ReadForRelease(p, i, op)
                 \/ \E t \in Time, target \in Ids : ReadTarget(p, i, t, target)
          PROVE  FALSE
      <4>1. PICK r : Become(p, r) /\ r.pc \in {"mkdir", "extend", "mark", "lookup"}
        BY <3>3, NewToolPc
      <4> QED
        BY <2>3, <4>1
    <3>4. ASSUME NEW t \in Time, CheckRevivable(p, i, t)
          PROVE  ~Exists(<<tool[p].id, Live>>)'
      <4>1. ~Exists(<<i, Live>>) /\ UNCHANGED entry
        BY <3>4 DEF CheckRevivable, storeVars
      <4>2. tool'[p].id = i
        BY <2>0, <3>4 DEF CheckRevivable, Become, Idle
      <4> QED
        BY <4>1, <4>2 DEF Exists
    <3> QED
      BY <3>1, <3>2, <3>3, <3>4
  <2>6. CASE (\E q \in Procs : ToolStep(q)) \/ ToolCrashes
    <3>1. Proceed(p) \/ Crash(p)
      BY <2>0, <2>6 DEF ToolStep, ToolCrashes
    <3>2. ~Crash(p)
      BY <2>3 DEF Crash, Exit, Idle
    <3>3. FALSE
      BY <2>0, <2>3, <3>1, <3>2, NoneRevives DEF At
    <3> QED
      BY <3>3
  <2>7. CASE RunStep
    <3>1. ContinueRun /\ UNCHANGED tool
      BY <2>7 DEF RunStep, toolVars
    <3>2. tool[p].id \in Ids /\ ~Exists(<<tool[p].id, Live>>)
      BY <2>0, <2>1, <3>1 DEF At, WellFormed
    <3>3. entry'[<<tool[p].id, Live>>] = None /\ tool'[p].id = tool[p].id
      BY <1>2, <3>1, <3>2, NoLiveAppears DEF Exists
    <3> QED
      BY <3>3 DEF Exists
  <2>8. CASE DiskFails
    <3>1. OpenFails(p) \/ WriteFails(p)
      BY <2>0, <2>8 DEF DiskFails
    <3>2. tool'[p].pc = "write"
      BY <2>0, <3>1 DEF OpenFails, WriteFails, Goto, Become, At, Process
    <3> QED
      BY <3>2 DEF At
  <2> QED
    BY <1>2, <2>4, <2>5, <2>6, <2>7, <2>8 DEF Next
<1>3. StillFree => Safe
  BY DEF StillFree
<1> QED
  BY <1>1, <1>2, <1>3, TypeCorrect, PTL DEF Spec, NothingReplaced
=============================================================================
