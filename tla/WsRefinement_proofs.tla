------------------------ MODULE WsRefinement_proofs ------------------------
(***************************************************************************)
(* The tools and the expirer implement WsLife, step by step, wherever one  *)
(* process runs at a time and the expirer runs between the tools: for any  *)
(* number of names, spaces, data, calls, kills and failed writes, and with the            *)
(* administrator's ws_restore among the tools.                             *)
(***************************************************************************)
EXTENDS WsRefinement, WsQuiet_proofs

\* One tool runs at a time, and the expirer runs between the tools.
OneAtATime == (\A p, q \in Procs : p = q) /\ Quiet

-----------------------------------------------------------------------------
(* The invariant: what the copy of an entry still says of the stores       *)

\* A tool knows the entry it is at work on, and has an open file only while it
\* writes.
ToolFollows(p) ==
    /\ open[p] # None => tool[p].pc = "write"
    /\ tool[p].pc = "write" /\ open[p] # None =>
          open[p] = <<tool[p].id, Live>> /\ entry[<<tool[p].id, Live>>] = Empty
    /\ tool[p].pc \in {"mkdir", "create", "movedir", "revive"} =>
          entry[<<tool[p].id, Live>>] = None
    /\ tool[p].pc = "create" => tool[p].ent.ext = MaxExt /\ tool[p].ent.rel = Live
    /\ tool[p].pc = "extend" =>
          /\ Readable(<<tool[p].id, Live>>)
          /\ tool[p].ent = [entry[<<tool[p].id, Live>>] EXCEPT !.rel = Live]
    /\ tool[p].pc \in {"mark", "putback"} => entry[<<tool[p].id, Live>>] = tool[p].ent
    /\ tool[p].pc \in {"refill", "unlink", "revive"} =>
          entry[<<tool[p].id, tool[p].ts>>] = tool[p].ent
    /\ tool[p].pc = "putback" => entry[<<tool[p].id, tool[p].ts>>] = None
    /\ tool[p].pc \in {"lookup", "refill"} =>
          tool[p].to[3] = Live /\ Names(<<tool[p].to[2], Live>>, tool[p].to[1])
    /\ tool[p].pc \in {"lookup", "refill", "unlink", "revive", "putback"} =>
          tool[p].ts # Live
    /\ tool[p].pc = "unlink" => <<tool[p].ent.space, tool[p].id, tool[p].ts>> \notin Full

\* Process p ends a workspace, and has written that down or failed to.
Releases(p) == \/ tool[p].pc \in {"retire", "movedir", "wipe", "forget"}
               \/ tool[p].pc = "write" /\ tool[p].op \in {"release", "wipe"}

\* A release that is not written down is known to have failed.
Marked(p) == tool[p].ent.rel # Live \/ <<tool[p].id, tool[p].ts>> \in unmarked

\* What a release has written and read; a failed write has left its entry empty.
ReleaseFollows(p) ==
    /\ tool[p].pc \in {"mkdir", "create", "extend"} => tool[p].op \notin {"release", "wipe"}
    /\ tool[p].pc = "mark" => tool[p].ts \in Time /\ tool[p].ts <= now
    /\ Releases(p) => Marked(p)
    /\ Releases(p) /\ tool[p].pc \in {"write", "retire"} => tool[p].ts <= now
    /\ Releases(p) /\ tool[p].pc \in {"write", "retire"} /\ open[p] = None =>
          entry[<<tool[p].id, Live>>] \in {tool[p].ent, Empty}
    /\ tool[p].pc \in {"movedir", "wipe", "forget"} =>
          entry[<<tool[p].id, tool[p].ts>>] \in {tool[p].ent, Empty}

\* The expirer has the site for itself: its lists and its job are current.
ExpirerFollows ==
    /\ Running => ToolsIdle
    /\ xp.pc \in {"check", "stray"} => LiveKeys \subseteq xp.names
    /\ xp.pc \in {"scan", "check", "stray"} => \A x \in xp.paths : x[3] = Live
    /\ xp.pc = "trash" => RemovedKeys \subseteq xp.names
    /\ xp.pc \in {"retire", "movedir"} => xp.job.key[2] = Live
    /\ xp.pc \in {"retire", "unlink"} => entry[xp.job.key] = xp.job.ent
    /\ xp.pc = "retire" => now > xp.job.ent.exp /\ xp.job.ts <= now
    /\ xp.pc \in {"movedir", "deldir"} => entry[xp.job.key] = None
    /\ xp.pc = "movedir" => entry[<<xp.job.key[1], xp.job.ts>>] = xp.job.ent

Follows == /\ Full \subseteq dirs
           /\ \A p \in Procs : ToolFollows(p) /\ ReleaseFollows(p)
           /\ ExpirerFollows

-----------------------------------------------------------------------------
(* The steps of the only process keep it                                   *)

\* A step of the only process, while the expirer rests.
Turn == /\ OneAtATime /\ TypeOK /\ Follows /\ ~Running /\ UNCHANGED <<xp, now>>
        /\ Observe

LEMMA TurnKnows ==
    ASSUME Turn, NEW p \in Procs
    PROVE  /\ tool \in [Procs -> Process] /\ tool[p] \in Process /\ WellFormed(tool[p])
           /\ EntryTypeOK /\ DirTypeOK /\ now \in Nat /\ now' = now
           /\ \A q \in Procs : q = p
           /\ ToolFollows(p) /\ ReleaseFollows(p) /\ Full \subseteq dirs
           /\ xp.pc = "idle" /\ xp'.pc = "idle" /\ unmarked \subseteq unmarked'
BY StoreTypes, LiveLabel DEF Turn, TypeOK, ToolTypeOK, OneAtATime, Follows, Running, Observe

\* It suffices to look at the process and the directories.
LEMMA TurnFollows ==
    ASSUME Turn, NEW p \in Procs, (Full \subseteq dirs)', ToolFollows(p)',
           ReleaseFollows(p)'
    PROVE  Follows'
<1>1. ExpirerFollows'
  BY TurnKnows DEF ExpirerFollows, Running
<1> QED
  BY <1>1, TurnKnows DEF Follows

LEMMA SameFull == ASSUME Full \subseteq dirs, UNCHANGED where, dirs \subseteq dirs'
                  PROVE  (Full \subseteq dirs)'
BY SameData

LEMMA MovedFull ==
    ASSUME Full \subseteq dirs, NEW from \in Path, NEW to \in Path, from # to,
           MoveDir(from, to)
    PROVE  (Full \subseteq dirs)'
BY MovedData DEF MoveDir

LEMMA RemovedFull ==
    ASSUME Full \subseteq dirs, TypeOK, NEW path \in Path, NEW rest \in SUBSET Contents(path),
           RemoveTree(path, rest)
    PROVE  (Full \subseteq dirs)'
<1>1. Full' \subseteq Full
  BY RemovedData
<1>2. rest = {} => path \notin Full'
  <2> SUFFICES ASSUME rest = {}, NEW d \in Data, where'[d] = path PROVE FALSE
    BY DEF Full
  <2>1. where \in [Data -> Path \cup {Unwritten, Gone}] /\ Gone # path
    BY StoreAssumption DEF TypeOK, StoreTypeOK
  <2>2. where'[d] = IF where[d] = path THEN Gone ELSE where[d]
    BY <2>1 DEF RemoveTree
  <2> QED
    BY <2>1, <2>2
<1> QED
  BY <1>1, <1>2 DEF RemoveTree

\* The process ends.
LEMMA ExitFollows ==
    ASSUME Turn, NEW p \in Procs, Exit(p), open'[p] = None, (Full \subseteq dirs)'
    PROVE  Follows'
<1>1. tool'[p].pc = "idle"
  BY TurnKnows DEF Exit, Become, Idle
<1> QED
  BY <1>1, TurnFollows DEF ToolFollows, ReleaseFollows, Releases, Marked

\* A tool is started: it reads, and the stores stay as they are.
LEMMA LaunchFollows ==
    ASSUME Turn, NEW p \in Procs, Launch(p) PROVE Follows'
<1> DEFINE r == tool'[p]
<1>1. UNCHANGED storeVars /\ tool[p].pc = "idle"
  BY DEF Launch, Reuse, Allocate, ReadForExtend, ReadForRelease, ReadTarget,
         CheckRevivable, Start, At
<1>2. UNCHANGED <<now, entry, open, dirs, where>> /\ open[p] = None
  BY <1>1, TurnKnows DEF storeVars, ToolFollows
<1>3. (Full \subseteq dirs)'
  BY <1>2, TurnKnows, SameFull
<1>4. PICK i \in Ids :
         \/ Reuse(p, i)
         \/ Allocate(p, i)
         \/ ReadForExtend(p, i)
         \/ \E op \in {"release", "wipe"} : ReadForRelease(p, i, op)
         \/ \E t \in Time : \/ \E target \in Ids : ReadTarget(p, i, t, target)
                            \/ CheckRevivable(p, i, t)
  BY DEF Launch
<1>5. ASSUME Reuse(p, i) PROVE ToolFollows(p)' /\ ReleaseFollows(p)'
  BY <1>1, <1>2, <1>5 DEF Reuse, ToolFollows, ReleaseFollows, Releases, Marked
<1>6. ASSUME Allocate(p, i) PROVE ToolFollows(p)' /\ ReleaseFollows(p)'
  <2>1. r.pc = "mkdir" /\ r.id = i /\ r.op = "allocate"
    BY <1>6, TurnKnows DEF Allocate, Become, Idle
  <2>2. entry'[<<i, Live>>] = None
    BY <1>2, <1>6 DEF Allocate, Exists
  <2>3. ToolFollows(p)'
    BY <1>2, <2>1, <2>2 DEF ToolFollows
  <2>4. ReleaseFollows(p)'
    BY <2>1 DEF ReleaseFollows, Releases, Marked
  <2> QED
    BY <2>3, <2>4
<1>7. ASSUME ReadForExtend(p, i) PROVE ToolFollows(p)' /\ ReleaseFollows(p)'
  <2>1. r.pc = "extend" /\ r.id = i /\ r.op = "extend"
        /\ r.ent = [entry[<<i, Live>>] EXCEPT !.rel = Live]
    BY <1>7, TurnKnows DEF ReadForExtend, Become, Idle
  <2>2. Readable(<<i, Live>>)
    BY <1>7 DEF ReadForExtend
  <2> QED
    BY <1>2, <2>1, <2>2 DEF ToolFollows, ReleaseFollows, Releases, Marked, Readable
<1>8. ASSUME NEW op \in {"release", "wipe"}, ReadForRelease(p, i, op)
      PROVE  ToolFollows(p)' /\ ReleaseFollows(p)'
  <2>1. r.pc = "mark" /\ r.id = i /\ r.ts = now /\ r.ent = entry[<<i, Live>>]
    BY <1>8, TurnKnows DEF ReadForRelease, Become, Idle
  <2>2. ToolFollows(p)'
    BY <1>2, <2>1 DEF ToolFollows
  <2>3. tool'[p].ts \in Time /\ tool'[p].ts <= now'
    BY <1>2, <2>1, TurnKnows DEF Turn, TypeOK, StoreTypeOK
  <2>4. ReleaseFollows(p)'
    BY <2>1, <2>3 DEF ReleaseFollows, Releases, Marked
  <2> QED
    BY <2>2, <2>4
<1>9. ASSUME NEW t \in Time, NEW target \in Ids, ReadTarget(p, i, t, target)
      PROVE  ToolFollows(p)' /\ ReleaseFollows(p)'
  <2>1. /\ r.pc = "lookup" /\ r.ts = t
        /\ r.to = <<entry[<<target, Live>>].space, target, Live>>
    BY <1>9, TurnKnows DEF ReadTarget, Become, Idle
  <2>2. r.to[1] = entry[<<target, Live>>].space /\ r.to[2] = target /\ r.to[3] = Live
    BY <2>1
  <2>3. entry'[<<r.to[2], Live>>] = entry[<<target, Live>>] /\ Readable(<<target, Live>>)
    BY <1>2, <1>9, <2>2 DEF ReadTarget
  <2> QED
    BY <1>2, <2>1, <2>2, <2>3, LiveIsNoTime
    DEF ToolFollows, ReleaseFollows, Releases, Marked, Names, Readable
<1>10. ASSUME NEW t \in Time, CheckRevivable(p, i, t)
       PROVE  ToolFollows(p)' /\ ReleaseFollows(p)'
  <2>1. r.pc = "revive" /\ r.id = i /\ r.ts = t /\ r.ent = entry[<<i, t>>]
    BY <1>10, TurnKnows DEF CheckRevivable, Become, Idle
  <2>2. entry[<<i, Live>>] = None
    BY <1>10 DEF CheckRevivable, Exists
  <2> QED
    BY <1>2, <2>1, <2>2, LiveIsNoTime DEF ToolFollows, ReleaseFollows, Releases, Marked
<1> QED
  BY <1>3, <1>4, <1>5, <1>6, <1>7, <1>8, <1>9, <1>10, TurnFollows

LEMMA MakeDirFollows ==
    ASSUME Turn, NEW p \in Procs, NEW s \in Spaces, MakeDir(p, s)
    PROVE  Follows'
<1> DEFINE r == tool'[p]
<1>1. /\ tool[p].pc = "mkdir" /\ UNCHANGED <<now, entry, open, where>>
      /\ dirs \subseteq dirs'
  BY DEF MakeDir, At
<1>2. /\ r.pc = "create" /\ r.id = tool[p].id /\ r.op = tool[p].op
      /\ r.ent.ext = MaxExt /\ r.ent.rel = Live
  BY TurnKnows DEF MakeDir, Become, Process
<1>3. entry[<<tool[p].id, Live>>] = None /\ open[p] = None
      /\ tool[p].op \notin {"release", "wipe"}
  BY <1>1, TurnKnows DEF ToolFollows, ReleaseFollows, Releases, Marked
<1>4. ToolFollows(p)' /\ ReleaseFollows(p)'
  BY <1>1, <1>2, <1>3 DEF ToolFollows, ReleaseFollows, Releases, Marked
<1> QED
  BY <1>1, <1>4, TurnKnows, SameFull, TurnFollows

\* The entry is opened by the writer.
LEMMA OpenFollows ==
    ASSUME Turn, NEW p \in Procs, tool[p].pc \in {"create", "extend", "mark"},
           OpenEntry(p, <<tool[p].id, Live>>), UNCHANGED <<dirs, where>>,
           tool'[p].pc = "write", tool'[p].id = tool[p].id,
           tool'[p].op \in {"release", "wipe"} =>
              tool'[p].ts <= now /\ tool'[p].ent.rel # Live
    PROVE  Follows'
<1>1. tool[p].id \in Ids /\ <<tool[p].id, Live>> \in Key
  BY TurnKnows, LiveLabel, KeyInKey DEF WellFormed
<1>2. open'[p] = <<tool[p].id, Live>> /\ entry'[<<tool[p].id, Live>>] = Empty
  BY <1>1, TurnKnows DEF OpenEntry, EntryTypeOK
<1>3. ToolFollows(p)' /\ ReleaseFollows(p)'
  BY <1>2, TurnKnows DEF ToolFollows, ReleaseFollows, Releases, Marked
<1> QED
  BY <1>3, TurnKnows, SameFull, TurnFollows

LEMMA CreateEntryFollows ==
    ASSUME Turn, NEW p \in Procs, NEW duration \in Durations, CreateEntry(p, duration)
    PROVE  Follows'
<1>1. tool[p].pc = "create" /\ tool'[p].pc = "write" /\ tool'[p].id = tool[p].id
      /\ tool'[p].op = tool[p].op
  BY TurnKnows DEF CreateEntry, Become, At, Process
<1>2. OpenEntry(p, <<tool[p].id, Live>>) /\ UNCHANGED <<dirs, where>>
  BY DEF CreateEntry
<1>3. tool'[p].op \in {"release", "wipe"} => tool'[p].ts <= now /\ tool'[p].ent.rel # Live
  BY <1>1, TurnKnows DEF ReleaseFollows, Releases, Marked
<1>4. tool[p].pc \in {"create", "extend", "mark"}
  BY <1>1
<1> QED
  BY <1>1, <1>2, <1>3, <1>4, OpenFollows

LEMMA UseExtensionFollows ==
    ASSUME Turn, NEW p \in Procs, NEW duration \in Durations, UseExtension(p, duration)
    PROVE  Follows'
<1> DEFINE e == tool[p].ent
           c == Cost(e, duration)
           r == [tool[p] EXCEPT !.pc = "write", !.ent.exp = Prolonged(e, duration),
                    !.ent.ext = e.ext - c]
<1>1. tool[p].pc = "extend" /\ UNCHANGED <<dirs, where>>
  BY DEF UseExtension, At
<1>2. CASE Exit(p) /\ UNCHANGED <<entry, open>>
  <2>1. open'[p] = None
    BY <1>1, <1>2, TurnKnows DEF ToolFollows
  <2> QED
    BY <1>1, <1>2, <2>1, TurnKnows, SameFull, ExitFollows
<1>3. CASE OpenEntry(p, <<tool[p].id, Live>>) /\ Become(p, r)
  <2>1. r.pc = "write" /\ r.id = tool[p].id /\ r.op = tool[p].op
    BY TurnKnows DEF Process
  <2> HIDE DEF r
  <2>2. tool'[p] = r
    BY <1>3, TurnKnows DEF Become
  <2>3. tool'[p].op \in {"release", "wipe"} =>
           tool'[p].ts <= now /\ tool'[p].ent.rel # Live
    BY <1>1, <2>1, <2>2, TurnKnows DEF ReleaseFollows, Releases, Marked
  <2>4. tool[p].pc \in {"create", "extend", "mark"}
    BY <1>1
  <2> QED
    BY <1>1, <1>3, <2>1, <2>2, <2>3, <2>4, OpenFollows
<1> QED
  BY <1>2, <1>3 DEF UseExtension

LEMMA MarkReleasedFollows ==
    ASSUME Turn, NEW p \in Procs, MarkReleased(p) PROVE Follows'
<1>1. tool[p].pc = "mark" /\ tool'[p].pc = "write" /\ tool'[p].id = tool[p].id
      /\ tool'[p].ts = tool[p].ts
  BY TurnKnows DEF MarkReleased, Become, At, Process
<1>2. tool[p].ent \in Entry
  BY <1>1, TurnKnows DEF WellFormed
<1>3. tool'[p].ent.rel = now
  BY <1>2, TurnKnows DEF MarkReleased, Become, Process, Entry
<1>4. now # Live
  BY LiveIsNoTime DEF Turn, TypeOK, StoreTypeOK
<1> QED
  BY <1>1, <1>3, <1>4, TurnKnows, OpenFollows DEF MarkReleased, ReleaseFollows, Releases, Marked

LEMMA FinishWriteFollows ==
    ASSUME Turn, NEW p \in Procs, FinishWrite(p) PROVE Follows'
<1>1. tool[p].pc = "write" /\ UNCHANGED <<now, dirs, where>>
      /\ WriteEntry(p, tool[p].ent)
  BY DEF FinishWrite, At
<1>2. (Full \subseteq dirs)'
  BY <1>1, TurnKnows, SameFull
<1>3. /\ tool[p].id \in Ids /\ <<tool[p].id, Live>> \in Key
      /\ open[p] # None => open[p] = <<tool[p].id, Live>>
  BY <1>1, TurnKnows, LiveLabel, KeyInKey DEF WellFormed, ToolFollows
<1>4. /\ open'[p] = None
      /\ tool[p].op \in {"release", "wipe"} =>
            entry'[<<tool[p].id, Live>>] \in {tool[p].ent, Empty}
  <2>1. CASE open[p] # None
    BY <1>1, <1>3, <2>1, TurnKnows DEF WriteEntry, EntryTypeOK
  <2>2. CASE open[p] = None
    BY <1>1, <2>2, TurnKnows DEF WriteEntry, EntryTypeOK, ReleaseFollows, Releases
  <2> QED
    BY <2>1, <2>2
<1>5. CASE Exit(p)
  BY <1>2, <1>4, <1>5, ExitFollows
<1>6. CASE Goto(p, "retire") /\ tool[p].op \in {"release", "wipe"}
  <2>1. tool'[p].pc = "retire" /\ tool'[p].id = tool[p].id /\ tool'[p].ts = tool[p].ts
        /\ tool'[p].ent = tool[p].ent
    BY <1>6, TurnKnows DEF Goto, Become, Process
  <2>2. ToolFollows(p)'
    BY <1>4, <2>1 DEF ToolFollows
  <2>3. ReleaseFollows(p)'
    BY <1>1, <1>4, <1>6, <2>1, TurnKnows DEF ReleaseFollows, Releases, Marked
  <2> QED
    BY <1>2, <2>2, <2>3, TurnFollows
<1> QED
  BY <1>5, <1>6 DEF FinishWrite

\* A write that fails leaves the entry as it is, or empty.
LEMMA OpenFailsFollows ==
    ASSUME Turn, NEW p \in Procs, OpenFails(p) PROVE Follows'
<1>1. /\ tool[p].pc \in {"create", "mark", "extend"}
      /\ UNCHANGED <<now, entry, open, dirs, where>> /\ open[p] = None /\ open'[p] = None
  BY TurnKnows DEF OpenFails, At, storeVars, ToolFollows
<1>2. /\ tool'[p].pc = "write" /\ tool'[p].op = tool[p].op /\ tool'[p].id = tool[p].id
      /\ tool'[p].ts = tool[p].ts /\ tool'[p].ent = tool[p].ent
  BY TurnKnows DEF OpenFails, Goto, Become, Process
<1>3. tool[p].pc = "mark" => <<tool[p].id, tool[p].ts>> \in unmarked'
  <2> SUFFICES ASSUME tool[p].pc = "mark" PROVE <<tool[p].id, tool[p].ts>> \in unmarked'
    OBVIOUS
  <2>1. <<tool[p].id, tool[p].ts>> \in Key
    BY TurnKnows, KeyInKey DEF WellFormed, Process
  <2> QED
    BY <1>1, <1>2, <2>1 DEF Turn, Observe, At
<1>4. ToolFollows(p)'
  BY <1>1, <1>2, TurnKnows DEF ToolFollows
<1>5. ReleaseFollows(p)'
  <2>1. CASE tool[p].pc = "mark"
    BY <1>1, <1>2, <1>3, <2>1, TurnKnows DEF ReleaseFollows, Releases, Marked, ToolFollows
  <2>2. CASE tool[p].pc # "mark"
    BY <1>1, <1>2, <2>2, TurnKnows DEF ReleaseFollows, Releases
  <2> QED
    BY <2>1, <2>2
<1> QED
  BY <1>1, <1>4, <1>5, TurnKnows, SameFull, TurnFollows

LEMMA WriteFailsFollows ==
    ASSUME Turn, NEW p \in Procs, WriteFails(p) PROVE Follows'
<1>1. /\ tool[p].pc = "write" /\ open[p] # None /\ open'[p] = None
      /\ UNCHANGED <<now, entry, dirs, where, tool>>
  BY TurnKnows DEF WriteFails, At, EntryTypeOK
<1>2. ToolFollows(p)' /\ ReleaseFollows(p)'
  BY <1>1, TurnKnows DEF ToolFollows, ReleaseFollows, Releases, Marked
<1> QED
  BY <1>1, <1>2, TurnKnows, SameFull, TurnFollows

\* An entry is renamed while no file is open.
LEMMA RenamedKnows ==
    ASSUME EntryTypeOK, NEW from \in Key, NEW to \in Key, from # to,
           RenameEntry(from, to)
    PROVE  /\ entry'[to] = entry[from] /\ entry'[from] = None
           /\ \A k \in Key \ {from, to} : entry'[k] = entry[k]
           /\ \A p \in Procs : open[p] = None => open'[p] = None
<1>1. \A p \in Procs : open[p] = None => open'[p] = None
  <2>1. None # from /\ None # to
    BY StoreAssumption
  <2> QED
    BY <2>1 DEF RenameEntry
<1> QED
  BY <1>1 DEF EntryTypeOK, RenameEntry

LEMMA RetireEntryFollows ==
    ASSUME Turn, NEW p \in Procs, RetireEntry(p) PROVE Follows'
<1> DEFINE i == tool[p].id
           t == tool[p].ts
<1>1. /\ tool[p].pc = "retire" /\ UNCHANGED <<now, dirs, where>>
      /\ open[p] = None /\ entry[<<i, Live>>] \in {tool[p].ent, Empty} /\ Marked(p)
  BY TurnKnows DEF RetireEntry, At, ToolFollows, ReleaseFollows, Releases
<1>2. i \in Ids /\ t \in Time /\ <<i, Live>> \in Key /\ <<i, t>> \in Key
      /\ <<i, Live>> # <<i, t>>
  BY <1>1, TurnKnows, LiveLabel, KeyInKey, LiveIsNoTime DEF WellFormed
<1>3. (Full \subseteq dirs)'
  BY <1>1, TurnKnows, SameFull
<1>4. CASE Exit(p) /\ UNCHANGED <<entry, open>>
  BY <1>1, <1>3, <1>4, ExitFollows
<1>5. CASE RenameEntry(<<i, Live>>, <<i, t>>) /\ Goto(p, "movedir")
  <2>1. tool'[p].pc = "movedir" /\ tool'[p].id = i /\ tool'[p].ts = t
        /\ tool'[p].ent = tool[p].ent
    BY <1>5, TurnKnows DEF Goto, Become, Process
  <2>2. /\ entry'[<<i, Live>>] = None /\ entry'[<<i, t>>] \in {tool[p].ent, Empty}
        /\ open'[p] = None
    BY <1>1, <1>2, <1>5, TurnKnows, RenamedKnows
  <2>3. Marked(p)'
    BY <1>1, <2>1, TurnKnows DEF Marked
  <2> HIDE DEF i, t
  <2>4. ToolFollows(p)' /\ ReleaseFollows(p)'
    BY <1>1, <2>1, <2>2, <2>3 DEF ToolFollows, ReleaseFollows, Releases
  <2> QED
    BY <1>3, <2>4, TurnFollows
<1> QED
  BY <1>4, <1>5 DEF RetireEntry


\* The names of the workspace a tool is at work on.
LEMMA TurnNames ==
    ASSUME Turn, NEW p \in Procs, tool[p].pc \notin {"idle", "mkdir", "lookup", "write"}
    PROVE  /\ tool[p].id \in Ids /\ tool[p].ent \in Entry /\ open[p] = None
           /\ <<tool[p].id, Live>> \in Key /\ <<tool[p].id, tool[p].ts>> \in Key
           /\ <<tool[p].ent.space, tool[p].id, Live>> \in Path
           /\ <<tool[p].ent.space, tool[p].id, tool[p].ts>> \in Path
           /\ tool[p].pc \in {"retire", "movedir", "wipe", "forget"} =>
                 tool[p].ts \in Time /\ tool[p].ts # Live
<1>1. ToolsOK
  BY DEF Turn, TypeOK, ToolsOK
<1>2. open[p] = None
  BY TurnKnows DEF ToolFollows
<1>3. tool[p].pc \in {"retire", "movedir", "wipe", "forget"} =>
         tool[p].ts \in Time /\ tool[p].ts # Live
  BY TurnKnows, LiveIsNoTime DEF WellFormed
<1> QED
  BY <1>1, <1>2, <1>3, ToolPaths

LEMMA RetireDirFollows ==
    ASSUME Turn, NEW p \in Procs, RetireDir(p) PROVE Follows'
<1> DEFINE from == <<tool[p].ent.space, tool[p].id, Live>>
           to   == <<tool[p].ent.space, tool[p].id, tool[p].ts>>
<1>1. tool[p].pc = "movedir" /\ UNCHANGED <<now, entry, open>>
  BY DEF RetireDir, At
<1>2. from \in Path /\ to \in Path /\ from # to /\ open[p] = None
  BY <1>1, TurnNames
<1>3. (Full \subseteq dirs)'
  <2>1. UNCHANGED <<dirs, where>> \/ MoveDir(from, to)
    BY DEF RetireDir
  <2> HIDE DEF from, to
  <2> QED
    BY <1>2, <2>1, TurnKnows, SameFull, MovedFull
<1>4. CASE Exit(p)
  BY <1>1, <1>2, <1>3, <1>4, ExitFollows
<1>5. CASE Goto(p, "wipe")
  <2>1. tool'[p].pc = "wipe" /\ tool'[p].id = tool[p].id /\ tool'[p].ts = tool[p].ts
        /\ tool'[p].ent = tool[p].ent
    BY <1>5, TurnKnows DEF Goto, Become, Process
  <2>2. ToolFollows(p)'
    BY <1>1, <1>2, <2>1, TurnKnows DEF ToolFollows
  <2>3. ReleaseFollows(p)'
    BY <1>1, <2>1, TurnKnows DEF ReleaseFollows, Releases, Marked
  <2> QED
    BY <1>3, <2>2, <2>3, TurnFollows
<1> QED
  BY <1>4, <1>5 DEF RetireDir

LEMMA WipeDataFollows ==
    ASSUME Turn, NEW p \in Procs, NEW rest \in SUBSET Data, WipeData(p, rest)
    PROVE  Follows'
<1> DEFINE path == <<tool[p].ent.space, tool[p].id, tool[p].ts>>
<1>1. tool[p].pc = "wipe" /\ UNCHANGED <<now, entry, open>>
      /\ rest \in SUBSET Contents(path) /\ RemoveTree(path, rest)
  BY DEF WipeData, At
<1>2. path \in Path /\ open[p] = None
  BY <1>1, TurnNames
<1>3. (Full \subseteq dirs)'
  <2> HIDE DEF path
  <2> QED
    BY <1>1, <1>2, TurnKnows, RemovedFull DEF Turn
<1>4. /\ tool'[p].pc \in {"wipe", "forget"} /\ tool'[p].id = tool[p].id
      /\ tool'[p].ts = tool[p].ts /\ tool'[p].ent = tool[p].ent
  <2>1. tool' = tool \/ Goto(p, "forget")
    BY DEF WipeData
  <2> QED
    BY <1>1, <2>1, TurnKnows DEF Goto, Become, Process
<1>5. ToolFollows(p)'
  BY <1>1, <1>2, <1>4, TurnKnows DEF ToolFollows
<1>6. ReleaseFollows(p)'
  BY <1>1, <1>4, TurnKnows DEF ReleaseFollows, Releases, Marked
<1> QED
  BY <1>3, <1>5, <1>6, TurnFollows

\* The steps that remove the entry of a removed workspace.
LEMMA UnlinkFollows ==
    ASSUME Turn, NEW p \in Procs, ForgetEntry(p) \/ UnlinkSource(p) PROVE Follows'
<1>1. /\ tool[p].pc \in {"forget", "unlink"} /\ UNCHANGED <<now, dirs, where>>
      /\ UnlinkEntry(<<tool[p].id, tool[p].ts>>) /\ Exit(p)
  BY DEF ForgetEntry, UnlinkSource, At
<1>2. open'[p] = None
  BY <1>1, TurnNames DEF UnlinkEntry
<1> QED
  BY <1>1, <1>2, TurnKnows, SameFull, ExitFollows

LEMMA ReadSourceFollows ==
    ASSUME Turn, NEW p \in Procs, ReadSource(p) PROVE Follows'
<1>1. tool[p].pc = "lookup" /\ UNCHANGED <<now, entry, open, dirs, where>> /\ open[p] = None
  BY TurnKnows DEF ReadSource, At, storeVars, ToolFollows
<1>2. (Full \subseteq dirs)'
  BY <1>1, TurnKnows, SameFull
<1>3. CASE Exit(p)
  BY <1>1, <1>2, <1>3, ExitFollows
<1>4. CASE Become(p, [tool[p] EXCEPT !.pc = "refill",
                                     !.ent = entry[<<tool[p].id, tool[p].ts>>]])
  <2>1. /\ tool'[p].pc = "refill" /\ tool'[p].id = tool[p].id /\ tool'[p].ts = tool[p].ts
        /\ tool'[p].to = tool[p].to /\ tool'[p].ent = entry[<<tool[p].id, tool[p].ts>>]
    BY <1>4, TurnKnows DEF Become, Process
  <2>2. ToolFollows(p)'
    BY <1>1, <2>1, TurnKnows DEF ToolFollows, Names, Readable
  <2>3. ReleaseFollows(p)'
    BY <2>1 DEF ReleaseFollows, Releases, Marked
  <2> QED
    BY <1>2, <2>2, <2>3, TurnFollows
<1> QED
  BY <1>3, <1>4 DEF ReadSource

LEMMA RefillFollows ==
    ASSUME Turn, NEW p \in Procs, Refill(p) PROVE Follows'
<1> DEFINE from == <<tool[p].ent.space, tool[p].id, tool[p].ts>>
           to   == tool[p].to
<1>1. tool[p].pc = "refill" /\ UNCHANGED <<now, entry, open>>
  BY DEF Refill, At
<1>2. from \in Path /\ to \in Path /\ from # to /\ open[p] = None
  <2>1. to \in Path /\ to[3] = Live /\ tool[p].ts # Live
    BY <1>1, TurnKnows DEF ToolFollows, WellFormed
  <2>2. from[3] = tool[p].ts
    OBVIOUS
  <2>3. from # to
    BY <2>1, <2>2
  <2> QED
    BY <1>1, <2>1, <2>3, TurnNames
<1>3. (Full \subseteq dirs)'
  <2>1. UNCHANGED <<dirs, where>> \/ MoveDir(from, to)
    BY DEF Refill
  <2> HIDE DEF from, to
  <2> QED
    BY <1>2, <2>1, TurnKnows, SameFull, MovedFull
<1>4. CASE Exit(p)
  BY <1>1, <1>2, <1>3, <1>4, ExitFollows
<1>5. CASE MoveDir(from, to) /\ Goto(p, "unlink")
  <2>1. tool'[p].pc = "unlink" /\ tool'[p].id = tool[p].id /\ tool'[p].ts = tool[p].ts
        /\ tool'[p].ent = tool[p].ent
    BY <1>5, TurnKnows DEF Goto, Become, Process
  <2>2. from \notin Full'
    <3> HIDE DEF from, to
    <3> QED
      BY <1>2, <1>5, MovedData
  <2>3. ToolFollows(p)'
    BY <1>1, <1>2, <2>1, <2>2, TurnKnows DEF ToolFollows
  <2>4. ReleaseFollows(p)'
    BY <2>1 DEF ReleaseFollows, Releases, Marked
  <2> QED
    BY <1>3, <2>3, <2>4, TurnFollows
<1> QED
  BY <1>4, <1>5 DEF Refill

LEMMA ReviveEntryFollows ==
    ASSUME Turn, NEW p \in Procs, ReviveEntry(p) PROVE Follows'
<1> DEFINE from == <<tool[p].id, tool[p].ts>>
           to   == <<tool[p].id, Live>>
<1>1. /\ tool[p].pc = "revive" /\ UNCHANGED <<now, dirs, where>>
      /\ entry[from] = tool[p].ent /\ tool[p].ts # Live
  BY TurnKnows DEF ReviveEntry, At, ToolFollows
<1>2. from \in Key /\ to \in Key /\ from # to /\ open[p] = None
  BY <1>1, TurnNames
<1>3. (Full \subseteq dirs)'
  BY <1>1, TurnKnows, SameFull
<1>4. CASE Exit(p) /\ UNCHANGED <<entry, open>>
  BY <1>2, <1>3, <1>4, ExitFollows
<1>5. CASE RenameEntry(from, to) /\ Goto(p, "putback")
  <2>1. tool'[p].pc = "putback" /\ tool'[p].id = tool[p].id /\ tool'[p].ts = tool[p].ts
        /\ tool'[p].ent = tool[p].ent
    BY <1>5, TurnKnows DEF Goto, Become, Process
  <2>2. entry'[to] = tool[p].ent /\ entry'[from] = None /\ open'[p] = None
    BY <1>1, <1>2, <1>5, TurnKnows, RenamedKnows
  <2>3. ToolFollows(p)'
    BY <1>1, <2>1, <2>2 DEF ToolFollows
  <2>4. ReleaseFollows(p)'
    BY <2>1 DEF ReleaseFollows, Releases, Marked
  <2> QED
    BY <1>3, <2>3, <2>4, TurnFollows
<1> QED
  BY <1>4, <1>5 DEF ReviveEntry

LEMMA PutBackFollows ==
    ASSUME Turn, NEW p \in Procs, PutBack(p) PROVE Follows'
<1> DEFINE from == <<tool[p].ent.space, tool[p].id, tool[p].ts>>
           to   == <<tool[p].ent.space, tool[p].id, Live>>
<1>1. tool[p].pc = "putback" /\ UNCHANGED <<now, entry, open>> /\ tool[p].ts # Live
      /\ Exit(p) /\ (UNCHANGED <<dirs, where>> \/ MoveDir(from, to))
  BY TurnKnows DEF PutBack, At, ToolFollows
<1>2. from \in Path /\ to \in Path /\ from # to /\ open[p] = None
  BY <1>1, TurnNames
<1>3. (Full \subseteq dirs)'
  <2> HIDE DEF from, to
  <2> QED
    BY <1>1, <1>2, TurnKnows, SameFull, MovedFull
<1> QED
  BY <1>1, <1>2, <1>3, ExitFollows

LEMMA CrashFollows ==
    ASSUME Turn, NEW p \in Procs, Crash(p) PROVE Follows'
<1>1. Exit(p) /\ open'[p] = None /\ UNCHANGED <<dirs, where>>
  BY TurnKnows DEF Crash, EntryTypeOK
<1> QED
  BY <1>1, TurnKnows, SameFull, ExitFollows

LEMMA ProceedFollows ==
    ASSUME Turn, NEW p \in Procs, Proceed(p) PROVE Follows'
BY MakeDirFollows, CreateEntryFollows, UseExtensionFollows, MarkReleasedFollows,
   FinishWriteFollows, RetireEntryFollows, RetireDirFollows, WipeDataFollows,
   UnlinkFollows, ReadSourceFollows, RefillFollows, ReviveEntryFollows, PutBackFollows
DEF Proceed

-----------------------------------------------------------------------------
(* The steps of the expirer keep it                                        *)

\* A step of the expirer, while no tool runs.
Round == /\ OneAtATime /\ TypeOK /\ RunInv /\ Follows /\ Running /\ UNCHANGED <<tool, now>>
         /\ Observe

LEMMA RoundKnows ==
    ASSUME Round
    PROVE  /\ xp \in Fields /\ EntryTypeOK /\ DirTypeOK /\ now \in Time /\ now' = now
           /\ ExpirerOK /\ ListInv /\ JobInv /\ ExpirerFollows /\ Full \subseteq dirs
           /\ ToolsIdle /\ ToolsIdle'
           /\ \A p \in Procs : open[p] = None
           /\ xp.pc \in JobPc => xp.job \in Job
<1>1. \A p \in Procs : tool[p].pc = "idle" /\ tool'[p].pc = "idle" /\ open[p] = None
  BY DEF Round, Follows, ToolFollows, ExpirerFollows, ToolsIdle, At
<1>2. xp \in Fields /\ EntryTypeOK /\ DirTypeOK /\ now \in Time
      /\ (xp.pc \in JobPc => xp.job \in Job)
  BY StoreTypes DEF Round, TypeOK, ExpirerTypeOK, Fields, JobPc
<1> QED
  BY <1>1, <1>2 DEF Round, TypeOK, ExpirerOK, RunInv, Follows, ToolsIdle, At

\* It suffices to look at the expirer and the stores.
LEMMA RoundFollows ==
    ASSUME Round, (Full \subseteq dirs)', \A p \in Procs : open'[p] = None,
           ExpirerFollows'
    PROVE  Follows'
<1>1. \A p \in Procs : tool'[p].pc = "idle"
  BY RoundKnows DEF ToolsIdle, At
<1>2. \A p \in Procs : ToolFollows(p)' /\ ReleaseFollows(p)'
  BY <1>1 DEF ToolFollows, ReleaseFollows, Releases, Marked
<1> QED
  BY <1>2 DEF Follows

\* The lists are those of the entries that do not change.
LEMMA SameLists == ASSUME UNCHANGED entry
                   PROVE  LiveKeys' = LiveKeys /\ RemovedKeys' = RemovedKeys
BY DEF LiveKeys, RemovedKeys, Exists

\* The steps that only read.
LEMMA ReadingFollows ==
    ASSUME Round, UNCHANGED storeVars, ExpirerFollows'
    PROVE  Follows'
<1>1. UNCHANGED <<entry, open, dirs, where>>
  BY DEF storeVars
<1> QED
  BY <1>1, RoundKnows, RoundFollows, SameFull

LEMMA AbortFollows == ASSUME Round, UNCHANGED storeVars, Abort PROVE Follows'
<1>1. xp'.pc = "idle"
  BY DEF Abort, Resting
<1> QED
  BY <1>1, RoundKnows, ReadingFollows DEF ExpirerFollows

LEMMA ListingFollows ==
    ASSUME Round,
           \/ \E s \in Spaces : ScanSpace(s) \/ ScanTrash(s)
           \/ ListEntries \/ ListRemovedEntries \/ ListLive \/ ListRemoved
           \/ FinishRun
           \/ \E k \in Key : CheckEntry(k) \/ VisitEntry(k) \/ VisitRemoved(k)
    PROVE  Follows'
<1>0. /\ xp \in Fields /\ ExpirerFollows /\ JobInv /\ ToolsIdle' /\ now' = now
      /\ now \in Time
  BY RoundKnows
<1>1. ASSUME NEW s \in Spaces, ScanSpace(s) PROVE Follows'
  <2>1. /\ xp.pc = "scan" /\ xp'.pc = "scan" /\ UNCHANGED storeVars
        /\ xp'.paths = xp.paths \cup {x \in dirs : x[1] = s /\ x[3] = Live}
    BY <1>0, <1>1 DEF ScanSpace, Fields
  <2>2. \A x \in xp'.paths : x[3] = Live
    BY <1>0, <2>1 DEF ExpirerFollows
  <2>3. ExpirerFollows'
    BY <1>0, <2>1, <2>2 DEF ExpirerFollows
  <2> QED
    BY <2>1, <2>3, ReadingFollows
<1>2. CASE \E s \in Spaces : ScanTrash(s)
  <2>1. /\ xp.pc = "trash" /\ xp'.pc = "trash" /\ UNCHANGED storeVars
        /\ xp'.names = xp.names
    BY <1>0, <1>2 DEF ScanTrash, Fields
  <2>2. ExpirerFollows'
    BY <1>0, <2>1, SameLists DEF ExpirerFollows, storeVars
  <2> QED
    BY <2>1, <2>2, ReadingFollows
<1>3. CASE ListEntries
  <2>1. /\ xp.pc = "scan" /\ xp'.pc \in {"check", "stray"} /\ UNCHANGED storeVars
        /\ xp'.paths = xp.paths /\ xp'.names = LiveKeys
    BY <1>0, <1>3 DEF ListEntries, Fields
  <2>2. ExpirerFollows'
    BY <1>0, <2>1, SameLists DEF ExpirerFollows, storeVars
  <2> QED
    BY <2>1, <2>2, ReadingFollows
<1>4. CASE ListRemovedEntries
  <2>1. xp.pc = "stray" /\ xp'.pc = "trash" /\ UNCHANGED storeVars /\ xp'.names = RemovedKeys
    BY <1>0, <1>4 DEF ListRemovedEntries, Fields
  <2>2. ExpirerFollows'
    BY <1>0, <2>1, SameLists DEF ExpirerFollows, storeVars
  <2> QED
    BY <2>1, <2>2, ReadingFollows
<1>5. CASE ListLive \/ ListRemoved
  <2>1. xp'.pc \in {"expire", "reap"} /\ UNCHANGED storeVars
    BY <1>0, <1>5 DEF ListLive, ListRemoved, Fields, Resting
  <2>2. ExpirerFollows'
    BY <1>0, <2>1 DEF ExpirerFollows
  <2> QED
    BY <2>1, <2>2, ReadingFollows
<1>6. CASE FinishRun
  BY <1>6, AbortFollows DEF FinishRun
<1>7. ASSUME NEW k \in Key, CheckEntry(k) PROVE Follows'
  <2>1. CASE Abort
    BY <1>7, <2>1, AbortFollows DEF CheckEntry
  <2>2. CASE xp' = [xp EXCEPT !.todo = @ \ {k},
                              !.pc = IF xp.todo = {k} THEN "stray" ELSE "check"]
    <3>1. /\ xp.pc = "check" /\ xp'.pc \in {"check", "stray"} /\ UNCHANGED storeVars
          /\ xp'.paths = xp.paths /\ xp'.names = xp.names
      BY <1>0, <1>7, <2>2 DEF CheckEntry, Fields
    <3>2. ExpirerFollows'
      BY <1>0, <3>1, SameLists DEF ExpirerFollows, storeVars
    <3> QED
      BY <3>1, <3>2, ReadingFollows
  <2> QED
    BY <1>7, <2>1, <2>2 DEF CheckEntry
<1>8. ASSUME NEW k \in Key, VisitEntry(k) \/ VisitRemoved(k) PROVE Follows'
  <2>1. CASE xp' = [xp EXCEPT !.todo = @ \ {k}]
    <3>1. xp'.pc \in {"expire", "reap"} /\ UNCHANGED storeVars
      BY <1>0, <1>8, <2>1 DEF VisitEntry, VisitRemoved, Fields
    <3>2. ExpirerFollows'
      BY <1>0, <3>1 DEF ExpirerFollows
    <3> QED
      BY <3>1, <3>2, ReadingFollows
  <2>2. CASE VisitEntry(k) /\ now > entry[k].exp
             /\ xp' = [xp EXCEPT !.pc = "retire", !.todo = @ \ {k},
                          !.job = [key |-> k, ent |-> entry[k], ts |-> now]]
    <3>0. UNCHANGED storeVars /\ k[2] = Live
      BY <1>0, <2>2 DEF VisitEntry, JobInv
    <3>1. /\ xp'.pc = "retire" /\ UNCHANGED storeVars /\ xp'.job.key = k
          /\ xp'.job.ent = entry[k] /\ xp'.job.ts = now /\ k[2] = Live
      BY <1>0, <2>2, <3>0 DEF Fields
    <3>2. now \in Nat
      BY <1>0, LiveLabel
    <3>3. ExpirerFollows'
      BY <1>0, <2>2, <3>1, <3>2 DEF ExpirerFollows, storeVars
    <3> QED
      BY <3>1, <3>3, ReadingFollows
  <2>3. CASE VisitRemoved(k)
             /\ xp' = [xp EXCEPT !.pc = "unlink", !.todo = @ \ {k},
                          !.job = [key |-> k, ent |-> entry[k], ts |-> now]]
    <3>0. UNCHANGED storeVars
      BY <2>3 DEF VisitRemoved
    <3>1. /\ xp'.pc = "unlink" /\ UNCHANGED storeVars /\ xp'.job.key = k
          /\ xp'.job.ent = entry[k]
      BY <1>0, <2>3, <3>0 DEF Fields
    <3>2. ExpirerFollows'
      BY <1>0, <3>1 DEF ExpirerFollows, storeVars
    <3> QED
      BY <3>1, <3>2, ReadingFollows
  <2> QED
    BY <1>8, <2>1, <2>2, <2>3 DEF VisitEntry, VisitRemoved
<1> QED
  BY <1>1, <1>2, <1>3, <1>4, <1>5, <1>6, <1>7, <1>8

LEMMA VisitDirFollows ==
    ASSUME Round, NEW path \in Path, VisitDir(path) PROVE Follows'
<1> DEFINE removed == <<path[1], path[2], now>>
<1>1. /\ xp.pc = "stray" /\ xp'.pc = "stray" /\ xp'.names = xp.names
      /\ xp'.paths \subseteq xp.paths /\ UNCHANGED <<entry, open>> /\ path[3] = Live
  <2>1. xp.pc = "stray" /\ path \in xp.paths /\ UNCHANGED <<entry, open>>
        /\ xp' = [xp EXCEPT !.paths = @ \ {path}]
    BY DEF VisitDir
  <2> QED
    BY <2>1, RoundKnows DEF Fields, ExpirerFollows
<1>2. removed \in Path /\ removed # path
  <2>1. path[1] \in Spaces /\ path[2] \in Ids /\ now \in Label /\ now # Live
    BY RoundKnows, LiveLabel, LiveIsNoTime DEF Path
  <2>2. removed[3] = now
    OBVIOUS
  <2>3. removed # path
    BY <1>1, <2>1, <2>2
  <2> QED
    BY <2>1, <2>3, Paths
<1>3. (Full \subseteq dirs)'
  <2>1. UNCHANGED <<dirs, where>> \/ MoveDir(path, removed)
    BY DEF VisitDir
  <2> HIDE DEF removed
  <2> QED
    BY <1>2, <2>1, RoundKnows, SameFull, MovedFull
<1>4. ExpirerFollows'
  BY <1>1, RoundKnows, SameLists DEF ExpirerFollows
<1> QED
  BY <1>1, <1>3, <1>4, RoundKnows, RoundFollows

LEMMA DeletionFollows ==
    ASSUME Round, NEW path \in Path, NEW rest, DelDir(path, rest) PROVE (Full \subseteq dirs)'
<1>1. rest \in SUBSET Contents(path) /\ RemoveTree(path, rest)
  BY DEF DelDir
<1> QED
  BY <1>1, RoundKnows, RemovedFull DEF Round

LEMMA VisitTrashFollows ==
    ASSUME Round, NEW path \in Path, NEW rest, VisitTrash(path, rest) PROVE Follows'
<1>1. xp.pc = "trash" /\ xp'.pc = "trash" /\ xp'.names = xp.names /\ UNCHANGED <<entry, open>>
  BY RoundKnows DEF VisitTrash, Fields
<1>2. (Full \subseteq dirs)'
  <2>1. CASE DelDir(path, rest)
    BY <2>1, DeletionFollows
  <2>2. CASE UNCHANGED <<dirs, where>>
    BY <2>2, RoundKnows, SameFull
  <2> QED
    BY <2>1, <2>2 DEF VisitTrash
<1>3. ExpirerFollows'
  BY <1>1, RoundKnows, SameLists DEF ExpirerFollows
<1> QED
  BY <1>1, <1>2, <1>3, RoundKnows, RoundFollows

LEMMA ExpireEntryFollows == ASSUME Round, ExpireEntry PROVE Follows'
<1> DEFINE from == xp.job.key
           to   == <<xp.job.key[1], xp.job.ts>>
<1>1. /\ xp.pc = "retire" /\ UNCHANGED <<now, dirs, where>> /\ xp.job \in Job
      /\ from[2] = Live /\ entry[from] = xp.job.ent
  BY RoundKnows DEF ExpireEntry, ExpirerFollows, JobPc
<1>2. from \in Key /\ to \in Key /\ to # from
  <2>1. to[2] \in Time
    BY <1>1 DEF Job
  <2> QED
    BY <1>1, <2>1, RoundKnows, JobNames, LiveIsNoTime DEF JobPc
<1>3. CASE Abort /\ UNCHANGED <<entry, open>>
  BY <1>1, <1>3, AbortFollows DEF storeVars
<1>4. CASE RenameEntry(from, to) /\ xp' = [xp EXCEPT !.pc = "movedir"]
  <2>1. xp'.pc = "movedir" /\ xp'.job = xp.job
    BY <1>4, RoundKnows DEF Fields
  <2>2. entry'[to] = xp.job.ent /\ entry'[from] = None /\ \A p \in Procs : open'[p] = None
    <3> HIDE DEF from, to
    <3> QED
      BY <1>1, <1>2, <1>4, RoundKnows, RenamedKnows
  <2>3. ExpirerFollows'
    BY <1>1, <2>1, <2>2, RoundKnows DEF ExpirerFollows
  <2> QED
    BY <1>1, <2>2, <2>3, RoundKnows, RoundFollows, SameFull
<1> QED
  BY <1>3, <1>4 DEF ExpireEntry

LEMMA ExpireDirFollows == ASSUME Round, ExpireDir PROVE Follows'
<1> DEFINE from == <<xp.job.ent.space, xp.job.key[1], Live>>
           to   == <<xp.job.ent.space, xp.job.key[1], xp.job.ts>>
<1>1. xp.pc = "movedir" /\ xp'.pc = "expire" /\ UNCHANGED <<entry, open>>
  BY RoundKnows DEF ExpireDir, Fields
<1>2. from \in Path /\ to \in Path /\ from # to
  <2>1. xp.job.ts # Live
    BY <1>1, RoundKnows, LiveIsNoTime DEF Job, JobPc
  <2> QED
    BY <1>1, <2>1, RoundKnows, JobNames DEF JobPc
<1>3. (Full \subseteq dirs)'
  <2>1. UNCHANGED <<dirs, where>> \/ MoveDir(from, to)
    BY DEF ExpireDir
  <2> HIDE DEF from, to
  <2> QED
    BY <1>2, <2>1, RoundKnows, SameFull, MovedFull
<1>4. ExpirerFollows'
  BY <1>1, RoundKnows DEF ExpirerFollows
<1> QED
  BY <1>1, <1>3, <1>4, RoundKnows, RoundFollows

LEMMA UnlinkRemovedFollows == ASSUME Round, UnlinkRemoved PROVE Follows'
<1>1. xp.pc = "unlink" /\ UNCHANGED <<now, dirs, where>> /\ xp.job.key \in Key
  BY RoundKnows, JobNames DEF UnlinkRemoved, JobPc
<1>2. CASE Abort /\ UNCHANGED <<entry, open>>
  BY <1>1, <1>2, AbortFollows DEF storeVars
<1>3. CASE UnlinkEntry(xp.job.key) /\ xp' = [xp EXCEPT !.pc = "deldir"]
  <2>1. xp'.pc = "deldir" /\ xp'.job = xp.job
    BY <1>3, RoundKnows DEF Fields
  <2>2. entry'[xp.job.key] = None /\ \A p \in Procs : open'[p] = None
    BY <1>1, <1>3, RoundKnows DEF UnlinkEntry, EntryTypeOK
  <2>3. ExpirerFollows'
    BY <1>1, <2>1, <2>2, RoundKnows DEF ExpirerFollows
  <2> QED
    BY <1>1, <2>2, <2>3, RoundKnows, RoundFollows, SameFull
<1> QED
  BY <1>2, <1>3 DEF UnlinkRemoved

LEMMA DeleteRemovedFollows == ASSUME Round, NEW rest, DeleteRemoved(rest) PROVE Follows'
<1> DEFINE path == <<xp.job.ent.space, xp.job.key[1], xp.job.key[2]>>
<1>1. /\ xp.pc = "deldir" /\ xp'.pc = "reap" /\ UNCHANGED <<entry, open>>
      /\ DelDir(path, rest)
  BY RoundKnows DEF DeleteRemoved, Fields
<1>2. path \in Path
  BY <1>1, RoundKnows, JobNames DEF JobPc
<1>3. (Full \subseteq dirs)'
  <2> HIDE DEF path
  <2> QED
    BY <1>1, <1>2, DeletionFollows
<1>4. ExpirerFollows'
  BY <1>1, RoundKnows DEF ExpirerFollows
<1> QED
  BY <1>1, <1>3, <1>4, RoundKnows, RoundFollows

LEMMA ContinueRunFollows == ASSUME Round, ContinueRun PROVE Follows'
BY ListingFollows, VisitDirFollows, VisitTrashFollows, ExpireEntryFollows,
   ExpireDirFollows, UnlinkRemovedFollows, DeleteRemovedFollows
DEF ContinueRun

-----------------------------------------------------------------------------
(* The invariant                                                           *)

\* The clock and the jobs.
LEMMA OutsideFollows ==
    ASSUME TypeOK, Follows, Observe, ClockTicks \/ JobStep PROVE Follows'
<1>1. /\ UNCHANGED <<entry, open, dirs, tool, xp>> /\ now \in Nat /\ now' \in {now, now + 1}
      /\ unmarked \subseteq unmarked'
  BY LiveLabel DEF ClockTicks, Tick, JobStep, JobWrites, toolVars, TypeOK, StoreTypeOK, Observe
<1>2. (Full \subseteq dirs)' /\ \A x \in Full' \ Full : x[3] = Live
  <2>1. CASE ClockTicks
    BY <2>1, SameFull, SameData DEF ClockTicks, Tick, Follows
  <2>2. ASSUME NEW d \in Data, NEW s \in Spaces, NEW i \in Ids, JobWrites(d, s, i)
        PROVE  (Full \subseteq dirs)' /\ \A x \in Full' \ Full : x[3] = Live
    <3>1. Full' \subseteq Full \cup {<<s, i, Live>>}
      BY <2>2 DEF JobWrites, Full, TypeOK, StoreTypeOK
    <3>2. <<s, i, Live>> \in dirs /\ <<s, i, Live>>[3] = Live
      BY <2>2 DEF JobWrites
    <3> QED
      BY <1>1, <3>1, <3>2 DEF Follows
  <2> QED
    BY <2>1, <2>2 DEF JobStep
<1>3. ASSUME NEW p \in Procs PROVE ToolFollows(p)' /\ ReleaseFollows(p)'
  <2>1. ToolFollows(p) /\ ReleaseFollows(p)
    BY DEF Follows
  <2>2. tool[p].pc = "unlink" => <<tool[p].ent.space, tool[p].id, tool[p].ts>> \notin Full'
    <3>1. <<tool[p].ent.space, tool[p].id, tool[p].ts>>[3] = tool[p].ts
      OBVIOUS
    <3>2. tool[p].pc = "unlink" => tool[p].ts # Live
             /\ <<tool[p].ent.space, tool[p].id, tool[p].ts>> \notin Full
      BY <2>1 DEF ToolFollows
    <3> QED
      BY <1>2, <3>1, <3>2
  <2>3. ToolFollows(p)'
    BY <1>1, <2>1, <2>2 DEF ToolFollows, Readable, Names
  <2>4. tool[p].ts \in Nat
    BY LiveLabel DEF TypeOK, ToolTypeOK, Process
  <2>5. ReleaseFollows(p)'
    BY <1>1, <2>1, <2>4 DEF ReleaseFollows, Releases, Marked
  <2> QED
    BY <2>3, <2>5
<1>4. ExpirerFollows'
  <2>1. ExpirerFollows
    BY DEF Follows
  <2>2. xp.pc = "retire" => xp.job.ts \in Nat /\ xp.job.ent.exp \in Nat
    BY LiveLabel DEF TypeOK, ExpirerTypeOK, Job, Entry
  <2> QED
    BY <1>1, <2>1, <2>2, SameLists DEF ExpirerFollows, Running, ToolsIdle, At
<1> QED
  BY <1>2, <1>3, <1>4 DEF Follows

\* What can go wrong with a tool.
Fails(p) == Crash(p) \/ OpenFails(p) \/ WriteFails(p)

\* A step of a tool takes no time, and a tool that goes on has been started.
LEMMA TurnTime ==
    ASSUME NEW p \in Procs, Launch(p) \/ Proceed(p) \/ Fails(p) PROVE UNCHANGED now
<1>1. CASE Launch(p)
  BY <1>1 DEF Launch, Reuse, Allocate, ReadForExtend, ReadForRelease, ReadTarget,
              CheckRevivable, storeVars
<1>2. CASE Proceed(p)
  BY <1>2 DEF Proceed, MakeDir, CreateEntry, UseExtension, MarkReleased, FinishWrite,
              RetireEntry, RetireDir, WipeData, ForgetEntry, ReadSource, Refill,
              UnlinkSource, ReviveEntry, PutBack, storeVars
<1>3. CASE Fails(p)
  BY <1>3 DEF Fails, Crash, OpenFails, WriteFails, storeVars
<1> QED
  BY <1>1, <1>2, <1>3

LEMMA TurnBusy ==
    ASSUME NEW p \in Procs, Proceed(p) \/ Fails(p) PROVE tool[p].pc # "idle"
BY Zenon DEF Proceed, MakeDir, CreateEntry, UseExtension, MarkReleased, FinishWrite,
             RetireEntry, RetireDir, WipeData, ForgetEntry, ReadSource, Refill,
             UnlinkSource, ReviveEntry, PutBack, Fails, Crash, OpenFails, WriteFails,
             At

LEMMA FollowsKept ==
    ASSUME OneAtATime, TypeOK, RunInv, Follows, Next PROVE Follows'
<1>0. Observe
  BY DEF Next
<1>1. CASE ClockTicks \/ JobStep
  BY <1>0, <1>1, OutsideFollows
<1>2. ASSUME NEW p \in Procs, UNCHANGED xp,
             (~Running /\ Launch(p)) \/ Proceed(p) \/ Fails(p)
      PROVE  Follows'
  <2>1. UNCHANGED now
    BY <1>2, TurnTime
  <2>2. ~Running
    <3>1. ~Running \/ tool[p].pc # "idle"
      BY <1>2, TurnBusy
    <3> QED
      BY <1>2, <3>1 DEF Follows, ExpirerFollows, ToolsIdle, At
  <2> QED
    BY <1>0, <1>2, <2>1, <2>2, LaunchFollows, ProceedFollows, CrashFollows, OpenFailsFollows,
       WriteFailsFollows
    DEF Turn, Fails
<1>3. CASE RunStarts
  <2>1. /\ ToolsIdle /\ UNCHANGED <<now, entry, open, dirs, where, tool>>
        /\ xp'.pc = "scan" /\ xp'.paths = {}
    BY <1>3 DEF RunStarts, StartRun, Resting, storeVars, toolVars, OneAtATime
  <2>2. ExpirerFollows'
    BY <2>1 DEF ExpirerFollows, ToolsIdle, At
  <2>3. \A p \in Procs : ToolFollows(p)' /\ ReleaseFollows(p)'
    BY <2>1 DEF Follows, ToolFollows, ReleaseFollows, Releases, ToolsIdle, At
  <2> QED
    BY <2>1, <2>2, <2>3, SameFull DEF Follows
<1>4. CASE RunStep
  <2>1. Running /\ UNCHANGED <<tool, now>>
    BY <1>4, RunStepRuns DEF RunStep, toolVars
  <2> QED
    BY <1>0, <1>4, <2>1, ContinueRunFollows DEF RunStep, Round
<1>5. CASE RunCrashes
  BY <1>0, <1>5, AbortFollows DEF RunCrashes, Round, storeVars
<1> QED
  BY <1>1, <1>2, <1>3, <1>4, <1>5
  DEF Next, ToolStarts, ToolStep, ToolCrashes, DiskFails, Fails, OneAtATime

LEMMA FollowsInductive == ASSUME OneAtATime PROVE Spec => []Follows
<1>1. Init => Follows
  <2> SUFFICES ASSUME Init PROVE Follows
    OBVIOUS
  <2>1. Full = {}
    BY StoreAssumption DEF Init, StoreInit, Full
  <2>2. \A p \in Procs : tool[p].pc = "idle" /\ open[p] = None
    BY DEF Init, StoreInit, ToolInit, Idle
  <2>3. xp.pc = "idle"
    BY DEF Init, ExpirerInit, Resting
  <2> QED
    BY <2>1, <2>2, <2>3
    DEF Follows, ToolFollows, ReleaseFollows, Releases, Marked, ExpirerFollows, Running
<1>2. ASSUME IInv, Follows, [Next]_vars PROVE Follows'
  <2>1. CASE UNCHANGED vars
    <3>1. UNCHANGED <<now, entry, open, dirs, where, tool, xp, unmarked>>
      BY <2>1 DEF vars, storeVars, toolVars, histVars
    <3>2. ASSUME NEW p \in Procs PROVE ToolFollows(p)' /\ ReleaseFollows(p)'
      <4>1. Full' = Full /\ \A k, s : Readable(k)' = Readable(k) /\ Names(k, s)' = Names(k, s)
        BY <3>1 DEF Readable, Names, Full
      <4>2. ToolFollows(p) /\ ReleaseFollows(p)
        BY <1>2 DEF Follows
      <4> QED
        BY <3>1, <4>1, <4>2 DEF ToolFollows, ReleaseFollows, Releases, Marked
    <3>3. ExpirerFollows'
      BY <1>2, <3>1, SameLists DEF Follows, ExpirerFollows, Running, ToolsIdle, At
    <3> QED
      BY <1>2, <3>1, <3>2, <3>3, SameFull DEF Follows
  <2> QED
    BY <1>2, <2>1, FollowsKept DEF IInv
<1>3. IInv /\ Follows /\ [Next]_vars => Follows'
  BY <1>2
<1> QED
  BY <1>1, <1>3, Inductive, PTL DEF Spec
-----------------------------------------------------------------------------
(* The mapping as functions, and what it is at each position               *)

says  == [k \in Key |-> Content(k)]
owns  == [x \in Path |-> Owner(x)]

\* What an entry says when nobody writes it, and of whose data a directory is
\* when nobody moves it.
plain == [k \in Key |-> IF entry[k] = Empty THEN Broken ELSE entry[k]]

Sight(c)  == IF c \in Entry THEN Seen(c) ELSE c
KeyOf(x)  == <<x[2], x[3]>>
Part(x)   == IF x[3] = Live THEN x[2] ELSE KeyOf(x)

base == [x \in Path |-> IF says[KeyOf(x)] \in Entry /\ says[KeyOf(x)].space = x[1]
                        THEN Part(x) ELSE Stray]

MapLife ==
    /\ lifeLive = [i \in Ids |-> Sight(says[<<i, Live>>])]
    /\ lifeKept = [k \in Ids \X Time |-> Sight(says[k])]
    /\ lifePlace = [d \in Data |-> IF where[d] \in {Unwritten, Gone} THEN where[d]
                                   ELSE owns[where[d]]]

MapContent ==
    /\ says \in [Key -> Entry \cup {None, Broken}]
    /\ \A p \in Procs, k \in Key :
          /\ At(p, "write") =>
                says[k] = IF k = <<tool[p].id, Live>> /\ open[p] # None THEN tool[p].ent
                          ELSE plain[k]
          /\ At(p, "putback") =>
                says[k] = IF k = <<tool[p].id, Live>> THEN None
                          ELSE IF k = <<tool[p].id, tool[p].ts>> THEN tool[p].ent
                          ELSE plain[k]
    /\ (\A p \in Procs : tool[p].pc \notin {"write", "putback"}) => says = plain

MapOwner ==
    /\ owns \in [Path -> Ids \cup (Ids \X Time) \cup {Stray}]
    /\ \A p \in Procs, x \in Path : At(p, "movedir") =>
          owns[x] = IF /\ x = <<tool[p].ent.space, tool[p].id, Live>>
                       /\ entry[<<tool[p].id, tool[p].ts>>] \in Entry
                    THEN <<tool[p].id, tool[p].ts>> ELSE base[x]
    /\ xp.pc = "movedir" => \A x \in Path :
          owns[x] = IF /\ x = <<xp.job.ent.space, xp.job.key[1], Live>>
                       /\ CanRename(x, <<xp.job.ent.space, xp.job.key[1], xp.job.ts>>)
                    THEN <<xp.job.key[1], xp.job.ts>> ELSE base[x]
    /\ xp.pc # "movedir" /\ (\A p \in Procs : ~At(p, "movedir")) => owns = base

Mapped == MapLife /\ MapContent /\ MapOwner

LEMMA LifeNames ==
    /\ Life!Time = Time /\ Life!Kept = Ids \X Time
    /\ Life!Workspace = [exp : Nat, ext : 0 .. MaxExt, released : 0 .. MaxTime]
    /\ None \notin Life!Workspace /\ Broken \notin Life!Workspace
    /\ \A e \in Entry : Seen(e) \in Life!Workspace
    /\ \A c : c \in Entry \cup {None, Broken} =>
          /\ Sight(c) = None <=> c = None
          /\ Sight(c) \in Life!Workspace <=> c \in Entry
    /\ \A i \in Ids, t \in Time : <<i, t>> \in Key /\ <<i, t>> \in Ids \X Time
    /\ \A k \in Ids \X Time : k \in Key /\ k[2] # Live
<1>1. /\ Life!Time = Time /\ Life!Kept = Ids \X Time
      /\ Life!Workspace = [exp : Nat, ext : 0 .. MaxExt, released : 0 .. MaxTime]
  BY DEF Life!Time, Time, Life!Kept, Life!Workspace
<1>2. None \notin Life!Workspace /\ Broken \notin Life!Workspace
      /\ None \notin Entry /\ Broken \notin Entry
  BY <1>1, LifeAssumption, StoreAssumption
<1>3. \A e \in Entry : Seen(e) \in Life!Workspace
  BY <1>1, StoreAssumption DEF Seen, Entry, Label, Live, Time
<1>4. \A c : c \in Entry \cup {None, Broken} =>
         /\ Sight(c) = None <=> c = None
         /\ Sight(c) \in Life!Workspace <=> c \in Entry
  BY <1>2, <1>3 DEF Sight
<1>5. /\ \A i \in Ids, t \in Time : <<i, t>> \in Key /\ <<i, t>> \in Ids \X Time
      /\ \A k \in Ids \X Time : k \in Key /\ k[2] # Live
  BY LiveIsNoTime DEF Key, Label
<1> QED
  BY <1>1, <1>2, <1>3, <1>4, <1>5

\* Names, pairs and the other places are different.
LEMMA LifePlaces ==
    /\ \A i \in Ids, k \in Ids \X Time : i # k
    /\ \A x \in Ids \cup (Ids \X Time) : x \notin {Stray, Unwritten, Gone}
    /\ Stray \notin {Unwritten, Gone} /\ Unwritten # Gone
    /\ Unwritten \notin Path /\ Gone \notin Path
    /\ \A x \in Path : /\ KeyOf(x) \in Key /\ Part(x) \in Ids \cup (Ids \X Time)
                       /\ x[1] \in Spaces /\ x[2] \in Ids /\ x[3] \in Label
                       /\ x = <<x[1], x[2], x[3]>>
                       /\ \A i \in Ids : Part(x) = i <=> x[2] = i /\ x[3] = Live
                       /\ \A k \in Ids \X Time : Part(x) = k <=> KeyOf(x) = k
<1>1. \A k \in Ids \X Time : k \in Key /\ k[2] # Live
  BY LifeNames
<1>2. /\ \A i \in Ids, k \in Key : i # k
      /\ \A x \in Ids \cup Key : x \notin {Stray, Unwritten, Gone}
  BY LifeAssumption
<1>3. ASSUME NEW x \in Path
      PROVE  /\ KeyOf(x) \in Key /\ x[1] \in Spaces /\ x[2] \in Ids /\ x[3] \in Label
             /\ x = <<x[1], x[2], x[3]>> /\ KeyOf(x)[2] = x[3]
  BY DEF Path, Key, KeyOf
<1>4. ASSUME NEW x \in Path, x[3] # Live PROVE KeyOf(x) \in Ids \X Time
  BY <1>3, <1>4 DEF KeyOf, Label
<1>5. ASSUME NEW x \in Path
      PROVE  /\ Part(x) \in Ids \cup (Ids \X Time)
             /\ \A i \in Ids : Part(x) = i <=> x[2] = i /\ x[3] = Live
             /\ \A k \in Ids \X Time : Part(x) = k <=> KeyOf(x) = k
  BY <1>1, <1>2, <1>3, <1>4 DEF Part
<1> QED
  BY <1>1, <1>2, <1>3, <1>5, LifeAssumption, StoreAssumption

LEMMA ContentMapped == ASSUME OneAtATime, TypeOK, Follows PROVE MapContent
<1>0. /\ tool \in [Procs -> Process] /\ entry \in [Key -> Entry \cup {Empty, None}]
      /\ \A p \in Procs : WellFormed(tool[p])
      /\ \A k \in Key : k = <<k[1], k[2]>> /\ k[1] \in Ids /\ k[2] \in Label
      /\ \A p, q \in Procs : p = q
  BY Paths DEF TypeOK, StoreTypeOK, ToolTypeOK, OneAtATime
<1>1. ASSUME \A p \in Procs : tool[p].pc # "putback", NEW k \in Key
      PROVE  Content(k) = IF entry[k] = Empty
                          THEN IF \E p \in Procs : open[p] = k THEN tool[Writer(k)].ent
                                                               ELSE Broken
                          ELSE entry[k]
  BY <1>1 DEF Content, Reviving, At
<1>2. ASSUME \A p \in Procs : tool[p].pc \notin {"write", "putback"} PROVE says = plain
  <2>1. \A p \in Procs : open[p] = None
    BY <1>2 DEF Follows, ToolFollows
  <2>2. ASSUME NEW k \in Key PROVE Content(k) = IF entry[k] = Empty THEN Broken ELSE entry[k]
    BY <1>1, <1>2, <2>1, StoreAssumption
  <2> QED
    BY <2>2 DEF says, plain
<1>3. ASSUME NEW p \in Procs, At(p, "write"), NEW k \in Key
      PROVE  says[k] = IF k = <<tool[p].id, Live>> /\ open[p] # None THEN tool[p].ent
                       ELSE plain[k]
  <2>1. /\ open[p] # None => /\ open[p] = <<tool[p].id, Live>>
                             /\ entry[<<tool[p].id, Live>>] = Empty
        /\ \A q \in Procs : q = p
        /\ k # None
    BY <1>0, <1>3, StoreAssumption DEF Follows, ToolFollows, At
  <2>2. \A q \in Procs : tool[q].pc # "putback"
    BY <1>3, <2>1 DEF At
  <2>3. k = <<tool[p].id, Live>> /\ open[p] # None => Writer(k) = p
    BY <2>1 DEF Writer
  <2>4. Content(k) = IF k = <<tool[p].id, Live>> /\ open[p] # None THEN tool[p].ent
                     ELSE IF entry[k] = Empty THEN Broken ELSE entry[k]
    BY <1>1, <2>1, <2>2, <2>3
  <2> QED
    BY <2>4 DEF says, plain
<1>4. ASSUME NEW p \in Procs, At(p, "putback"), NEW k \in Key
      PROVE  says[k] = IF k = <<tool[p].id, Live>> THEN None
                       ELSE IF k = <<tool[p].id, tool[p].ts>> THEN tool[p].ent
                       ELSE plain[k]
  <2> DEFINE i == tool[p].id
             t == tool[p].ts
  <2>1. /\ entry[<<i, Live>>] = tool[p].ent /\ entry[<<i, t>>] = None /\ t # Live
        /\ i \in Ids /\ tool[p].ent \in Entry /\ t \in Label
        /\ \A q \in Procs : q = p /\ open[q] = None
    BY <1>0, <1>4 DEF Follows, ToolFollows, At, WellFormed, Process
  <2>2. \A from, to : Reviving(from, to) <=> from = <<i, t>> /\ to = <<i, Live>>
    BY <1>4, <2>1 DEF Reviving
  <2>3. /\ Reviving(k, <<k[1], Live>>) <=> k = <<i, t>>
        /\ (\E l \in Label : Reviving(<<k[1], l>>, k)) <=> k = <<i, Live>>
    BY <1>0, <2>1, <2>2
  <2>4. entry[<<i, Live>>] # Empty /\ entry[<<i, t>>] # Empty
    BY <2>1, StoreAssumption
  <2>5. ~\E q \in Procs : open[q] = k
    BY <2>1, StoreAssumption
  <2>6. CASE k = <<i, Live>>
    <3>1. Content(k) = None
      BY <2>1, <2>3, <2>4, <2>6 DEF Content
    <3> QED
      BY <2>6, <3>1 DEF says
  <2>7. CASE k = <<i, t>>
    <3>1. Content(k) = entry[<<k[1], Live>>]
      BY <2>1, <2>3, <2>4, <2>7 DEF Content
    <3> QED
      BY <2>1, <2>7, <3>1 DEF says
  <2>8. CASE k # <<i, Live>> /\ k # <<i, t>>
    <3>1. Content(k) = IF entry[k] = Empty THEN Broken ELSE entry[k]
      BY <2>3, <2>5, <2>8 DEF Content
    <3> QED
      BY <2>8, <3>1 DEF says, plain
  <2> QED
    BY <2>6, <2>7, <2>8
<1>5. says \in [Key -> Entry \cup {None, Broken}]
  <2>1. plain \in [Key -> Entry \cup {None, Broken}]
    BY <1>0 DEF plain
  <2>2. \A k \in Key : says[k] \in Entry \cup {None, Broken}
    <3>1. CASE \A p \in Procs : tool[p].pc \notin {"write", "putback"}
      BY <1>2, <2>1, <3>1
    <3>2. ASSUME NEW p \in Procs, tool[p].pc \in {"write", "putback"}, NEW k \in Key
          PROVE  says[k] \in Entry \cup {None, Broken}
      <4>1. tool[p].ent \in Entry
        BY <1>0, <3>2 DEF WellFormed
      <4> QED
        BY <1>3, <1>4, <2>1, <3>2, <4>1 DEF At
    <3> QED
      BY <3>1, <3>2
  <2> QED
    BY <2>2 DEF says
<1> QED
  BY <1>2, <1>3, <1>4, <1>5 DEF MapContent

LEMMA OneOfOne == \A x : OneOf({x}) = x
BY DEF OneOf

LEMMA OwnerMapped == ASSUME OneAtATime, TypeOK, Follows, MapContent PROVE MapOwner
<1>0. /\ tool \in [Procs -> Process] /\ \A p \in Procs : WellFormed(tool[p])
      /\ \A p, q \in Procs : p = q
      /\ xp.pc = "movedir" => \A p \in Procs : ~At(p, "movedir")
      /\ xp.pc = "movedir" => xp.job \in Job
  BY DEF TypeOK, ToolTypeOK, OneAtATime, Follows, ExpirerFollows, Running, ToolsIdle, At,
         ExpirerTypeOK
<1>1. ASSUME NEW x \in Path, x[3] # Live \/ Following(x) = {} PROVE owns[x] = base[x]
  <2>1. says[KeyOf(x)] = Content(KeyOf(x))
    BY LifePlaces DEF says
  <2>2. Owner(x) = IF Content(KeyOf(x)) \in Entry /\ Content(KeyOf(x)).space = x[1]
                   THEN Part(x) ELSE Stray
    BY <1>1 DEF Owner, Part, KeyOf
  <2> QED
    BY <2>1, <2>2 DEF owns, base
<1>2. ASSUME NEW x \in Path, NEW k, x[3] = Live, Following(x) = {k} PROVE owns[x] = k
  <2>1. Owner(x) = k
    BY <1>2, OneOfOne DEF Owner
  <2> QED
    BY <2>1 DEF owns
<1>3. ASSUME NEW p \in Procs, At(p, "movedir"), NEW x \in Path
      PROVE  owns[x] = IF /\ x = <<tool[p].ent.space, tool[p].id, Live>>
                          /\ entry[<<tool[p].id, tool[p].ts>>] \in Entry
                       THEN <<tool[p].id, tool[p].ts>> ELSE base[x]
  <2>1. /\ xp.pc # "movedir" /\ (\A q \in Procs : q = p)
        /\ <<tool[p].id, tool[p].ts>> \in Ids \X Time
    BY <1>0, <1>3 DEF WellFormed, At
  <2>2. Following(x) = IF /\ tool[p].id = x[2] /\ tool[p].ent.space = x[1]
                          /\ entry[<<tool[p].id, tool[p].ts>>] \in Entry
                       THEN {<<x[2], tool[p].ts>>} ELSE {}
    BY <1>3, <2>1 DEF Following
  <2>3. x = <<x[1], x[2], x[3]>>
    BY LifePlaces
  <2> QED
    BY <1>1, <1>2, <2>2, <2>3
<1>4. ASSUME xp.pc = "movedir", NEW x \in Path
      PROVE  owns[x] = IF /\ x = <<xp.job.ent.space, xp.job.key[1], Live>>
                          /\ CanRename(x, <<xp.job.ent.space, xp.job.key[1], xp.job.ts>>)
                       THEN <<xp.job.key[1], xp.job.ts>> ELSE base[x]
  <2>0. /\ <<xp.job.key[1], xp.job.ts>> \in Ids \X Time
        /\ entry[<<xp.job.key[1], xp.job.ts>>] \in Entry
    BY <1>0, <1>4 DEF Job, Key, Follows, ExpirerFollows
  <2>1. Following(x) = IF /\ xp.job.ent.space = x[1] /\ xp.job.key[1] = x[2]
                          /\ CanRename(x, <<x[1], x[2], xp.job.ts>>)
                       THEN {<<x[2], xp.job.ts>>} ELSE {}
    BY <1>0, <1>4, <2>0 DEF Following
  <2>2. x = <<x[1], x[2], x[3]>>
    BY LifePlaces
  <2> QED
    BY <1>1, <1>2, <2>1, <2>2
<1>5. ASSUME xp.pc # "movedir", \A p \in Procs : ~At(p, "movedir") PROVE owns = base
  <2>1. \A x \in Path : Following(x) = {}
    BY <1>5 DEF Following
  <2>2. \A x \in Path : owns[x] = base[x]
    BY <1>1, <2>1
  <2> QED
    BY <2>2 DEF owns, base
<1>6. owns \in [Path -> Ids \cup (Ids \X Time) \cup {Stray}]
  <2>1. \A x \in Path : base[x] \in Ids \cup (Ids \X Time) \cup {Stray}
    BY LifePlaces DEF base
  <2>2. ASSUME NEW x \in Path PROVE owns[x] \in Ids \cup (Ids \X Time) \cup {Stray}
    <3>1. \A p \in Procs : At(p, "movedir") => <<tool[p].id, tool[p].ts>> \in Ids \X Time
      BY <1>0 DEF WellFormed, At
    <3>2. xp.pc = "movedir" => <<xp.job.key[1], xp.job.ts>> \in Ids \X Time
      BY <1>0 DEF Job, Key
    <3> QED
      BY <1>3, <1>4, <1>5, <2>1, <3>1, <3>2
  <2> QED
    BY <2>2 DEF owns
<1> QED
  BY <1>3, <1>4, <1>5, <1>6 DEF MapOwner

LEMMA LifeMapped == ASSUME OneAtATime, TypeOK, Follows PROVE Mapped
<1>1. MapContent /\ MapOwner
  BY ContentMapped, OwnerMapped
<1>2. lifeLive = [i \in Ids |-> Sight(says[<<i, Live>>])]
  <2>1. \A i \in Ids : View(<<i, Live>>) = Sight(says[<<i, Live>>])
    BY LiveLabel, KeyInKey DEF View, Sight, says
  <2> QED
    BY <2>1 DEF lifeLive
<1>3. lifeKept = [k \in Ids \X Time |-> Sight(says[k])]
  <2>1. \A k \in Ids \X Time : View(k) = Sight(says[k])
    BY LifeNames DEF View, Sight, says
  <2> QED
    BY <2>1 DEF lifeKept
<1>4. lifePlace = [d \in Data |-> IF where[d] \in {Unwritten, Gone} THEN where[d]
                                  ELSE owns[where[d]]]
  <2>1. ASSUME NEW d \in Data, where[d] \notin {Unwritten, Gone}
        PROVE  Owner(where[d]) = owns[where[d]]
    BY <2>1 DEF owns, TypeOK, StoreTypeOK
  <2> QED
    BY <2>1 DEF lifePlace
<1> QED
  BY <1>1, <1>2, <1>3, <1>4 DEF Mapped, MapLife
-----------------------------------------------------------------------------
(* What a step changes in WsLife                                           *)

\* A step of the system, before and after which the mapping is as above.
Step == /\ OneAtATime /\ TypeOK /\ TypeOK' /\ Follows /\ Mapped /\ Mapped' /\ Observe

LEMMA StepKnows ==
    ASSUME Step
    PROVE  /\ EntryTypeOK /\ DirTypeOK /\ EntryTypeOK' /\ DirTypeOK'
           /\ says \in [Key -> Entry \cup {None, Broken}]
           /\ says' \in [Key -> Entry \cup {None, Broken}]
           /\ owns \in [Path -> Ids \cup (Ids \X Time) \cup {Stray}]
           /\ owns' \in [Path -> Ids \cup (Ids \X Time) \cup {Stray}]
           /\ \A i \in Ids : lifeLive[i] = Sight(says[<<i, Live>>])
           /\ \A k \in Ids \X Time : lifeKept[k] = Sight(says[k])
<1>1. EntryTypeOK /\ DirTypeOK
  BY StoreTypes DEF Step, TypeOK
<1>2. EntryTypeOK' /\ DirTypeOK'
  BY DEF Step, TypeOK, StoreTypeOK, EntryTypeOK, DirTypeOK
<1>3. /\ \A i \in Ids : lifeLive[i] = Sight(says[<<i, Live>>])
      /\ \A k \in Ids \X Time : lifeKept[k] = Sight(says[k])
  BY DEF Step, Mapped, MapLife
<1> QED
  BY <1>1, <1>2, <1>3 DEF Step, Mapped, MapContent, MapOwner

LEMMA SameSays ==
    ASSUME Step, says' = says PROVE UNCHANGED <<lifeLive, lifeKept>>
BY DEF Step, Mapped, MapLife

LEMMA ChangeLive ==
    ASSUME Step, NEW i \in Ids, NEW c,
           \A k \in Key : says'[k] = IF k = <<i, Live>> THEN c ELSE says[k]
    PROVE  /\ Life!Becomes(i, Sight(c)) /\ lifeLive'[i] = Sight(c)
           /\ UNCHANGED lifeKept
<1>1. \A j \in Ids : <<j, Live>> \in Key
  BY KeyInKey, LiveLabel
<1>2. \A j \in Ids : lifeLive'[j] = IF j = i THEN Sight(c) ELSE lifeLive[j]
  BY <1>1 DEF Step, Mapped, MapLife
<1>3. lifeLive' = [lifeLive EXCEPT ![i] = Sight(c)]
  BY <1>2 DEF Step, Mapped, MapLife
<1>4. \A k \in Ids \X Time : says'[k] = says[k]
  <2>1. \A k \in Ids \X Time : k \in Key /\ k # <<i, Live>>
    BY LifeNames
  <2> QED
    BY <2>1
<1>5. UNCHANGED lifeKept
  BY <1>4 DEF Step, Mapped, MapLife
<1> QED
  BY <1>2, <1>3, <1>5 DEF Life!Becomes

LEMMA ChangeKept ==
    ASSUME Step, NEW i \in Ids, NEW t \in Time, NEW c,
           \A k \in Key : says'[k] = IF k = <<i, t>> THEN c ELSE says[k]
    PROVE  /\ lifeKept' = [lifeKept EXCEPT ![<<i, t>>] = Sight(c)]
           /\ UNCHANGED lifeLive
<1>1. \A j \in Ids : <<j, Live>> \in Key /\ <<j, Live>> # <<i, t>>
  BY KeyInKey, LiveLabel, LiveIsNoTime
<1>2. UNCHANGED lifeLive
  BY <1>1 DEF Step, Mapped, MapLife
<1>3. \A k \in Ids \X Time : lifeKept'[k] = IF k = <<i, t>> THEN Sight(c) ELSE lifeKept[k]
  BY LifeNames DEF Step, Mapped, MapLife
<1>4. lifeKept' = [lifeKept EXCEPT ![<<i, t>>] = Sight(c)]
  BY <1>3, LifeNames DEF Step, Mapped, MapLife
<1> QED
  BY <1>2, <1>4

\* A workspace that is removed, or live again.
LEMMA ChangeBoth ==
    ASSUME Step, NEW i \in Ids, NEW t \in Time, NEW a, NEW c,
           \A k \in Key : says'[k] = CASE k = <<i, Live>> -> a
                                       [] k = <<i, t>>    -> c
                                       [] OTHER           -> says[k]
    PROVE  /\ Life!Becomes(i, Sight(a))
           /\ lifeKept' = [lifeKept EXCEPT ![<<i, t>>] = Sight(c)]
<1>1. \A j \in Ids : <<j, Live>> \in Key /\ <<j, Live>> # <<i, t>>
  BY KeyInKey, LiveLabel, LiveIsNoTime
<1>2. \A j \in Ids : lifeLive'[j] = IF j = i THEN Sight(a) ELSE lifeLive[j]
  BY <1>1 DEF Step, Mapped, MapLife
<1>3. lifeLive' = [lifeLive EXCEPT ![i] = Sight(a)]
  BY <1>2 DEF Step, Mapped, MapLife
<1>4. \A k \in Ids \X Time : k \in Key /\ k # <<i, Live>>
  BY LifeNames
<1>5. \A k \in Ids \X Time : lifeKept'[k] = IF k = <<i, t>> THEN Sight(c) ELSE lifeKept[k]
  BY <1>4 DEF Step, Mapped, MapLife
<1>6. lifeKept' = [lifeKept EXCEPT ![<<i, t>>] = Sight(c)]
  BY <1>5, LifeNames DEF Step, Mapped, MapLife
<1> QED
  BY <1>3, <1>6 DEF Life!Becomes

\* A datum is in a directory, or in none.
LEMMA PlaceKnows ==
    ASSUME Step, NEW d \in Data
    PROVE  /\ \/ /\ where[d] \in Full /\ where[d] \in dirs /\ where[d] \in Path
                 /\ where[d] \notin {Unwritten, Gone} /\ lifePlace[d] = owns[where[d]]
              \/ where[d] \in {Unwritten, Gone} /\ lifePlace[d] = where[d]
           /\ \/ /\ where'[d] \in Path /\ where'[d] \notin {Unwritten, Gone}
                 /\ lifePlace'[d] = owns'[where'[d]]
              \/ where'[d] \in {Unwritten, Gone} /\ lifePlace'[d] = where'[d]
<1>1. where \in [Data -> Path \cup {Unwritten, Gone}]
      /\ where' \in [Data -> Path \cup {Unwritten, Gone}] /\ Full \subseteq dirs
  BY StepKnows DEF DirTypeOK, Step, Follows
<1>2. /\ lifePlace[d] = IF where[d] \in {Unwritten, Gone} THEN where[d] ELSE owns[where[d]]
      /\ lifePlace'[d] = IF where'[d] \in {Unwritten, Gone} THEN where'[d]
                         ELSE owns'[where'[d]]
  BY DEF Step, Mapped, MapLife
<1>3. where[d] \in Path => where[d] \in Full
  BY DEF Full
<1> QED
  BY <1>1, <1>2, <1>3, LifePlaces

LEMMA MovedWhen ==
    ASSUME Step, NEW D, NEW x,
           \A d \in Data : lifePlace'[d] = IF d \in D THEN x ELSE lifePlace[d]
    PROVE  Life!Moved(D, x)
BY DEF Step, Mapped, MapLife, Life!Moved

LEMMA SamePlace ==
    ASSUME Step, \A d \in Data : lifePlace'[d] = lifePlace[d] PROVE UNCHANGED lifePlace
BY DEF Step, Mapped, MapLife

\* It suffices that the directories that hold data stay those of the same.
LEMMA SameOwners ==
    ASSUME Step, UNCHANGED where, \A x \in Path \cap Full : owns'[x] = owns[x]
    PROVE  UNCHANGED lifePlace
<1>1. \A d \in Data : lifePlace'[d] = lifePlace[d]
  BY PlaceKnows
<1> QED
  BY <1>1, SamePlace

LEMMA FoundWhen ==
    ASSUME Step, NEW x,
           \A d \in Data : \/ lifePlace'[d] = lifePlace[d]
                           \/ lifePlace[d] = Stray /\ lifePlace'[d] = x
    PROVE  Life!Found(x)
<1> DEFINE D == {d \in Data : lifePlace[d] = Stray /\ lifePlace'[d] = x}
<1>1. D \in SUBSET Life!In(Stray)
  BY DEF Life!In
<1>2. \A d \in Data : lifePlace'[d] = IF d \in D THEN x ELSE lifePlace[d]
  OBVIOUS
<1>3. Life!Moved(D, x)
  BY <1>2, MovedWhen
<1> QED
  BY <1>1, <1>3 DEF Life!Found

\* Only a release that cannot be written down is counted.
LEMMA SameUnmarked ==
    ASSUME Step,
           \A p \in Procs : \/ tool[p].pc # "mark"
                            \/ tool'[p].pc # "write"
                            \/ open'[p] # None
    PROVE  UNCHANGED unmarked
BY Zenon DEF Step, Observe, At

\* Only a tool that begins to delete data gives them up.
LEMMA WaivedGrows ==
    ASSUME Step
    PROVE  lifeWaived' = lifeWaived \cup {<<tool'[p].id, tool'[p].ts>> :
                                             p \in {q \in Procs : tool'[q].pc = "wipe"}}
<1>1. \A p \in Procs : At(p, "wipe") => <<tool[p].id, tool[p].ts>> \in Key
  BY KeyInKey, LiveLabel DEF Step, TypeOK, ToolTypeOK, WellFormed, At
<1>2. waived' = waived \cup {k \in Key : \E p \in Procs :
                                 At(p, "wipe") /\ k = <<tool[p].id, tool[p].ts>>}
  BY DEF Step, Observe
<1>3. waived' = lifeWaived
  BY <1>1, <1>2 DEF lifeWaived
<1>4. lifeWaived' = waived' \cup {<<tool'[p].id, tool'[p].ts>> :
                                     p \in {q \in Procs : tool'[q].pc = "wipe"}}
  BY DEF lifeWaived, At
<1> QED
  BY <1>3, <1>4

LEMMA SameWaived ==
    ASSUME Step,
           \A p \in Procs : tool'[p].pc = "wipe" =>
              tool[p].pc = "wipe" /\ tool'[p].id = tool[p].id /\ tool'[p].ts = tool[p].ts
    PROVE  UNCHANGED lifeWaived
<1>1. \A p \in Procs : tool'[p].pc = "wipe" => <<tool'[p].id, tool'[p].ts>> \in lifeWaived
  BY DEF lifeWaived, At
<1> QED
  BY <1>1, WaivedGrows

LifeStep == Life!Next \/ UNCHANGED Life!vars

LEMMA Stutters ==
    ASSUME UNCHANGED <<now, lifeLive, lifeKept, lifePlace, lifeWaived, unmarked, faults>>
    PROVE  LifeStep
BY DEF LifeStep, Life!vars
-----------------------------------------------------------------------------
(* The steps of a tool                                                     *)

LEMMA TurnMaps ==
    ASSUME Step, Turn, NEW p \in Procs
    PROVE  /\ tool[p].pc \notin {"write", "putback"} => says = plain
           /\ tool'[p].pc \notin {"write", "putback"} => says' = plain'
           /\ tool[p].pc # "movedir" => owns = base
           /\ tool'[p].pc # "movedir" => owns' = base'
           /\ \A k \in Key :
                 /\ tool[p].pc = "write" =>
                       says[k] = IF k = <<tool[p].id, Live>> /\ open[p] # None
                                 THEN tool[p].ent ELSE plain[k]
                 /\ tool'[p].pc = "write" =>
                       says'[k] = IF k = <<tool'[p].id, Live>> /\ open'[p] # None
                                  THEN tool'[p].ent ELSE plain'[k]
           /\ tool'[p] \in Process /\ WellFormed(tool'[p])
<1>1. /\ \A q \in Procs : q = p /\ xp.pc = "idle" /\ xp'.pc = "idle"
      /\ MapContent /\ MapOwner /\ MapContent' /\ MapOwner'
  BY TurnKnows DEF Step, Mapped
<1>2. tool[p].pc \notin {"write", "putback"} => says = plain
  BY <1>1 DEF MapContent
<1>3. tool'[p].pc \notin {"write", "putback"} => says' = plain'
  BY <1>1 DEF MapContent
<1>4. tool[p].pc # "movedir" => owns = base
  BY <1>1 DEF MapOwner, At
<1>5. tool'[p].pc # "movedir" => owns' = base'
  BY <1>1 DEF MapOwner, At
<1>6. ASSUME NEW k \in Key
      PROVE  /\ tool[p].pc = "write" =>
                   says[k] = IF k = <<tool[p].id, Live>> /\ open[p] # None
                             THEN tool[p].ent ELSE plain[k]
             /\ tool'[p].pc = "write" =>
                   says'[k] = IF k = <<tool'[p].id, Live>> /\ open'[p] # None
                              THEN tool'[p].ent ELSE plain'[k]
  BY <1>1 DEF MapContent, At
<1>7. tool'[p] \in Process /\ WellFormed(tool'[p])
  BY DEF Step, TypeOK, ToolTypeOK
<1> QED
  BY <1>2, <1>3, <1>4, <1>5, <1>6, <1>7

LEMMA BaseIs ==
    /\ \A x \in Path :
          base[x] = IF says[KeyOf(x)] \in Entry /\ says[KeyOf(x)].space = x[1]
                    THEN Part(x) ELSE Stray
    /\ \A x \in Path :
          base'[x] = IF says'[KeyOf(x)] \in Entry /\ says'[KeyOf(x)].space = x[1]
                     THEN Part(x) ELSE Stray
BY DEF base

LEMMA SameBase == ASSUME says' = says PROVE base' = base
BY DEF base

\* The steps between two positions at which nothing is about to change.
LEMMA PlainStutters ==
    ASSUME Step, Turn, NEW p \in Procs, UNCHANGED <<entry, where, faults>>,
           tool[p].pc \notin {"write", "movedir", "putback"},
           tool'[p].pc \notin {"write", "movedir", "putback", "wipe"}
    PROVE  LifeStep
<1>1. says' = says
  BY TurnMaps DEF plain
<1>2. owns' = owns
  BY <1>1, TurnMaps, SameBase
<1>3. UNCHANGED lifeWaived
  BY TurnKnows, SameWaived
<1>4. UNCHANGED unmarked
  BY TurnKnows, SameUnmarked
<1> QED
  BY <1>1, <1>2, <1>3, <1>4, TurnKnows, SameSays, SameOwners, Stutters

LEMMA LaunchEnters ==
    ASSUME Turn, NEW p \in Procs, Launch(p)
    PROVE  /\ tool[p].pc = "idle" /\ UNCHANGED <<entry, where, faults>>
           /\ tool'[p].pc \in {"idle", "mkdir", "extend", "mark", "lookup", "revive"}
<1>1. tool[p].pc = "idle" /\ UNCHANGED <<entry, where, faults>>
  BY DEF Launch, Reuse, Allocate, ReadForExtend, ReadForRelease, ReadTarget,
         CheckRevivable, Start, At, storeVars
<1>2. tool'[p].pc \in {"idle", "mkdir", "extend", "mark", "lookup", "revive"}
  <2>1. tool \in [Procs -> Process]
    BY TurnKnows
  <2>2. ASSUME NEW i \in Ids,
               \/ Reuse(p, i) \/ Allocate(p, i) \/ ReadForExtend(p, i)
               \/ \E op \in {"release", "wipe"} : ReadForRelease(p, i, op)
        PROVE  tool'[p].pc \in {"idle", "mkdir", "extend", "mark"}
    BY <1>1, <2>1, <2>2 DEF Reuse, Allocate, ReadForExtend, ReadForRelease, Become, Idle
  <2>3. ASSUME NEW i \in Ids, NEW t \in Time,
               (\E target \in Ids : ReadTarget(p, i, t, target)) \/ CheckRevivable(p, i, t)
        PROVE  tool'[p].pc \in {"lookup", "revive"}
    BY <2>1, <2>3 DEF ReadTarget, CheckRevivable, Become, Idle
  <2> QED
    BY <2>2, <2>3 DEF Launch
<1> QED
  BY <1>1, <1>2

LEMMA LaunchLives ==
    ASSUME Step, Turn, NEW p \in Procs, Launch(p) PROVE LifeStep
BY LaunchEnters, PlainStutters

LEMMA ReadingLives ==
    ASSUME Step, Turn, NEW p \in Procs, (\E s \in Spaces : MakeDir(p, s)) \/ ReadSource(p)
    PROVE  LifeStep
<1>1. tool[p].pc \in {"mkdir", "lookup"} /\ UNCHANGED <<entry, where, faults>>
  BY DEF MakeDir, ReadSource, At, storeVars, Continue
<1>2. tool'[p].pc \in {"create", "refill", "idle"}
  <2>1. ASSUME NEW s \in Spaces, MakeDir(p, s) PROVE tool'[p].pc = "create"
    BY <2>1, TurnKnows DEF MakeDir, Become, Process
  <2>2. ASSUME ReadSource(p) PROVE tool'[p].pc \in {"refill", "idle"}
    <3>1. CASE Exit(p)
      BY <3>1, TurnKnows DEF Exit, Become, Idle
    <3>2. CASE Become(p, [tool[p] EXCEPT !.pc = "refill",
                                         !.ent = entry[<<tool[p].id, tool[p].ts>>]])
      BY <3>2, TurnKnows DEF Become, Process
    <3> QED
      BY <2>2, <3>1, <3>2 DEF ReadSource
  <2> QED
    BY <2>1, <2>2
<1> QED
  BY <1>1, <1>2, PlainStutters

\* From the opening of an entry on, it says what the writer will write.
LEMMA OpenMaps ==
    ASSUME Step, Turn, NEW p \in Procs, tool[p].pc \in {"create", "extend", "mark"},
           OpenEntry(p, <<tool[p].id, Live>>), UNCHANGED where,
           tool'[p].pc = "write", tool'[p].id = tool[p].id
    PROVE  /\ tool[p].id \in Ids /\ says[<<tool[p].id, Live>>] = plain[<<tool[p].id, Live>>]
           /\ tool'[p].ent \in Entry /\ says'[<<tool[p].id, Live>>] = tool'[p].ent
           /\ Life!Becomes(tool[p].id, Seen(tool'[p].ent))
           /\ lifeLive'[tool[p].id] = Seen(tool'[p].ent)
           /\ lifeLive'[tool[p].id] \in Life!Workspace
           /\ UNCHANGED <<lifeKept, lifeWaived, unmarked>>
           /\ owns = base /\ owns' = base'
           /\ \A x \in Path : KeyOf(x) # <<tool[p].id, Live>> => base'[x] = base[x]
<1> DEFINE i == tool[p].id
           e == tool'[p].ent
<1>1. i \in Ids /\ e \in Entry /\ <<i, Live>> \in Key
  BY TurnKnows, TurnMaps, LiveLabel, KeyInKey DEF WellFormed
<1>2. says = plain /\ owns = base /\ owns' = base'
  BY TurnMaps
<1>3. open'[p] # None
  BY <1>1, StepKnows, StoreAssumption DEF OpenEntry, EntryTypeOK
<1>4. UNCHANGED unmarked
  BY <1>3, TurnKnows, SameUnmarked
<1>5. \A k \in Key : says'[k] = IF k = <<i, Live>> THEN e ELSE says[k]
  <2>1. \A k \in Key \ {<<i, Live>>} : plain'[k] = plain[k]
    BY StepKnows DEF plain, OpenEntry, EntryTypeOK
  <2> QED
    BY <1>2, <1>3, <2>1, TurnMaps
<1>6. Sight(e) = Seen(e) /\ Sight(e) \in Life!Workspace
  BY <1>1, LifeNames DEF Sight
<1>7. UNCHANGED lifeWaived
  BY TurnKnows, SameWaived
<1>8. \A x \in Path : KeyOf(x) # <<i, Live>> => base'[x] = base[x]
  BY <1>5, BaseIs, LifePlaces
<1>9. Life!Becomes(i, Sight(e)) /\ lifeLive'[i] = Sight(e) /\ UNCHANGED lifeKept
  <2> HIDE DEF i, e
  <2> QED
    BY <1>1, <1>5, ChangeLive
<1> QED
  BY <1>1, <1>2, <1>4, <1>5, <1>6, <1>7, <1>8, <1>9

LEMMA CreateEntryLives ==
    ASSUME Step, Turn, NEW p \in Procs, NEW duration \in Durations, CreateEntry(p, duration)
    PROVE  LifeStep
<1> DEFINE i == tool[p].id
           e == tool'[p].ent
<1>1. /\ tool[p].pc = "create" /\ UNCHANGED <<now, dirs, where, faults>>
      /\ OpenEntry(p, <<i, Live>>)
      /\ tool' = [tool EXCEPT ![p] = [tool[p] EXCEPT !.pc = "write", !.ent.exp = now + duration]]
  BY DEF CreateEntry, At, Become, Continue
<1>2. tool'[p].pc = "write" /\ tool'[p].id = i /\ e = [tool[p].ent EXCEPT !.exp = now + duration]
  BY <1>1, TurnKnows DEF Process
<1>3. entry[<<i, Live>>] = None /\ tool[p].ent.ext = MaxExt /\ tool[p].ent.rel = Live
      /\ tool[p].ent \in Entry
  BY <1>1, TurnKnows DEF ToolFollows, WellFormed
<1>4. e.exp >= now /\ e.ext = MaxExt /\ e.rel = 0
  <2>1. now + duration >= now
    BY TurnKnows, ToolAssumption
  <2> QED
    BY <1>2, <1>3, <2>1 DEF Entry, Live
<1>5. /\ i \in Ids /\ says[<<i, Live>>] = plain[<<i, Live>>] /\ e \in Entry
      /\ Life!Becomes(i, Seen(e)) /\ lifeLive'[i] = Seen(e)
      /\ lifeLive'[i] \in Life!Workspace
      /\ UNCHANGED <<lifeKept, lifeWaived, unmarked>> /\ owns = base /\ owns' = base'
      /\ \A x \in Path : KeyOf(x) # <<i, Live>> => base'[x] = base[x]
  BY <1>1, <1>2, OpenMaps
<1>6. says[<<i, Live>>] = None /\ lifeLive[i] = None
  <2>1. says[<<i, Live>>] = None
    BY <1>3, <1>5, KeyInKey, LiveLabel, StoreAssumption DEF plain
  <2> QED
    BY <1>5, <2>1, StepKnows, LifeNames
<1>7. Life!Found(i)
  <2>1. ASSUME NEW x \in Path, KeyOf(x) = <<i, Live>>
        PROVE  base[x] = Stray /\ base'[x] \in {i, Stray}
    <3>1. base[x] = Stray
      BY <1>6, <2>1, BaseIs, StoreAssumption
    <3>2. Part(x) = i
      BY <1>5, <2>1, LifePlaces DEF KeyOf
    <3> QED
      BY <3>1, <3>2, BaseIs
  <2>2. \A x \in Path : owns'[x] = owns[x] \/ (owns[x] = Stray /\ owns'[x] = i)
    BY <1>5, <2>1
  <2>3. \A d \in Data : \/ lifePlace'[d] = lifePlace[d]
                        \/ lifePlace[d] = Stray /\ lifePlace'[d] = i
    BY <1>1, <2>2, PlaceKnows
  <2> QED
    BY <2>3, FoundWhen
<1>8. Seen(e).exp >= now /\ Seen(e).ext = MaxExt /\ Seen(e).released = 0
  BY <1>4 DEF Seen
<1>9. Life!Create(i)
  BY <1>1, <1>5, <1>6, <1>7, <1>8 DEF Life!Create, Life!Rewritten
<1> QED
  BY <1>5, <1>9 DEF LifeStep, Life!Next

\* An entry that is rewritten keeps its data.
LEMMA RewriteMaps ==
    ASSUME Step, Turn, NEW p \in Procs, tool[p].pc \in {"extend", "mark"},
           OpenEntry(p, <<tool[p].id, Live>>), UNCHANGED where,
           tool'[p].pc = "write", tool'[p].id = tool[p].id,
           entry[<<tool[p].id, Live>>] \in Entry,
           tool'[p].ent.space = entry[<<tool[p].id, Live>>].space
    PROVE  /\ tool[p].id \in Ids /\ tool'[p].ent \in Entry
           /\ Life!Becomes(tool[p].id, Seen(tool'[p].ent))
           /\ lifeLive[tool[p].id] = Seen(entry[<<tool[p].id, Live>>])
           /\ lifeLive[tool[p].id] \in Life!Workspace
           /\ lifeLive'[tool[p].id] = Seen(tool'[p].ent)
           /\ lifeLive'[tool[p].id] \in Life!Workspace
           /\ UNCHANGED <<lifeKept, lifePlace, lifeWaived, unmarked>>
<1> DEFINE i == tool[p].id
           e == tool'[p].ent
<1>1. /\ i \in Ids /\ says[<<i, Live>>] = plain[<<i, Live>>] /\ e \in Entry
      /\ Life!Becomes(i, Seen(e)) /\ lifeLive'[i] = Seen(e)
      /\ lifeLive'[i] \in Life!Workspace
      /\ UNCHANGED <<lifeKept, lifeWaived, unmarked>> /\ owns = base /\ owns' = base'
      /\ \A x \in Path : KeyOf(x) # <<i, Live>> => base'[x] = base[x]
  BY OpenMaps
<1>2. says[<<i, Live>>] = entry[<<i, Live>>]
  BY <1>1, KeyInKey, LiveLabel, StoreAssumption DEF plain
<1>3. lifeLive[i] = Seen(entry[<<i, Live>>]) /\ lifeLive[i] \in Life!Workspace
  BY <1>1, <1>2, StepKnows, LifeNames DEF Sight
<1>4. says'[<<i, Live>>] = e
  BY OpenMaps
<1>5. \A x \in Path : KeyOf(x) = <<i, Live>> => base'[x] = base[x]
  BY <1>1, <1>2, <1>4, BaseIs
<1>6. UNCHANGED lifePlace
  BY <1>1, <1>5, SameOwners
<1> QED
  BY <1>1, <1>3, <1>6

LEMMA UseExtensionLives ==
    ASSUME Step, Turn, NEW p \in Procs, NEW duration \in Durations, UseExtension(p, duration)
    PROVE  LifeStep
<1> DEFINE i == tool[p].id
           e == tool[p].ent
           c == Cost(e, duration)
           r == [tool[p] EXCEPT !.pc = "write", !.ent.exp = Prolonged(e, duration),
                    !.ent.ext = e.ext - c]
<1>1. tool[p].pc = "extend" /\ UNCHANGED <<now, dirs, where, faults>>
  BY DEF UseExtension, At, Continue
<1>2. CASE Exit(p) /\ UNCHANGED entry
  <2>1. tool'[p].pc = "idle"
    BY <1>2, TurnKnows DEF Exit, Become, Idle
  <2> QED
    BY <1>1, <1>2, <2>1, PlainStutters
<1>3. CASE OpenEntry(p, <<i, Live>>) /\ Become(p, r)
  <2>1. /\ e = [entry[<<i, Live>>] EXCEPT !.rel = Live] /\ entry[<<i, Live>>] \in Entry
        /\ e \in Entry
    BY <1>1, TurnKnows DEF ToolFollows, Readable, WellFormed
  <2>2. r.pc = "write" /\ r.id = i
        /\ r.ent = [e EXCEPT !.exp = Prolonged(e, duration), !.ext = e.ext - c]
    BY <2>1, TurnKnows DEF Process, Entry
  <2> HIDE DEF r
  <2>3. tool'[p] = r
    BY <1>3, TurnKnows DEF Become
  <2>4. /\ tool'[p].pc = "write" /\ tool'[p].id = i
        /\ tool'[p].ent = [e EXCEPT !.exp = Prolonged(e, duration), !.ext = e.ext - c]
    BY <2>2, <2>3
  <2>5. /\ tool'[p].ent.space = entry[<<i, Live>>].space
        /\ e.exp = entry[<<i, Live>>].exp /\ e.ext = entry[<<i, Live>>].ext /\ e.rel = 0
    BY <2>1, <2>4 DEF Entry, Live
  <2>6. /\ i \in Ids /\ Life!Becomes(i, Seen(tool'[p].ent))
        /\ lifeLive[i] = Seen(entry[<<i, Live>>]) /\ lifeLive[i] \in Life!Workspace
        /\ lifeLive'[i] = Seen(tool'[p].ent) /\ lifeLive'[i] \in Life!Workspace
        /\ UNCHANGED <<lifeKept, lifePlace, lifeWaived, unmarked>>
    BY <1>1, <1>3, <2>1, <2>4, <2>5, RewriteMaps
  <2>7. /\ tool'[p].ent.exp = Prolonged(e, duration) /\ tool'[p].ent.ext = e.ext - c
        /\ tool'[p].ent.rel = 0
    BY <2>1, <2>4, <2>5 DEF Entry
  <2>8. /\ lifeLive'[i].exp = Prolonged(e, duration) /\ lifeLive'[i].ext = e.ext - c
        /\ lifeLive'[i].released = 0
        /\ lifeLive[i].exp = e.exp /\ lifeLive[i].ext = e.ext
    BY <2>5, <2>6, <2>7 DEF Seen
  <2>9. lifeLive'[i].ext = IF lifeLive'[i].exp > lifeLive[i].exp THEN lifeLive[i].ext - 1
                           ELSE lifeLive[i].ext
    <3>1. e.ext \in Nat
      BY <2>1, StoreAssumption DEF Entry
    <3> QED
      BY <2>8, <3>1 DEF Cost, Longer
  <2>10. Life!Prolong(i)
    BY <1>1, <2>6, <2>8, <2>9 DEF Life!Prolong, Life!Rewritten
  <2> QED
    BY <2>6, <2>10 DEF LifeStep, Life!Next
<1> QED
  BY <1>2, <1>3 DEF UseExtension

LEMMA MarkReleasedLives ==
    ASSUME Step, Turn, NEW p \in Procs, MarkReleased(p) PROVE LifeStep
<1> DEFINE i == tool[p].id
           e == tool[p].ent
<1>1. /\ tool[p].pc = "mark" /\ UNCHANGED <<now, dirs, where, faults>>
      /\ OpenEntry(p, <<i, Live>>)
      /\ tool' = [tool EXCEPT ![p] = [tool[p] EXCEPT !.pc = "write", !.ent.exp = now,
                                                     !.ent.rel = now]]
  BY DEF MarkReleased, At, Become, Continue
<1>2. entry[<<i, Live>>] = e /\ e \in Entry
  BY <1>1, TurnKnows DEF ToolFollows, WellFormed
<1>3. /\ tool'[p].pc = "write" /\ tool'[p].id = i
      /\ tool'[p].ent = [e EXCEPT !.exp = now, !.rel = now]
  BY <1>1, <1>2, TurnKnows DEF Process, Entry
<1>4. tool'[p].ent.space = e.space
      /\ Seen(tool'[p].ent) = [exp |-> now, ext |-> Seen(e).ext, released |-> now]
  <2>1. /\ tool'[p].ent.exp = now /\ tool'[p].ent.ext = e.ext /\ tool'[p].ent.rel = now
        /\ tool'[p].ent.space = e.space
    BY <1>2, <1>3 DEF Entry
  <2>2. Seen(tool'[p].ent) = [exp |-> now, ext |-> e.ext, released |-> now]
    BY <2>1 DEF Seen
  <2>3. Seen(e).ext = e.ext
    BY DEF Seen
  <2> QED
    BY <2>1, <2>2, <2>3
<1>5. /\ i \in Ids /\ Life!Becomes(i, Seen(tool'[p].ent))
      /\ lifeLive[i] = Seen(e) /\ lifeLive[i] \in Life!Workspace
      /\ UNCHANGED <<lifeKept, lifePlace, lifeWaived, unmarked>>
  BY <1>1, <1>2, <1>3, <1>4, RewriteMaps
<1>6. Life!Mark(i)
  BY <1>1, <1>4, <1>5 DEF Life!Mark
<1> QED
  BY <1>5, <1>6 DEF LifeStep, Life!Next

LEMMA FinishWriteLives ==
    ASSUME Step, Turn, NEW p \in Procs, FinishWrite(p) PROVE LifeStep
<1> DEFINE i == tool[p].id
           e == tool[p].ent
<1>1. /\ tool[p].pc = "write" /\ UNCHANGED <<now, dirs, where, faults>>
      /\ WriteEntry(p, e)
  BY DEF FinishWrite, At, Continue
<1>2. tool'[p].pc \in {"idle", "retire"}
  <2>1. CASE Exit(p)
    BY <2>1, TurnKnows DEF Exit, Become, Idle
  <2>2. CASE Goto(p, "retire")
    BY <2>2, TurnKnows DEF Goto, Become, Process
  <2> QED
    BY <2>1, <2>2 DEF FinishWrite
<1>3. /\ open[p] # None => open[p] = <<i, Live>>
      /\ i \in Ids /\ e \in Entry /\ <<i, Live>> \in Key
  BY <1>1, TurnKnows, KeyInKey, LiveLabel DEF ToolFollows, WellFormed
<1>4. e # Empty
  BY <1>3, StoreAssumption
<1>5. entry' = IF open[p] = None THEN entry ELSE [entry EXCEPT ![<<i, Live>>] = e]
  BY <1>1, <1>3 DEF WriteEntry
<1>6. \A k \in Key : says'[k] = says[k]
  <2>1. \A k \in Key : plain'[k] = IF k = <<i, Live>> /\ open[p] # None THEN e ELSE plain[k]
    BY <1>4, <1>5, StepKnows DEF plain, EntryTypeOK
  <2> QED
    BY <1>1, <1>2, <2>1, TurnMaps
<1>7. says' = says
  BY <1>6, StepKnows
<1>8. owns' = owns
  BY <1>1, <1>2, <1>7, TurnMaps, SameBase
<1>9. UNCHANGED <<lifeWaived, unmarked>>
  BY <1>1, <1>2, TurnKnows, SameWaived, SameUnmarked
<1> QED
  BY <1>1, <1>7, <1>8, <1>9, SameSays, SameOwners, Stutters

\* When the file cannot be opened the workspace stays what it is, and a release
\* is not written down.
LEMMA OpenFailsLives ==
    ASSUME Step, Turn, NEW p \in Procs, OpenFails(p) PROVE LifeStep
<1> DEFINE k == <<tool[p].id, tool[p].ts>>
<1>1. /\ tool[p].pc \in {"create", "mark", "extend"} /\ faults' = faults + 1
      /\ UNCHANGED <<now, entry, open, dirs, where>> /\ open'[p] = None
  BY TurnKnows DEF OpenFails, At, storeVars, ToolFollows
<1>2. tool'[p].pc = "write"
  BY TurnKnows DEF OpenFails, Goto, Become, Process
<1>3. /\ tool[p].id \in Ids /\ k \in Key /\ <<tool[p].id, Live>> \in Key
      /\ tool[p].ent \in Entry
  BY <1>1, TurnKnows, KeyInKey, LiveLabel DEF WellFormed, Process
<1>4. says' = says
  <2>1. \A x \in Key : says'[x] = says[x]
    BY <1>1, <1>2, TurnMaps DEF plain
  <2> QED
    BY <2>1, StepKnows
<1>5. owns' = owns
  BY <1>1, <1>2, <1>4, TurnMaps, SameBase
<1>6. UNCHANGED <<lifeLive, lifeKept, lifePlace, lifeWaived>>
  BY <1>1, <1>2, <1>4, <1>5, TurnKnows, SameSays, SameOwners, SameWaived
<1>7. CASE tool[p].pc # "mark"
  <2>1. UNCHANGED unmarked
    BY <1>7, TurnKnows, SameUnmarked
  <2>2. now \in Life!Time
    BY LifeNames DEF Turn, TypeOK, StoreTypeOK
  <2>3. Life!Moved({}, Stray)
    BY <1>6, MovedWhen
  <2>4. Life!Fault(tool[p].id)
    BY <1>1, <1>6, <2>1, <2>2, <2>3 DEF Life!Fault
  <2> QED
    BY <1>3, <2>4 DEF LifeStep, Life!Next
<1>8. CASE tool[p].pc = "mark"
  <2>1. unmarked' = unmarked \cup {k}
    <3>1. \A x \in Key : (\E q \in Procs : /\ At(q, "mark") /\ tool'[q].pc = "write"
                                           /\ open'[q] = None
                                           /\ x = <<tool[q].id, tool[q].ts>>) <=> x = k
      BY <1>1, <1>2, <1>8, TurnKnows DEF At
    <3> QED
      BY <1>3, <3>1 DEF Step, Observe
  <2>2. tool[p].ts \in Life!Time
    BY <1>8, TurnKnows, LifeNames DEF ReleaseFollows
  <2>3. says[<<tool[p].id, Live>>] = tool[p].ent
    <3>1. entry[<<tool[p].id, Live>>] = tool[p].ent /\ tool[p].ent # Empty
      BY <1>3, <1>8, TurnKnows, StoreAssumption DEF ToolFollows
    <3>2. says = plain
      BY <1>8, TurnMaps
    <3> QED
      BY <1>3, <3>1, <3>2 DEF plain
  <2>4. lifeLive[tool[p].id] \in Life!Workspace
    BY <1>3, <2>3, StepKnows, LifeNames
  <2>5. Life!Fault(tool[p].id)
    BY <1>1, <1>6, <2>1, <2>2, <2>4 DEF Life!Fault
  <2> QED
    BY <1>3, <2>5 DEF LifeStep, Life!Next
<1> QED
  BY <1>7, <1>8

\* When the content is lost the workspace has no entry any more.
LEMMA WriteFailsLives ==
    ASSUME Step, Turn, NEW p \in Procs, WriteFails(p) PROVE LifeStep
<1> DEFINE i == tool[p].id
<1>1. /\ tool[p].pc = "write" /\ open[p] # None /\ open'[p] = None
      /\ UNCHANGED <<now, entry, dirs, where, tool>> /\ faults' = faults + 1
  BY TurnKnows DEF WriteFails, At, EntryTypeOK
<1>2. /\ i \in Ids /\ <<i, Live>> \in Key /\ entry[<<i, Live>>] = Empty
      /\ tool[p].ent \in Entry
  BY <1>1, TurnKnows, KeyInKey, LiveLabel DEF ToolFollows, WellFormed
<1>3. \A k \in Key : says'[k] = IF k = <<i, Live>> THEN Broken ELSE says[k]
  BY <1>1, <1>2, TurnMaps DEF plain
<1>4. Life!Becomes(i, Sight(Broken)) /\ UNCHANGED lifeKept
  <2> HIDE DEF i
  <2> QED
    BY <1>2, <1>3, ChangeLive
<1>5. Sight(Broken) = Broken
  BY LifeAssumption DEF Sight
<1>6. owns = base /\ owns' = base'
  BY <1>1, TurnMaps
<1>7. Life!Moved(Life!In(i), Stray)
  <2>1. ASSUME NEW x \in Path PROVE owns'[x] = IF owns[x] = i THEN Stray ELSE owns[x]
    <3>1. CASE KeyOf(x) = <<i, Live>>
      <4>1. says'[KeyOf(x)] = Broken /\ Broken \notin Entry
        BY <1>2, <1>3, <3>1, LifeAssumption
      <4>2. base'[x] = Stray
        BY <4>1, BaseIs
      <4>3. base[x] \in {i, Stray}
        BY <1>2, <3>1, BaseIs, LifePlaces DEF KeyOf
      <4> QED
        BY <1>6, <4>2, <4>3
    <3>2. CASE KeyOf(x) # <<i, Live>>
      <4>1. base'[x] = base[x]
        BY <1>3, <3>2, BaseIs, LifePlaces
      <4>2. base[x] # i
        BY <1>2, <3>2, BaseIs, LifePlaces DEF KeyOf
      <4> QED
        BY <1>6, <4>1, <4>2
    <3> QED
      BY <3>1, <3>2
  <2>2. i \notin {Unwritten, Gone}
    BY <1>2, LifePlaces
  <2>3. \A d \in Data : lifePlace'[d] = IF d \in Life!In(i) THEN Stray ELSE lifePlace[d]
    BY <1>1, <2>1, <2>2, PlaceKnows DEF Life!In
  <2> QED
    BY <2>3, MovedWhen
<1>8. UNCHANGED <<lifeWaived, unmarked>>
  BY <1>1, TurnKnows, SameWaived, SameUnmarked
<1>9. Life!Fault(i)
  BY <1>1, <1>4, <1>5, <1>7, <1>8 DEF Life!Fault
<1> QED
  BY <1>2, <1>9 DEF LifeStep, Life!Next
-----------------------------------------------------------------------------
(* A workspace is removed                                                  *)

\* The entry gets its removed name, and the data follow it when moves is TRUE.
LEMMA RemovalLives ==
    ASSUME Step, NEW i \in Ids, NEW t \in Time, NEW e \in Entry, NEW moves \in BOOLEAN,
           UNCHANGED <<now, where, faults, lifeWaived, unmarked>>,
           t <= now, e.rel # 0 \/ now > e.exp \/ <<i, t>> \in unmarked,
           says[<<i, Live>>] = e,
           \A k \in Key : says'[k] = CASE k = <<i, Live>> -> None
                                       [] k = <<i, t>>    -> e
                                       [] OTHER           -> says[k],
           owns = base,
           \A x \in Path : owns'[x] = IF x = <<e.space, i, Live>> /\ moves
                                      THEN <<i, t>> ELSE base'[x],
           moves \/ <<e.space, i, Live>> \notin Full \/ <<e.space, i, t>> \in Full
    PROVE  LifeStep
<1> DEFINE k     == <<i, t>>
           from  == <<e.space, i, Live>>
           to    == <<e.space, i, t>>
           stays == ~moves /\ from \in Full
           D     == {d \in Data : lifePlace[d] = k /\ lifePlace'[d] = Stray}
           found == {d \in Data : lifePlace[d] = Stray /\ lifePlace'[d] = k}
<1>1. /\ k \in Key /\ k \in Ids \X Time /\ <<i, Live>> \in Key /\ k # <<i, Live>>
      /\ e.space \in Spaces /\ i # k /\ Stray # k /\ Stray # i
  BY LifeNames, LifePlaces, KeyInKey, LiveLabel, LiveIsNoTime DEF Entry
<1>2. from \in Path /\ to \in Path /\ KeyOf(to) = k /\ to[1] = e.space
  BY <1>1, LiveLabel, Paths DEF KeyOf
<1>3. says'[<<i, Live>>] = None /\ says'[k] = e /\ None \notin Entry
  BY <1>1, StoreAssumption
<1>4. ASSUME NEW x \in Path, KeyOf(x) = <<i, Live>>
      PROVE  \/ x = from /\ owns[x] = i /\ owns'[x] = IF moves THEN k ELSE Stray
             \/ owns[x] = Stray /\ owns'[x] = Stray
  <2>1. x[2] = i /\ x[3] = Live /\ x = <<x[1], x[2], x[3]>> /\ Part(x) = i
    BY <1>4, LifePlaces DEF KeyOf
  <2>2. x = from <=> x[1] = e.space
    BY <2>1
  <2>3. owns[x] = IF x = from THEN i ELSE Stray
    BY <1>4, <2>1, <2>2, BaseIs
  <2>4. base'[x] = Stray
    BY <1>3, <1>4, BaseIs
  <2> QED
    BY <2>3, <2>4
<1>5. ASSUME NEW x \in Path, KeyOf(x) = k
      PROVE  /\ owns[x] = Stray \/ (owns[x] = k /\ says[k] \in Entry)
             /\ owns'[x] = IF x[1] = e.space THEN k ELSE Stray
  <2>1. Part(x) = k
    BY <1>1, <1>5, LifePlaces
  <2>2. x # from
    BY <1>1, <1>5 DEF KeyOf
  <2> QED
    BY <1>3, <1>5, <2>1, <2>2, BaseIs
<1>6. ASSUME NEW x \in Path, KeyOf(x) # <<i, Live>>, KeyOf(x) # k
      PROVE  owns'[x] = owns[x] /\ owns[x] # i /\ owns[x] # k
  <2>1. says'[KeyOf(x)] = says[KeyOf(x)]
    BY <1>6, LifePlaces
  <2>2. Part(x) # k
    BY <1>1, <1>6, LifePlaces
  <2>3. Part(x) # i
    BY <1>6, LifePlaces DEF KeyOf
  <2>4. x # from
    BY <1>6 DEF KeyOf
  <2> QED
    BY <1>1, <2>1, <2>2, <2>3, <2>4, BaseIs
<1>7. ASSUME NEW d \in Data
      PROVE  \/ /\ lifePlace[d] = i /\ from \in Full
                /\ lifePlace'[d] = IF moves THEN k ELSE Stray
             \/ lifePlace[d] \in {k, Stray} /\ lifePlace'[d] \in {k, Stray}
             \/ lifePlace'[d] = lifePlace[d] /\ lifePlace[d] # i /\ lifePlace[d] # k
  <2>1. CASE where[d] \in {Unwritten, Gone}
    BY <1>1, <2>1, PlaceKnows, LifePlaces
  <2>2. CASE where[d] \notin {Unwritten, Gone}
    <3>1. where[d] \in Path /\ where[d] \in Full /\ lifePlace[d] = owns[where[d]]
          /\ lifePlace'[d] = owns'[where[d]]
      BY <2>2, PlaceKnows
    <3> HIDE DEF k, from
    <3> QED
      BY <1>4, <1>5, <1>6, <3>1
  <2> QED
    BY <2>1, <2>2
<1>8. D # {} => lifeKept[k] # None
  <2> SUFFICES ASSUME NEW d \in Data, lifePlace[d] = k PROVE lifeKept[k] # None
    OBVIOUS
  <2>1. PICK x \in Path : owns[x] = k
    BY <1>1, PlaceKnows, LifePlaces
  <2>2. says[k] \in Entry
    BY <1>1, <1>4, <1>5, <1>6, <2>1
  <2> QED
    BY <1>1, <1>3, <2>2, StepKnows, LifeNames
<1>9. stays => (Life!In(k) \ D) \cup found # {}
  <2> SUFFICES ASSUME to \in Full PROVE (Life!In(k) \ D) \cup found # {}
    OBVIOUS
  <2>1. PICK d \in Data : where[d] = to
    BY DEF Full
  <2>2. lifePlace[d] = owns[to] /\ lifePlace'[d] = owns'[to]
    BY <1>2, <2>1, PlaceKnows, LifePlaces
  <2>3. owns[to] \in {k, Stray} /\ owns'[to] = k
    BY <1>2, <1>5
  <2> QED
    BY <1>1, <2>2, <2>3 DEF Life!In
<1>10. \A d \in Data : lifePlace'[d] = CASE d \in found      -> k
                                         [] d \in D          -> Stray
                                         [] d \in Life!In(i) -> IF stays THEN Stray ELSE k
                                         [] OTHER            -> lifePlace[d]
  <2> SUFFICES ASSUME NEW d \in Data
               PROVE  lifePlace'[d] = CASE d \in found      -> k
                                         [] d \in D          -> Stray
                                         [] d \in Life!In(i) -> IF stays THEN Stray ELSE k
                                         [] OTHER            -> lifePlace[d]
    OBVIOUS
  <2>1. /\ d \in found <=> lifePlace[d] = Stray /\ lifePlace'[d] = k
        /\ d \in D <=> lifePlace[d] = k /\ lifePlace'[d] = Stray
        /\ d \in Life!In(i) <=> lifePlace[d] = i
    BY DEF Life!In
  <2>2. CASE lifePlace[d] = i
    <3>1. from \in Full /\ lifePlace'[d] = IF moves THEN k ELSE Stray
      BY <1>1, <1>7, <2>2
    <3>2. d \notin found /\ d \notin D /\ d \in Life!In(i)
      BY <1>1, <2>1, <2>2
    <3> QED
      BY <3>1, <3>2
  <2>3. CASE lifePlace[d] # i
    <3>1. \/ lifePlace'[d] = lifePlace[d]
          \/ lifePlace[d] \in {k, Stray} /\ lifePlace'[d] \in {k, Stray}
      BY <1>7, <2>3
    <3> HIDE DEF k, D, found
    <3> QED
      BY <1>1, <2>1, <2>3, <3>1
  <2> QED
    BY <2>2, <2>3
<1>11. lifePlace' = [d \in Data |-> CASE d \in found      -> k
                                      [] d \in D          -> Stray
                                      [] d \in Life!In(i) -> IF stays THEN Stray ELSE k
                                      [] OTHER            -> lifePlace[d]]
  BY <1>10 DEF Step, Mapped, MapLife
<1>12. /\ lifeLive[i] = Seen(e) /\ lifeLive[i] \in Life!Workspace
       /\ Life!Becomes(i, None) /\ lifeKept' = [lifeKept EXCEPT ![k] = lifeLive[i]]
  <2>1. Sight(None) = None /\ Sight(e) = Seen(e) /\ Sight(e) \in Life!Workspace
    BY <1>3, LifeNames DEF Sight
  <2>2. lifeLive[i] = Sight(e)
    BY StepKnows
  <2>3. Life!Becomes(i, Sight(None)) /\ lifeKept' = [lifeKept EXCEPT ![k] = Sight(e)]
    BY ChangeBoth, SMTT(30)
  <2> QED
    BY <2>1, <2>2, <2>3
<1>13. lifeLive[i].released # 0 \/ now > lifeLive[i].exp \/ k \in unmarked
  BY <1>12 DEF Seen
<1>14. D \in SUBSET Life!In(k) /\ found \in SUBSET Life!In(Stray) /\ stays \in BOOLEAN
  BY DEF Life!In
<1>15. \E DD \in SUBSET Life!In(k), ff \in SUBSET Life!In(Stray), ss \in BOOLEAN :
          /\ DD # {} => lifeKept[k] # None
          /\ ss => (Life!In(k) \ DD) \cup ff # {}
          /\ lifePlace' = [d \in Data |-> CASE d \in ff         -> k
                                            [] d \in DD         -> Stray
                                            [] d \in Life!In(i) -> IF ss THEN Stray ELSE k
                                            [] OTHER            -> lifePlace[d]]
  <2> HIDE DEF D, found, stays, k
  <2> QED
    BY <1>8, <1>9, <1>11, <1>14
<1>16. Life!Remove(i, t)
  BY <1>12, <1>13, <1>15 DEF Life!Remove
<1> QED
  BY <1>16, LifeNames DEF LifeStep, Life!Next

\* A damaged entry gets the removed name, which is of no workspace any more.
LEMMA BrokenRemovalLives ==
    ASSUME Step, NEW i \in Ids, NEW t \in Time,
           UNCHANGED <<now, where, faults, lifeWaived, unmarked>>, t <= now,
           says[<<i, Live>>] = Broken,
           \A k \in Key : says'[k] = CASE k = <<i, Live>> -> None
                                       [] k = <<i, t>>    -> Broken
                                       [] OTHER           -> says[k],
           owns = base, owns' = base'
    PROVE  LifeStep
<1> DEFINE k == <<i, t>>
<1>1. /\ k \in Key /\ k \in Ids \X Time /\ <<i, Live>> \in Key /\ k # <<i, Live>> /\ Stray # k
      /\ None \notin Entry /\ Broken \notin Entry
  BY LifeNames, LifePlaces, KeyInKey, LiveLabel, LiveIsNoTime, StoreAssumption, LifeAssumption
<1>2. Sight(None) = None /\ Sight(Broken) = Broken
  BY <1>1 DEF Sight
<1>3. Life!Becomes(i, Sight(None)) /\ lifeKept' = [lifeKept EXCEPT ![k] = Sight(Broken)]
  <2>1. PICK a, c : a = None /\ c = Broken
    OBVIOUS
  <2>2. \A x \in Key : says'[x] = CASE x = <<i, Live>> -> a
                                    [] x = <<i, t>>    -> c
                                    [] OTHER           -> says[x]
    BY <2>1
  <2>3. Life!Becomes(i, Sight(a)) /\ lifeKept' = [lifeKept EXCEPT ![<<i, t>>] = Sight(c)]
    BY <2>2, ChangeBoth
  <2> QED
    BY <2>1, <2>3
<1>4. lifeLive[i] = Broken
  BY <1>2, StepKnows
<1>5. ASSUME NEW x \in Path PROVE owns'[x] = IF owns[x] = k THEN Stray ELSE owns[x]
  <2>1. CASE KeyOf(x) = <<i, Live>>
    <3>1. says[KeyOf(x)] = Broken /\ says'[KeyOf(x)] = None
      BY <1>1, <2>1
    <3> QED
      BY <1>1, <3>1, BaseIs
  <2>2. CASE KeyOf(x) = k
    <3>1. Part(x) = k /\ says'[KeyOf(x)] = Broken
      BY <1>1, <2>2, LifePlaces
    <3> QED
      BY <1>1, <3>1, BaseIs
  <2>3. CASE KeyOf(x) # <<i, Live>> /\ KeyOf(x) # k
    <3>1. Part(x) # k /\ says'[KeyOf(x)] = says[KeyOf(x)]
      BY <1>1, <2>3, LifePlaces
    <3> QED
      BY <1>1, <3>1, BaseIs
  <2> QED
    BY <2>1, <2>2, <2>3
<1> HIDE DEF k
<1>6. \A d \in Data : lifePlace'[d] = IF lifePlace[d] = k THEN Stray ELSE lifePlace[d]
  BY <1>1, <1>5, PlaceKnows, LifePlaces
<1>7. \A d \in Data : lifePlace'[d] = IF d \in Life!In(k) THEN Stray ELSE lifePlace[d]
  BY <1>6 DEF Life!In
<1>8. Life!Moved(Life!In(k), Stray)
  BY <1>7, MovedWhen
<1>9. Life!RemoveBroken(i, t)
  BY <1>2, <1>3, <1>4, <1>8 DEF Life!RemoveBroken, k
<1> QED
  BY <1>9, LifeNames DEF LifeStep, Life!Next

\* Where the data of a directory that is being moved belong.
LEMMA MovingMaps ==
    ASSUME Step, Turn, NEW p \in Procs, NEW x \in Path
    PROVE  /\ tool[p].pc = "movedir" =>
                 owns[x] = IF /\ x = <<tool[p].ent.space, tool[p].id, Live>>
                              /\ entry[<<tool[p].id, tool[p].ts>>] \in Entry
                           THEN <<tool[p].id, tool[p].ts>> ELSE base[x]
           /\ tool'[p].pc = "movedir" =>
                 owns'[x] = IF /\ x = <<tool'[p].ent.space, tool'[p].id, Live>>
                               /\ entry'[<<tool'[p].id, tool'[p].ts>>] \in Entry
                            THEN <<tool'[p].id, tool'[p].ts>> ELSE base'[x]
BY DEF Step, Mapped, MapOwner, At

LEMMA RetireEntryLives ==
    ASSUME Step, Turn, NEW p \in Procs, RetireEntry(p) PROVE LifeStep
<1> DEFINE i == tool[p].id
           t == tool[p].ts
           e == tool[p].ent
<1>1. /\ tool[p].pc = "retire" /\ UNCHANGED <<now, dirs, where, faults>>
      /\ entry[<<i, Live>>] \in {e, Empty} /\ t <= now
      /\ e.rel # Live \/ <<i, t>> \in unmarked
  BY TurnKnows DEF RetireEntry, At, ToolFollows, ReleaseFollows, Releases, Marked, Continue
<1>2. /\ i \in Ids /\ t \in Time /\ <<i, Live>> \in Key /\ <<i, t>> \in Key
      /\ <<i, Live>> # <<i, t>> /\ e \in Entry /\ e # Empty /\ Empty \notin Entry
      /\ None # Empty
  BY <1>1, TurnNames, StoreAssumption
<1>3. CASE Exit(p) /\ UNCHANGED <<entry, open>>
  <2>1. tool'[p].pc = "idle"
    BY <1>3, TurnKnows DEF Exit, Become, Idle
  <2> QED
    BY <1>1, <1>3, <2>1, PlainStutters
<1>4. CASE RenameEntry(<<i, Live>>, <<i, t>>) /\ Goto(p, "movedir")
  <2>1. tool'[p].pc = "movedir" /\ tool'[p].id = i /\ tool'[p].ts = t /\ tool'[p].ent = e
    BY <1>4, TurnKnows DEF Goto, Become, Process
  <2>2. /\ entry'[<<i, t>>] = entry[<<i, Live>>] /\ entry'[<<i, Live>>] = None
        /\ \A k \in Key \ {<<i, Live>>, <<i, t>>} : entry'[k] = entry[k]
    <3> HIDE DEF i, t, e
    <3> QED
      BY <1>1, <1>2, <1>4, TurnKnows, RenamedKnows
  <2>3. says = plain /\ says' = plain' /\ owns = base
    BY <1>1, <2>1, TurnMaps
  <2>4. \A k \in Key : says'[k] = CASE k = <<i, Live>> -> None
                                    [] k = <<i, t>>    -> says[<<i, Live>>]
                                    [] OTHER           -> says[k]
    <3> SUFFICES ASSUME NEW k \in Key
                 PROVE  plain'[k] = CASE k = <<i, Live>> -> None
                                      [] k = <<i, t>>    -> plain[<<i, Live>>]
                                      [] OTHER           -> plain[k]
      BY <2>3
    <3>1. plain'[k] = IF entry'[k] = Empty THEN Broken ELSE entry'[k]
      BY DEF plain
    <3>2. \A l \in Key : plain[l] = IF entry[l] = Empty THEN Broken ELSE entry[l]
      BY DEF plain
    <3> HIDE DEF i, t, e
    <3> QED
      BY <1>2, <2>2, <3>1, <3>2
  <2>5. UNCHANGED <<lifeWaived, unmarked>>
    BY <1>1, <2>1, TurnKnows, SameWaived, SameUnmarked
  <2>6. \A x \in Path : owns'[x] = IF x = <<e.space, i, Live>> /\ entry[<<i, Live>>] \in Entry
                                   THEN <<i, t>> ELSE base'[x]
    BY <2>1, <2>2, MovingMaps
  <2>7. CASE entry[<<i, Live>>] = e
    <3>1. says[<<i, Live>>] = e
      BY <1>2, <2>3, <2>7 DEF plain
    <3>2. e.rel # 0 \/ <<i, t>> \in unmarked
      BY <1>1 DEF Live
    <3>3. \A x \in Path : owns'[x] = IF x = <<e.space, i, Live>> THEN <<i, t>> ELSE base'[x]
      BY <1>2, <2>6, <2>7
    <3> HIDE DEF i, t, e
    <3> QED
      BY <1>1, <1>2, <2>3, <2>4, <2>5, <3>1, <3>2, <3>3, RemovalLives
  <2>8. CASE entry[<<i, Live>>] = Empty
    <3>1. says[<<i, Live>>] = Broken
      BY <1>2, <2>3, <2>8 DEF plain
    <3>2. owns' = base'
      BY <1>2, <2>6, <2>8, StepKnows DEF base
    <3> HIDE DEF i, t, e
    <3> QED
      BY <1>1, <1>2, <2>3, <2>4, <2>5, <3>1, <3>2, BrokenRemovalLives
  <2> QED
    BY <1>1, <2>7, <2>8
<1> QED
  BY <1>3, <1>4 DEF RetireEntry

-----------------------------------------------------------------------------
(* A directory is moved or deleted                                         *)

LEMMA MovePlaces ==
    ASSUME Step, NEW from \in Path, NEW to \in Path, MoveDir(from, to),
           \A x \in Full \ {from} : owns'[x] = owns[x]
    PROVE  \A d \in Data : lifePlace'[d] = IF where[d] = from THEN owns'[to]
                                           ELSE lifePlace[d]
<1> SUFFICES ASSUME NEW d \in Data
             PROVE  lifePlace'[d] = IF where[d] = from THEN owns'[to] ELSE lifePlace[d]
  OBVIOUS
<1>1. where'[d] = IF where[d] = from THEN to ELSE where[d]
  BY DEF MoveDir
<1> QED
  BY <1>1, PlaceKnows, LifePlaces

LEMMA DeletePlaces ==
    ASSUME Step, NEW path \in Path, NEW rest, RemoveTree(path, rest), owns' = owns
    PROVE  \A d \in Data : lifePlace'[d] = IF where[d] = path /\ d \notin rest THEN Gone
                                           ELSE lifePlace[d]
<1> SUFFICES ASSUME NEW d \in Data
             PROVE  lifePlace'[d] = IF where[d] = path /\ d \notin rest THEN Gone
                                    ELSE lifePlace[d]
  OBVIOUS
<1>1. where'[d] = IF where[d] = path /\ d \notin rest THEN Gone ELSE where[d]
  BY DEF RemoveTree
<1> QED
  BY <1>1, PlaceKnows, LifePlaces

\* The data of a removed workspace are in the directory its entry says.
LEMMA KeptPlaces ==
    ASSUME Step, owns = base, NEW i \in Ids, NEW t \in Time, says[<<i, t>>] \in Entry,
           NEW d \in Data
    PROVE  lifePlace[d] = <<i, t>> <=> where[d] = <<says[<<i, t>>].space, i, t>>
<1> DEFINE x == <<says[<<i, t>>].space, i, t>>
<1>1. x \in Path /\ <<i, t>> \in Ids \X Time /\ KeyOf(x) = <<i, t>>
      /\ x[1] = says[<<i, t>>].space
  BY LifeNames, Paths, LiveLabel DEF Entry, KeyOf
<1>2. \A y \in Path : owns[y] = <<i, t>> <=> y = x
  <2> SUFFICES ASSUME NEW y \in Path PROVE base[y] = <<i, t>> <=> y = x
    OBVIOUS
  <2>1. Part(y) = <<i, t>> <=> y[2] = i /\ y[3] = t
    BY <1>1, LifePlaces DEF KeyOf
  <2>2. y = <<y[1], y[2], y[3]>>
    BY LifePlaces
  <2>3. Stray # <<i, t>>
    BY <1>1, LifePlaces
  <2>4. base[y] = <<i, t>> <=> Part(y) = <<i, t>> /\ says[<<i, t>>].space = y[1]
    BY <1>1, <2>1, <2>3, BaseIs DEF KeyOf
  <2> QED
    BY <2>1, <2>2, <2>4
<1> HIDE DEF x
<1>3. lifePlace[d] = <<i, t>> <=> where[d] = x
  BY <1>1, <1>2, PlaceKnows, LifePlaces
<1> QED
  BY <1>3 DEF x

LEMMA RetireDirLives ==
    ASSUME Step, Turn, NEW p \in Procs, RetireDir(p) PROVE LifeStep
<1> DEFINE i    == tool[p].id
           t    == tool[p].ts
           e    == tool[p].ent
           from == <<e.space, i, Live>>
           to   == <<e.space, i, t>>
<1>1. /\ tool[p].pc = "movedir" /\ UNCHANGED <<now, entry, faults>>
      /\ entry[<<i, t>>] \in {e, Empty} /\ entry[<<i, Live>>] = None
      /\ e.rel # Live \/ <<i, t>> \in unmarked
  BY TurnKnows DEF RetireDir, At, ToolFollows, ReleaseFollows, Releases, Marked, Continue
<1>2. /\ i \in Ids /\ t \in Time /\ <<i, t>> \in Key /\ e \in Entry
      /\ Empty \notin Entry /\ None \notin Entry /\ None # Empty /\ Broken \notin Entry
      /\ KeyOf(from) = <<i, Live>> /\ <<i, Live>> \in Key
      /\ from \in Path /\ to \in Path /\ KeyOf(to) = <<i, t>> /\ to[1] = e.space
      /\ <<i, t>> \in Ids \X Time
  BY <1>1, TurnNames, StoreAssumption, LifeAssumption, LifeNames DEF KeyOf
<1>3. tool'[p].pc = "idle" \/ (tool'[p].pc = "wipe" /\ tool'[p].id = i /\ tool'[p].ts = t)
  <2>1. CASE Exit(p)
    BY <2>1, TurnKnows DEF Exit, Become, Idle
  <2>2. CASE Goto(p, "wipe")
    BY <2>2, TurnKnows DEF Goto, Become, Process
  <2> QED
    BY <2>1, <2>2 DEF RetireDir
<1>4. /\ says = plain /\ says' = says /\ owns' = base
      /\ says[<<i, t>>] = IF entry[<<i, t>>] = Empty THEN Broken ELSE e
      /\ says[<<i, Live>>] = None
  <2>1. says = plain /\ says' = plain' /\ owns' = base'
    BY <1>1, <1>3, TurnMaps
  <2>2. plain' = plain
    BY <1>1 DEF plain
  <2> QED
    BY <1>1, <1>2, <2>1, <2>2, SameBase DEF plain
<1>5. \A x \in Path : owns[x] = IF x = from /\ entry[<<i, t>>] \in Entry THEN <<i, t>>
                                ELSE owns'[x]
  BY <1>1, <1>4, MovingMaps
<1>6. UNCHANGED lifePlace
  <2>1. CASE from \notin dirs /\ UNCHANGED where
    <3>1. from \notin Full
      BY <2>1, TurnKnows
    <3> QED
      BY <1>5, <2>1, <3>1, SameOwners
  <2>2. CASE MoveDir(from, to)
    <3>1. owns'[to] = owns[from]
      <4>1. Part(to) = <<i, t>>
        BY <1>2, LifePlaces
      <4>2. CASE entry[<<i, t>>] = e
        BY <1>2, <1>4, <1>5, <4>1, <4>2, BaseIs
      <4>3. CASE entry[<<i, t>>] = Empty
        <5>1. owns[from] = base[from]
          BY <1>2, <1>4, <1>5, <4>3
        <5>2. base[from] = Stray /\ base[to] = Stray
          BY <1>2, <1>4, <4>3, BaseIs
        <5> QED
          BY <1>4, <5>1, <5>2
      <4> QED
        BY <1>1, <4>2, <4>3
    <3> HIDE DEF from, to
    <3>2. \A x \in Full \ {from} : owns'[x] = owns[x]
      BY <1>5 DEF Full
    <3>3. \A d \in Data : lifePlace'[d] = IF where[d] = from THEN owns[from] ELSE lifePlace[d]
      BY <1>2, <2>2, <3>1, <3>2, MovePlaces
    <3>4. \A d \in Data : where[d] = from => lifePlace[d] = owns[from]
      BY <1>2, PlaceKnows, LifePlaces
    <3> QED
      BY <3>3, <3>4, SamePlace
  <2> QED
    BY <2>1, <2>2 DEF RetireDir
<1>7. CASE tool'[p].pc = "idle"
  <2>1. UNCHANGED <<lifeWaived, unmarked>>
    BY <1>1, <1>7, TurnKnows, SameWaived, SameUnmarked
  <2> QED
    BY <1>1, <1>4, <1>6, <2>1, SameSays, Stutters
<1>8. CASE tool'[p].pc = "wipe" /\ tool'[p].id = i /\ tool'[p].ts = t
  <2>1. lifeWaived' = lifeWaived \cup {<<i, t>>}
    BY <1>8, TurnKnows, WaivedGrows
  <2>2. /\ lifeKept[<<i, t>>] \in {Seen(e), Broken} /\ Seen(e) # None /\ Broken # None
        /\ Broken \notin Life!Workspace
    BY <1>2, <1>4, StepKnows, LifeNames, LifeAssumption DEF Sight
  <2>3. Seen(e).released # 0 \/ <<i, t>> \in unmarked
    BY <1>1 DEF Seen, Live
  <2>4. UNCHANGED unmarked
    BY <1>1, TurnKnows, SameUnmarked
  <2>5. Life!Waive(<<i, t>>)
    BY <1>1, <1>4, <1>6, <2>1, <2>2, <2>3, <2>4, SameSays DEF Life!Waive
  <2> QED
    BY <1>2, <2>5, LifeNames DEF LifeStep, Life!Next
<1> QED
  BY <1>3, <1>7, <1>8

LEMMA WipeDataLives ==
    ASSUME Step, Turn, NEW p \in Procs, NEW rest \in SUBSET Data, WipeData(p, rest)
    PROVE  LifeStep
<1> DEFINE i    == tool[p].id
           t    == tool[p].ts
           e    == tool[p].ent
           path == <<e.space, i, t>>
           D    == {d \in Data : where[d] = path /\ d \notin rest}
<1>1. /\ tool[p].pc = "wipe" /\ UNCHANGED <<now, entry, faults>>
      /\ entry[<<i, t>>] \in {e, Empty} /\ RemoveTree(path, rest)
  BY TurnKnows DEF WipeData, At, ReleaseFollows, Continue
<1>2. /\ i \in Ids /\ t \in Time /\ <<i, t>> \in Key /\ e \in Entry /\ e # Empty
      /\ path \in Path /\ <<i, t>> \in Ids \X Time /\ KeyOf(path) = <<i, t>>
      /\ Broken \notin Entry
  <2>1. i \in Ids /\ t \in Time /\ <<i, t>> \in Key /\ e \in Entry /\ path \in Path
    BY <1>1, TurnNames
  <2>2. e # Empty /\ Broken \notin Entry
    BY <2>1, StoreAssumption, LifeAssumption
  <2> QED
    BY <2>1, <2>2 DEF KeyOf
<1>3. tool'[p].pc \in {"wipe", "forget"} /\ tool'[p].id = i /\ tool'[p].ts = t
  <2>1. tool' = tool \/ Goto(p, "forget")
    BY DEF WipeData
  <2> QED
    BY <1>1, <2>1, TurnKnows DEF Goto, Become, Process
<1>4. /\ says = plain /\ says' = says /\ owns = base /\ owns' = owns
      /\ says[<<i, t>>] = IF entry[<<i, t>>] = Empty THEN Broken ELSE e
  <2>1. says = plain /\ says' = plain' /\ owns' = base' /\ owns = base
    BY <1>1, <1>3, TurnMaps
  <2>2. plain' = plain
    BY <1>1 DEF plain
  <2> QED
    BY <1>1, <1>2, <2>1, <2>2, SameBase DEF plain
<1>5. UNCHANGED <<lifeWaived, unmarked>> /\ <<i, t>> \in lifeWaived
  BY <1>1, <1>3, TurnKnows, SameWaived, SameUnmarked DEF lifeWaived, At
<1>6. \A d \in Data : lifePlace'[d] = IF d \in D THEN Gone ELSE lifePlace[d]
  <2> HIDE DEF path
  <2> QED
    BY <1>1, <1>2, <1>4, DeletePlaces
<1>7. Life!Moved(D, Gone) /\ D \in SUBSET Data
  BY <1>6, MovedWhen
<1>8. CASE entry[<<i, t>>] = e
  <2>1. D \subseteq Life!In(<<i, t>>)
    BY <1>2, <1>4, <1>8, KeptPlaces DEF Life!In
  <2>2. Life!Discard(<<i, t>>, D)
    <3> HIDE DEF i, t, e, path, D
    <3> QED
      BY <1>1, <1>4, <1>5, <1>7, <2>1, SameSays DEF Life!Discard
  <2> QED
    BY <1>2, <1>7, <2>2, LifeNames DEF LifeStep, Life!Next
<1>9. CASE entry[<<i, t>>] = Empty
  <2>1. owns[path] = Stray
    BY <1>2, <1>4, <1>9, BaseIs
  <2>2. D \subseteq Life!In(Stray)
    BY <1>2, <2>1, PlaceKnows, LifePlaces DEF Life!In
  <2>3. Life!Delete(D)
    <3> HIDE DEF i, t, e, path, D
    <3> QED
      BY <1>1, <1>4, <1>5, <1>7, <2>2, SameSays DEF Life!Delete
  <2> QED
    BY <1>7, <2>3 DEF LifeStep, Life!Next
<1> QED
  BY <1>1, <1>8, <1>9
-----------------------------------------------------------------------------
(* The entry of a removed workspace is unlinked                            *)

LEMMA UnlinkMaps ==
    ASSUME Step, NEW i \in Ids, NEW t \in Time, says[<<i, t>>] \in Entry \cup {Broken},
           \A k \in Key : says'[k] = IF k = <<i, t>> THEN None ELSE says[k],
           UNCHANGED where, owns = base, owns' = base'
    PROVE  /\ lifeKept[<<i, t>>] = Sight(says[<<i, t>>]) /\ lifeKept[<<i, t>>] # None
           /\ lifeKept' = [lifeKept EXCEPT ![<<i, t>>] = None]
           /\ UNCHANGED lifeLive
           /\ Life!Moved(Life!In(<<i, t>>), Stray)
           /\ Life!In(<<i, t>>) = {} => UNCHANGED lifePlace
<1> DEFINE k == <<i, t>>
<1>1. /\ k \in Key /\ k \in Ids \X Time /\ Stray # k /\ None \notin Entry
      /\ says[k] # None
  BY LifeNames, LifePlaces, StoreAssumption, LifeAssumption
<1>2. lifeKept[k] = Sight(says[k]) /\ lifeKept[k] # None /\ Sight(None) = None
  BY <1>1, StepKnows, LifeNames
<1>3. lifeKept' = [lifeKept EXCEPT ![k] = Sight(None)] /\ UNCHANGED lifeLive
  BY ChangeKept
<1>4. ASSUME NEW x \in Path PROVE owns'[x] = IF owns[x] = k THEN Stray ELSE owns[x]
  <2>1. CASE KeyOf(x) = k
    <3>1. Part(x) = k /\ says'[k] = None
      BY <1>1, <2>1, LifePlaces
    <3> QED
      BY <1>1, <2>1, <3>1, BaseIs
  <2>2. CASE KeyOf(x) # k
    <3>1. Part(x) # k /\ says'[KeyOf(x)] = says[KeyOf(x)]
      BY <1>1, <2>2, LifePlaces
    <3> QED
      BY <1>1, <2>2, <3>1, BaseIs
  <2> QED
    BY <2>1, <2>2
<1> HIDE DEF k
<1>5. \A d \in Data : lifePlace'[d] = IF lifePlace[d] = k THEN Stray ELSE lifePlace[d]
  BY <1>1, <1>4, PlaceKnows, LifePlaces
<1>6. \A d \in Data : lifePlace'[d] = IF d \in Life!In(k) THEN Stray ELSE lifePlace[d]
  BY <1>5 DEF Life!In
<1>7. Life!Moved(Life!In(k), Stray)
  BY <1>6, MovedWhen
<1>8. Life!In(k) = {} => UNCHANGED lifePlace
  BY <1>6, SamePlace
<1> QED
  BY <1>2, <1>3, <1>7, <1>8 DEF k

\* What the last steps of ws_release --delete-data and ws_restore have in common.
LEMMA LastUnlinkMaps ==
    ASSUME Step, Turn, NEW p \in Procs, ForgetEntry(p) \/ UnlinkSource(p)
    PROVE  /\ tool[p].id \in Ids /\ tool[p].ts \in Time
           /\ tool[p].pc \in {"forget", "unlink"} /\ tool'[p].pc = "idle"
           /\ UNCHANGED <<now, where, faults, lifeWaived, unmarked>> /\ owns = base /\ owns' = base'
           /\ says[<<tool[p].id, tool[p].ts>>] \in Entry \cup {Broken}
           /\ UnlinkSource(p) =>
                 says[<<tool[p].id, tool[p].ts>>] = tool[p].ent /\ tool[p].ent \in Entry
           /\ \A k \in Key : says'[k] = IF k = <<tool[p].id, tool[p].ts>> THEN None ELSE says[k]
<1> DEFINE i == tool[p].id
           t == tool[p].ts
           e == tool[p].ent
<1>1. /\ tool[p].pc \in {"forget", "unlink"} /\ UNCHANGED <<now, where, faults>>
      /\ UnlinkEntry(<<i, t>>) /\ Exit(p)
      /\ entry[<<i, t>>] \in {e, Empty} /\ (tool[p].pc = "unlink" => entry[<<i, t>>] = e)
  BY TurnKnows DEF ForgetEntry, UnlinkSource, At, Continue, ToolFollows, ReleaseFollows
<1>2. i \in Ids /\ <<i, t>> \in Key /\ e \in Entry /\ e # Empty
  BY <1>1, TurnNames, StoreAssumption
<1>3. t \in Time
  <2>1. t \in Label /\ t # Live
    BY <1>1, TurnKnows, LiveIsNoTime DEF ToolFollows, WellFormed, Process
  <2> QED
    BY <2>1 DEF Label
<1>4. tool'[p].pc = "idle"
  BY <1>1, TurnKnows DEF Exit, Become, Idle
<1>5. says = plain /\ says' = plain' /\ owns = base /\ owns' = base'
  BY <1>1, <1>4, TurnMaps
<1>6. \A k \in Key : plain'[k] = IF k = <<i, t>> THEN None ELSE plain[k]
  BY <1>1, <1>2, StepKnows, StoreAssumption DEF UnlinkEntry, plain, EntryTypeOK
<1>7. UNCHANGED <<lifeWaived, unmarked>>
  BY <1>1, <1>4, TurnKnows, SameWaived, SameUnmarked
<1>8. says[<<i, t>>] = IF entry[<<i, t>>] = Empty THEN Broken ELSE e
  BY <1>1, <1>2, <1>5 DEF plain
<1>9. UnlinkSource(p) => says[<<i, t>>] = e
  BY <1>1, <1>2, <1>8 DEF UnlinkSource, At
<1> QED
  BY <1>1, <1>2, <1>3, <1>4, <1>5, <1>6, <1>7, <1>8, <1>9

LEMMA ForgetEntryLives ==
    ASSUME Step, Turn, NEW p \in Procs, ForgetEntry(p), <<tool[p].id, tool[p].ts>> \in waived
    PROVE  LifeStep
<1> DEFINE i == tool[p].id
           t == tool[p].ts
<1>1. /\ i \in Ids /\ t \in Time /\ says[<<i, t>>] \in Entry \cup {Broken}
      /\ UNCHANGED <<now, where, faults, lifeWaived, unmarked>> /\ owns = base /\ owns' = base'
      /\ \A k \in Key : says'[k] = IF k = <<i, t>> THEN None ELSE says[k]
  BY LastUnlinkMaps
<1>2. <<i, t>> \in lifeWaived
  BY DEF lifeWaived
<1> HIDE DEF i, t
<1>3. /\ lifeKept[<<i, t>>] # None /\ lifeKept' = [lifeKept EXCEPT ![<<i, t>>] = None]
      /\ UNCHANGED lifeLive /\ Life!Moved(Life!In(<<i, t>>), Stray)
  BY <1>1, UnlinkMaps
<1>4. Life!Drop(<<i, t>>)
  BY <1>1, <1>2, <1>3 DEF Life!Drop
<1> QED
  BY <1>1, <1>4, LifeNames DEF LifeStep, Life!Next

LEMMA UnlinkSourceLives ==
    ASSUME Step, Turn, NEW p \in Procs, UnlinkSource(p) PROVE LifeStep
<1> DEFINE i == tool[p].id
           t == tool[p].ts
           e == tool[p].ent
<1>1. /\ i \in Ids /\ t \in Time /\ says[<<i, t>>] = e /\ e \in Entry
      /\ UNCHANGED <<now, where, faults, lifeWaived, unmarked>> /\ owns = base /\ owns' = base'
      /\ \A k \in Key : says'[k] = IF k = <<i, t>> THEN None ELSE says[k]
  BY LastUnlinkMaps
<1>2. <<e.space, i, t>> \notin Full
  BY TurnKnows DEF UnlinkSource, At, ToolFollows
<1>3. Life!In(<<i, t>>) = {}
  <2>1. \A d \in Data : where[d] # <<e.space, i, t>>
    BY <1>1, <1>2, Paths, LiveLabel DEF Full, Entry
  <2>2. \A d \in Data : lifePlace[d] # <<i, t>>
    BY <1>1, <2>1, KeptPlaces
  <2> QED
    BY <2>2 DEF Life!In
<1> HIDE DEF i, t, e
<1>4. /\ lifeKept[<<i, t>>] # None /\ lifeKept' = [lifeKept EXCEPT ![<<i, t>>] = None]
      /\ UNCHANGED lifeLive /\ UNCHANGED lifePlace
  BY <1>1, <1>3, UnlinkMaps
<1>5. Life!Forget(<<i, t>>)
  BY <1>1, <1>3, <1>4 DEF Life!Forget
<1> QED
  BY <1>1, <1>5, LifeNames DEF LifeStep, Life!Next

LEMMA RefillLives ==
    ASSUME Step, Turn, NEW p \in Procs, Refill(p) PROVE LifeStep
<1> DEFINE i    == tool[p].id
           t    == tool[p].ts
           e    == tool[p].ent
           from == <<e.space, i, t>>
           to   == tool[p].to
           j    == to[2]
<1>1. /\ tool[p].pc = "refill" /\ UNCHANGED <<now, entry, faults>>
      /\ entry[<<i, t>>] = e /\ to[3] = Live /\ Names(<<j, Live>>, to[1])
      /\ i \in Ids /\ e \in Entry /\ from \in Path
  BY TurnKnows, TurnNames DEF Refill, At, ToolFollows, Continue
<1>2. t \in Time /\ to \in Path /\ <<i, t>> \in Key
  <2>1. t \in Label /\ t # Live /\ to \in Path
    BY <1>1, TurnKnows DEF ToolFollows, WellFormed, Process
  <2> QED
    BY <1>1, <2>1, KeyInKey DEF Label
<1>3. CASE Exit(p) /\ UNCHANGED <<dirs, where>>
  <2>1. tool'[p].pc = "idle"
    BY <1>3, TurnKnows DEF Exit, Become, Idle
  <2> QED
    BY <1>1, <1>3, <2>1, PlainStutters
<1>4. CASE MoveDir(from, to) /\ Goto(p, "unlink")
  <2>1. tool'[p].pc = "unlink"
    BY <1>4, TurnKnows DEF Goto, Become, Process
  <2>2. says = plain /\ says' = says /\ owns = base /\ owns' = owns
    <3>1. says = plain /\ says' = plain' /\ owns = base /\ owns' = base'
      BY <1>1, <2>1, TurnMaps
    <3>2. plain' = plain
      BY <1>1 DEF plain
    <3> QED
      BY <3>1, <3>2, SameBase
  <2>3. e # Empty /\ entry[<<j, Live>>] \in Entry /\ entry[<<j, Live>>] # Empty
        /\ entry[<<j, Live>>].space = to[1] /\ j \in Ids /\ <<j, Live>> \in Key
    BY <1>1, <1>2, StoreAssumption, LifePlaces, KeyInKey, LiveLabel DEF Names, Readable
  <2>4. says[<<i, t>>] = e /\ says[<<j, Live>>] = entry[<<j, Live>>]
    BY <1>1, <1>2, <2>2, <2>3 DEF plain
  <2>5. owns'[to] = j
    <3>1. KeyOf(to) = <<j, Live>> /\ Part(to) = j
      BY <1>1 DEF KeyOf, Part
    <3> QED
      BY <1>2, <2>2, <2>3, <2>4, <3>1, BaseIs
  <2>6. \A d \in Data : lifePlace'[d] = IF where[d] = from THEN j ELSE lifePlace[d]
    <3> HIDE DEF from, to, j
    <3> QED
      BY <1>1, <1>2, <1>4, <2>2, <2>5, MovePlaces
  <2>7. \A d \in Data : where[d] = from <=> d \in Life!In(<<i, t>>)
    BY <1>1, <1>2, <2>2, <2>4, KeptPlaces DEF Life!In
  <2>8. Life!Moved(Life!In(<<i, t>>), j)
    <3>1. \A d \in Data : lifePlace'[d] = IF d \in Life!In(<<i, t>>) THEN j ELSE lifePlace[d]
      BY <2>6, <2>7
    <3> QED
      BY <3>1, MovedWhen
  <2>9. lifeKept[<<i, t>>] # None /\ lifeLive[j] \in Life!Workspace
    <3>1. <<i, t>> \in Ids \X Time /\ None \notin Entry
      BY <1>1, <1>2, StoreAssumption
    <3>2. lifeKept[<<i, t>>] = Sight(e) /\ lifeLive[j] = Sight(entry[<<j, Live>>])
      BY <2>3, <2>4, <3>1, StepKnows
    <3> QED
      BY <1>1, <2>3, <3>1, <3>2, LifeNames
  <2>10. UNCHANGED <<lifeWaived, unmarked>>
    BY <1>1, <2>1, TurnKnows, SameWaived, SameUnmarked
  <2>11. Life!Refill(<<i, t>>, j)
    BY <1>1, <2>2, <2>8, <2>9, <2>10, SameSays DEF Life!Refill
  <2> QED
    BY <1>1, <1>2, <2>3, <2>11, LifeNames DEF LifeStep, Life!Next
<1> QED
  BY <1>3, <1>4 DEF Refill
-----------------------------------------------------------------------------
(* A removed workspace is live again                                       *)

\* While the administrator's ws_restore has moved the entry only, nothing is seen.
LEMMA PutbackMaps ==
    ASSUME Step, Turn, NEW p \in Procs, NEW k \in Key
    PROVE  /\ tool[p].pc = "putback" =>
                 says[k] = IF k = <<tool[p].id, Live>> THEN None
                           ELSE IF k = <<tool[p].id, tool[p].ts>> THEN tool[p].ent
                           ELSE plain[k]
           /\ tool'[p].pc = "putback" =>
                 says'[k] = IF k = <<tool'[p].id, Live>> THEN None
                            ELSE IF k = <<tool'[p].id, tool'[p].ts>> THEN tool'[p].ent
                            ELSE plain'[k]
BY DEF Step, Mapped, MapContent, At

LEMMA ReviveEntryLives ==
    ASSUME Step, Turn, NEW p \in Procs, ReviveEntry(p) PROVE LifeStep
<1> DEFINE i == tool[p].id
           t == tool[p].ts
           e == tool[p].ent
<1>1. /\ tool[p].pc = "revive" /\ UNCHANGED <<now, where, faults>>
      /\ entry[<<i, t>>] = e /\ entry[<<i, Live>>] = None /\ t # Live
  BY TurnKnows DEF ReviveEntry, At, ToolFollows, Continue
<1>2. i \in Ids /\ <<i, Live>> \in Key /\ <<i, t>> \in Key
      /\ <<i, Live>> # <<i, t>> /\ e \in Entry /\ e # Empty /\ None # Empty
  BY <1>1, TurnNames, StoreAssumption
<1>3. CASE Exit(p) /\ UNCHANGED <<entry, open>>
  <2>1. tool'[p].pc = "idle"
    BY <1>3, TurnKnows DEF Exit, Become, Idle
  <2> QED
    BY <1>1, <1>3, <2>1, PlainStutters
<1>4. CASE RenameEntry(<<i, t>>, <<i, Live>>) /\ Goto(p, "putback")
  <2>1. tool'[p].pc = "putback" /\ tool'[p].id = i /\ tool'[p].ts = t /\ tool'[p].ent = e
    BY <1>4, TurnKnows DEF Goto, Become, Process
  <2>2. \A k \in Key \ {<<i, t>>, <<i, Live>>} : entry'[k] = entry[k]
    <3> HIDE DEF i, t, e
    <3> QED
      BY <1>1, <1>2, <1>4, TurnKnows, RenamedKnows
  <2>3. says = plain /\ owns = base /\ owns' = base'
    BY <1>1, <2>1, TurnMaps
  <2>4. \A k \in Key : says'[k] = says[k]
    <3> SUFFICES ASSUME NEW k \in Key PROVE says'[k] = says[k]
      OBVIOUS
    <3>1. says'[k] = IF k = <<i, Live>> THEN None ELSE IF k = <<i, t>> THEN e ELSE plain'[k]
      BY <2>1, PutbackMaps
    <3>2. says[k] = IF entry[k] = Empty THEN Broken ELSE entry[k]
      BY <2>3 DEF plain
    <3>3. k \notin {<<i, Live>>, <<i, t>>} => plain'[k] = plain[k]
      BY <2>2 DEF plain
    <3> HIDE DEF i, t, e
    <3> QED
      BY <1>1, <1>2, <2>3, <3>1, <3>2, <3>3
  <2>5. says' = says
    BY <2>4, StepKnows
  <2>6. owns' = owns
    BY <2>3, <2>5, SameBase
  <2>7. UNCHANGED <<lifeWaived, unmarked>>
    BY <1>1, <2>1, TurnKnows, SameWaived, SameUnmarked
  <2> QED
    BY <1>1, <2>5, <2>6, <2>7, SameSays, SameOwners, Stutters
<1> QED
  BY <1>3, <1>4 DEF ReviveEntry

\* At its end, the workspace is live and the removed one gone.
LEMMA RevivedMaps ==
    ASSUME Step, Turn, NEW p \in Procs, tool[p].pc = "putback", tool'[p].pc = "idle",
           UNCHANGED entry
    PROVE  /\ tool[p].id \in Ids /\ tool[p].ts \in Time
           /\ <<tool[p].ent.space, tool[p].id, tool[p].ts>> \in Path
           /\ <<tool[p].ent.space, tool[p].id, Live>> \in Path
           /\ lifeLive[tool[p].id] = None
           /\ lifeKept[<<tool[p].id, tool[p].ts>>] \in Life!Workspace
           /\ Life!Becomes(tool[p].id, lifeKept[<<tool[p].id, tool[p].ts>>])
           /\ lifeKept' = [lifeKept EXCEPT ![<<tool[p].id, tool[p].ts>>] = None]
           /\ UNCHANGED <<lifeWaived, unmarked>>
           /\ \A d \in Data : lifePlace[d] = <<tool[p].id, tool[p].ts>>
                                 <=> where[d] = <<tool[p].ent.space, tool[p].id, tool[p].ts>>
           /\ \A x \in Path :
                 owns'[x] = IF x = <<tool[p].ent.space, tool[p].id, Live>> THEN tool[p].id
                            ELSE IF x = <<tool[p].ent.space, tool[p].id, tool[p].ts>> THEN Stray
                            ELSE owns[x]
           /\ owns[<<tool[p].ent.space, tool[p].id, Live>>] = Stray
<1> DEFINE i    == tool[p].id
           t    == tool[p].ts
           e    == tool[p].ent
           from == <<e.space, i, t>>
           to   == <<e.space, i, Live>>
<1>1. /\ entry[<<i, Live>>] = e /\ entry[<<i, t>>] = None /\ t # Live /\ t \in Label
  BY TurnKnows DEF ToolFollows, Process
<1>2. /\ i \in Ids /\ <<i, Live>> \in Key /\ <<i, t>> \in Key
      /\ <<i, Live>> # <<i, t>> /\ e \in Entry /\ from \in Path /\ to \in Path
      /\ e # Empty /\ None # Empty /\ None \notin Entry
  BY <1>1, TurnNames, StoreAssumption
<1>3. t \in Time /\ <<i, t>> \in Ids \X Time
  BY <1>1, <1>2 DEF Label
<1>4. owns = base /\ owns' = base' /\ says' = plain' /\ plain' = plain
  BY TurnMaps DEF plain
<1>5. says[<<i, Live>>] = None /\ says[<<i, t>>] = e
  BY <1>2, PutbackMaps
<1>6. \A k \in Key : says'[k] = CASE k = <<i, Live>> -> e
                                  [] k = <<i, t>>    -> None
                                  [] OTHER           -> says[k]
  <2> SUFFICES ASSUME NEW k \in Key
               PROVE  plain[k] = CASE k = <<i, Live>> -> e
                                   [] k = <<i, t>>    -> None
                                   [] OTHER           -> says[k]
    BY <1>4
  <2>1. plain[k] = IF entry[k] = Empty THEN Broken ELSE entry[k]
    BY DEF plain
  <2>2. k \notin {<<i, Live>>, <<i, t>>} => says[k] = plain[k]
    BY PutbackMaps
  <2> HIDE DEF i, t, e
  <2> QED
    BY <1>1, <1>2, <2>1, <2>2
<1>7. \A d \in Data : lifePlace[d] = <<i, t>> <=> where[d] = from
  BY <1>2, <1>3, <1>4, <1>5, KeptPlaces
<1>8. /\ KeyOf(from) = <<i, t>> /\ KeyOf(to) = <<i, Live>> /\ Part(to) = i
      /\ from[1] = e.space /\ to[1] = e.space
  BY DEF KeyOf, Part
<1>9. ASSUME NEW x \in Path
      PROVE  owns'[x] = IF x = to THEN i ELSE IF x = from THEN Stray ELSE owns[x]
  <2>1. x = <<x[1], x[2], x[3]>> /\ KeyOf(x) \in Key /\ KeyOf(x) = <<x[2], x[3]>>
    BY LifePlaces DEF KeyOf
  <2>2. CASE KeyOf(x) = <<i, Live>>
    <3>1. says[KeyOf(x)] = None /\ says'[KeyOf(x)] = e /\ Part(x) = i
      BY <1>2, <1>5, <1>6, <2>2 DEF KeyOf, Part
    <3>2. x = to <=> x[1] = e.space
      BY <2>1, <2>2
    <3>3. x # from
      BY <1>2, <1>8, <2>2
    <3> HIDE DEF i, t, e, from, to
    <3> QED
      BY <1>2, <1>4, <3>1, <3>2, <3>3, BaseIs
  <2>3. CASE KeyOf(x) = <<i, t>>
    <3>1. says[KeyOf(x)] = e /\ says'[KeyOf(x)] = None
      BY <1>2, <1>5, <1>6, <2>3
    <3>2. x = from <=> x[1] = e.space
      BY <2>1, <2>3
    <3>3. x # to
      BY <1>2, <1>8, <2>3
    <3> HIDE DEF i, t, e, from, to
    <3> QED
      BY <1>2, <1>4, <3>1, <3>2, <3>3, BaseIs
  <2>4. CASE KeyOf(x) # <<i, t>> /\ KeyOf(x) # <<i, Live>>
    <3>1. says'[KeyOf(x)] = says[KeyOf(x)]
      BY <1>6, <2>1, <2>4
    <3>2. x # from /\ x # to
      BY <1>8, <2>4
    <3> HIDE DEF i, t, e, from, to
    <3> QED
      BY <1>4, <3>1, <3>2, BaseIs
  <2> QED
    BY <2>2, <2>3, <2>4
<1>10. owns[to] = Stray
  BY <1>2, <1>4, <1>5, <1>8, BaseIs
<1>11. UNCHANGED <<lifeWaived, unmarked>>
  BY TurnKnows, SameWaived, SameUnmarked
<1> HIDE DEF i, t, e, from, to
<1>12. lifeLive[i] = None /\ lifeKept[<<i, t>>] = Sight(e)
  BY <1>2, <1>3, <1>5, StepKnows, LifeNames
<1>13. Sight(e) \in Life!Workspace /\ Sight(None) = None
  BY <1>2, LifeNames
<1>14. Life!Becomes(i, Sight(e)) /\ lifeKept' = [lifeKept EXCEPT ![<<i, t>>] = Sight(None)]
  BY <1>2, <1>3, <1>6, ChangeBoth
<1> QED
  BY <1>2, <1>3, <1>7, <1>9, <1>10, <1>11, <1>12, <1>13, <1>14 DEF i, t, e, from, to

\* When the directory stays where it is, the workspace has what is in its place.
LEMMA RevivedFound ==
    ASSUME Step, Turn, NEW p \in Procs, tool[p].pc = "putback", tool'[p].pc = "idle",
           UNCHANGED <<entry, where>>
    PROVE  \E found \in SUBSET Life!In(Stray) :
              /\ Life!Revived(tool[p].id, tool[p].ts, found)
              /\ found = {d \in Data : where[d] = <<tool[p].ent.space, tool[p].id, Live>>}
<1> DEFINE i     == tool[p].id
           t     == tool[p].ts
           from  == <<tool[p].ent.space, i, t>>
           to    == <<tool[p].ent.space, i, Live>>
           found == {d \in Data : where[d] = to}
<1>1. /\ i \in Ids /\ t \in Time /\ from \in Path /\ to \in Path
      /\ lifeLive[i] = None /\ lifeKept[<<i, t>>] \in Life!Workspace
      /\ Life!Becomes(i, lifeKept[<<i, t>>])
      /\ lifeKept' = [lifeKept EXCEPT ![<<i, t>>] = None]
      /\ \A d \in Data : lifePlace[d] = <<i, t>> <=> where[d] = from
      /\ \A x \in Path : owns'[x] = IF x = to THEN i ELSE IF x = from THEN Stray ELSE owns[x]
      /\ owns[to] = Stray
  BY RevivedMaps
<1> HIDE DEF i, t, from, to
<1>2. found \in SUBSET Life!In(Stray)
  BY <1>1, PlaceKnows, LifePlaces DEF Life!In
<1>3. \A d \in Data : lifePlace'[d] = IF where[d] = to THEN i
                                    ELSE IF where[d] = from THEN Stray ELSE lifePlace[d]
  <2> SUFFICES ASSUME NEW d \in Data
               PROVE  lifePlace'[d] = IF where[d] = to THEN i
                                      ELSE IF where[d] = from THEN Stray ELSE lifePlace[d]
    OBVIOUS
  <2>1. CASE where[d] \in {Unwritten, Gone}
    BY <1>1, <2>1, PlaceKnows, LifePlaces
  <2>2. CASE where[d] \notin {Unwritten, Gone}
    BY <1>1, <2>2, PlaceKnows, LifePlaces
  <2> QED
    BY <2>1, <2>2
<1>4. lifePlace' = [d \in Data |-> IF d \in found THEN i
                                  ELSE IF d \in Life!In(<<i, t>>) THEN Stray ELSE lifePlace[d]]
  <2>1. \A d \in Data : d \in found <=> where[d] = to
    OBVIOUS
  <2>2. \A d \in Data : d \in Life!In(<<i, t>>) <=> where[d] = from
    BY <1>1 DEF Life!In
  <2> HIDE DEF found
  <2>3. \A d \in Data : lifePlace'[d] = IF d \in found THEN i
                                    ELSE IF d \in Life!In(<<i, t>>) THEN Stray ELSE lifePlace[d]
    BY <1>3, <2>1, <2>2
  <2> QED
    BY <2>3 DEF Step, Mapped, MapLife
<1> HIDE DEF found
<1>5. Life!Revived(i, t, found)
  BY <1>1, <1>4 DEF Life!Revived
<1> QED
  BY <1>2, <1>5 DEF i, t, found, to

LEMMA PutBackLives ==
    ASSUME Step, Turn, NEW p \in Procs, PutBack(p) PROVE LifeStep
<1> DEFINE i    == tool[p].id
           t    == tool[p].ts
           from == <<tool[p].ent.space, i, t>>
           to   == <<tool[p].ent.space, i, Live>>
<1>1. /\ tool[p].pc = "putback" /\ UNCHANGED <<now, entry, faults>>
      /\ Exit(p) /\ Full \subseteq dirs
  BY TurnKnows DEF PutBack, At, Continue
<1>2. tool'[p].pc = "idle"
  BY <1>1, TurnKnows DEF Exit, Become, Idle
<1>3. /\ i \in Ids /\ t \in Time /\ from \in Path /\ to \in Path
      /\ UNCHANGED <<lifeWaived, unmarked>>
      /\ lifeLive[i] = None /\ lifeKept[<<i, t>>] \in Life!Workspace
      /\ Life!Becomes(i, lifeKept[<<i, t>>])
      /\ lifeKept' = [lifeKept EXCEPT ![<<i, t>>] = None]
      /\ \A d \in Data : lifePlace[d] = <<i, t>> <=> where[d] = from
      /\ \A x \in Path : owns'[x] = IF x = to THEN i ELSE IF x = from THEN Stray ELSE owns[x]
  BY <1>1, <1>2, RevivedMaps
<1>4. CASE CanRename(from, to) /\ MoveDir(from, to)
  <2> HIDE DEF i, t, from, to
  <2>1. to \notin Full
    BY <1>1, <1>4 DEF CanRename, Contents, Full
  <2>2. \A d \in Data : lifePlace'[d] = IF where[d] = from THEN i ELSE lifePlace[d]
    <3> SUFFICES ASSUME NEW d \in Data
                 PROVE  lifePlace'[d] = IF where[d] = from THEN i ELSE lifePlace[d]
      OBVIOUS
    <3>1. where'[d] = IF where[d] = from THEN to ELSE where[d]
      BY <1>4 DEF MoveDir
    <3>2. where[d] # to
      BY <1>3, <2>1 DEF Full
    <3> QED
      BY <1>3, <3>1, <3>2, PlaceKnows, LifePlaces
  <2>3. \A d \in Data : d \in Life!In(<<i, t>>) <=> where[d] = from
    BY <1>3 DEF Life!In
  <2>4. lifePlace' = [d \in Data |-> IF d \in Life!In(<<i, t>>) THEN i
                                    ELSE IF d \in Life!In(<<i, t>>) THEN Stray ELSE lifePlace[d]]
    <3>1. \A d \in Data : lifePlace'[d] = IF d \in Life!In(<<i, t>>) THEN i ELSE lifePlace[d]
      BY <2>2, <2>3
    <3> QED
      BY <3>1 DEF Step, Mapped, MapLife
  <2>5. Life!Revived(i, t, Life!In(<<i, t>>))
    BY <1>3, <2>4 DEF Life!Revived
  <2>6. Life!Revive(i, t)
    BY <1>1, <1>3, <2>5 DEF Life!Revive
  <2> QED
    BY <1>3, <2>6, LifeNames DEF LifeStep, Life!Next
<1>5. CASE ~CanRename(from, to) /\ UNCHANGED <<dirs, where>>
  <2>1. PICK found \in SUBSET Life!In(Stray) :
           Life!Revived(i, t, found) /\ found = {d \in Data : where[d] = to}
    BY <1>1, <1>2, <1>5, RevivedFound
  <2> HIDE DEF i, t, from, to
  <2>2. found = {} => Life!In(<<i, t>>) = {}
    <3> SUFFICES ASSUME NEW d \in Data, where[d] = from, found = {} PROVE FALSE
      BY <1>3 DEF Life!In
    <3>1. from \in dirs
      BY <1>1, <1>3 DEF Full
    <3>2. Contents(to) = {}
      BY <2>1 DEF Contents
    <3> QED
      BY <1>5, <3>1, <3>2 DEF CanRename
  <2>3. Life!Revive(i, t)
    BY <1>1, <1>3, <2>1, <2>2 DEF Life!Revive
  <2> QED
    BY <1>3, <2>3, LifeNames DEF LifeStep, Life!Next
<1> QED
  BY <1>4, <1>5 DEF PutBack

-----------------------------------------------------------------------------
(* A process is killed                                                     *)

\* No more than removed data can have become part of no workspace.
LEMMA FaultWhen ==
    ASSUME Step, UNCHANGED <<now, lifeLive, lifeKept, lifeWaived, unmarked>>,
           faults' = faults + 1,
           NEW i \in Ids, NEW t \in Time,
           \A d \in Data : \/ lifePlace'[d] = lifePlace[d]
                           \/ lifePlace[d] = <<i, t>> /\ lifePlace'[d] = Stray
    PROVE  LifeStep
<1> DEFINE D == {d \in Data : lifePlace[d] = <<i, t>> /\ lifePlace'[d] = Stray}
<1>1. D \in SUBSET Life!In(<<i, t>>)
  BY DEF Life!In
<1>2. \A d \in Data : lifePlace'[d] = IF d \in D THEN Stray ELSE lifePlace[d]
  OBVIOUS
<1> HIDE DEF D
<1>3. Life!Moved(D, Stray)
  BY <1>2, MovedWhen
<1>4. Life!Fault(i)
  BY <1>1, <1>3, LifeNames DEF Life!Fault
<1> QED
  BY <1>4 DEF LifeStep, Life!Next

\* A kill while an entry is written leaves it empty.
LEMMA CrashWriteLives ==
    ASSUME Step, Turn, NEW p \in Procs, Crash(p), tool[p].pc = "write", open[p] # None,
           tool'[p].pc = "idle"
    PROVE  LifeStep
<1> DEFINE i == tool[p].id
           e == tool[p].ent
<1>1. /\ UNCHANGED <<now, entry, where>> /\ faults' = faults + 1
      /\ entry[<<i, Live>>] = Empty /\ i \in Ids /\ <<i, Live>> \in Key
  BY TurnKnows, KeyInKey, LiveLabel DEF Crash, ToolFollows, WellFormed
<1>2. owns = base /\ owns' = base' /\ says' = plain' /\ plain' = plain
  BY <1>1, TurnMaps DEF plain
<1>3. plain[<<i, Live>>] = Broken
  BY <1>1 DEF plain
<1>4. \A k \in Key : says'[k] = IF k = <<i, Live>> THEN Broken ELSE says[k]
  BY <1>2, <1>3, TurnMaps
<1>5. Broken \notin Entry
  BY LifeAssumption
<1> HIDE DEF i, e
<1>6. Life!Becomes(i, Sight(Broken)) /\ UNCHANGED lifeKept
  BY <1>1, <1>4, ChangeLive
<1>7. Sight(Broken) = Broken
  BY <1>5 DEF Sight
<1>8. ASSUME NEW x \in Path PROVE owns'[x] = IF owns[x] = i THEN Stray ELSE owns[x]
  <2>1. CASE KeyOf(x) = <<i, Live>>
    <3>1. Part(x) = i /\ says'[KeyOf(x)] = Broken
      BY <1>1, <1>4, <2>1, LifePlaces DEF KeyOf, Part
    <3> QED
      BY <1>2, <1>5, <3>1, BaseIs
  <2>2. CASE KeyOf(x) # <<i, Live>>
    <3>1. Part(x) # i /\ says'[KeyOf(x)] = says[KeyOf(x)]
      BY <1>1, <1>4, <2>2, LifePlaces DEF KeyOf
    <3>2. Stray # i
      BY <1>1, LifePlaces
    <3> QED
      BY <1>2, <3>1, <3>2, BaseIs
  <2> QED
    BY <2>1, <2>2
<1>9. \A d \in Data : lifePlace'[d] = IF lifePlace[d] = i THEN Stray ELSE lifePlace[d]
  BY <1>1, <1>8, PlaceKnows, LifePlaces
<1>10. \A d \in Data : lifePlace'[d] = IF d \in Life!In(i) THEN Stray ELSE lifePlace[d]
  BY <1>9 DEF Life!In
<1>11. Life!Moved(Life!In(i), Stray)
  BY <1>10, MovedWhen
<1>12. UNCHANGED <<lifeWaived, unmarked>>
  BY TurnKnows, SameWaived, SameUnmarked
<1>13. Life!Fault(i)
  BY <1>1, <1>6, <1>7, <1>11, <1>12 DEF Life!Fault
<1> QED
  BY <1>1, <1>13 DEF LifeStep, Life!Next

\* A kill between the two renames of a removal leaves the live directory stray.
LEMMA CrashMoveLives ==
    ASSUME Step, Turn, NEW p \in Procs, Crash(p), tool[p].pc = "movedir", tool'[p].pc = "idle"
    PROVE  LifeStep
<1> DEFINE i    == tool[p].id
           t    == tool[p].ts
           from == <<tool[p].ent.space, i, Live>>
<1>1. /\ UNCHANGED <<now, entry, where>> /\ faults' = faults + 1
      /\ entry[<<i, Live>>] = None
  BY TurnKnows DEF Crash, ToolFollows
<1>2. i \in Ids /\ t \in Time /\ <<i, Live>> \in Key /\ from \in Path /\ KeyOf(from) = <<i, Live>>
      /\ None \notin Entry /\ None # Empty
  BY TurnNames, StoreAssumption DEF KeyOf
<1>3. says = plain /\ says' = says /\ owns' = base /\ says[<<i, Live>>] = None
  <2>1. says = plain /\ says' = plain' /\ owns' = base' /\ plain' = plain
    BY <1>1, TurnMaps DEF plain
  <2> QED
    BY <1>1, <1>2, <2>1, SameBase DEF plain
<1>4. base[from] = Stray
  BY <1>2, <1>3, BaseIs
<1>5. \A x \in Path : owns[x] = base[x] \/ (x = from /\ owns[x] = <<i, t>>)
  BY MovingMaps
<1> HIDE DEF i, t, from
<1>6. \A d \in Data : \/ lifePlace'[d] = lifePlace[d]
                      \/ lifePlace[d] = <<i, t>> /\ lifePlace'[d] = Stray
  BY <1>1, <1>3, <1>4, <1>5, PlaceKnows
<1>7. UNCHANGED <<lifeWaived, unmarked>>
  BY TurnKnows, SameWaived, SameUnmarked
<1> QED
  BY <1>1, <1>2, <1>3, <1>6, <1>7, SameSays, FaultWhen DEF Turn

LEMMA CrashLives ==
    ASSUME Step, Turn, NEW p \in Procs, Crash(p) PROVE LifeStep
<1>1. /\ tool[p].pc # "idle" /\ UNCHANGED <<now, entry, where>> /\ faults' = faults + 1
      /\ Exit(p)
  BY DEF Crash, At
<1>2. tool'[p].pc = "idle"
  BY <1>1, TurnKnows DEF Exit, Become, Idle
<1>3. UNCHANGED <<lifeWaived, unmarked>>
  BY <1>2, TurnKnows, SameWaived, SameUnmarked
<1>4. CASE tool[p].pc = "putback"
  <2>1. PICK found \in SUBSET Life!In(Stray) : Life!Revived(tool[p].id, tool[p].ts, found)
    BY <1>1, <1>2, <1>4, RevivedFound
  <2>2. tool[p].id \in Ids /\ tool[p].ts \in Life!Time
    BY <1>1, <1>2, <1>4, RevivedMaps, LifeNames
  <2>3. Life!Fault(tool[p].id)
    BY <1>1, <1>3, <2>1, <2>2, TurnKnows DEF Life!Fault
  <2> QED
    BY <2>2, <2>3 DEF LifeStep, Life!Next
<1>5. CASE \/ tool[p].pc \notin {"write", "movedir", "putback"}
           \/ tool[p].pc = "write" /\ open[p] = None
  <2>1. says' = says /\ owns' = owns
    <3>1. says' = plain' /\ owns = base /\ owns' = base' /\ plain' = plain
      BY <1>1, <1>2, <1>5, TurnMaps DEF plain
    <3>2. \A k \in Key : says[k] = plain[k]
      BY <1>5, TurnMaps
    <3>3. says' = says
      BY <3>1, <3>2, StepKnows DEF plain
    <3> QED
      BY <3>1, <3>3, SameBase
  <2>2. tool[p].id \in Ids
    BY <1>1, TurnKnows DEF WellFormed
  <2>3. 1 \in Time
    BY StoreAssumption DEF Time
  <2>4. \A d \in Data : lifePlace'[d] = lifePlace[d]
    BY <1>1, <2>1, SameOwners
  <2> QED
    BY <1>1, <1>3, <2>1, <2>2, <2>3, <2>4, SameSays, FaultWhen DEF Turn
<1> QED
  BY <1>2, <1>4, <1>5, CrashWriteLives, CrashMoveLives
-----------------------------------------------------------------------------
(* The steps of the expirer                                                *)

LEMMA RoundMaps ==
    ASSUME Step, Round
    PROVE  /\ says = plain /\ says' = plain'
           /\ xp.pc # "movedir" => owns = base
           /\ xp'.pc # "movedir" => owns' = base'
           /\ UNCHANGED <<now, lifeWaived, unmarked>> /\ now \in Time
<1>1. \A p \in Procs : tool[p].pc = "idle" /\ tool'[p].pc = "idle"
  BY RoundKnows DEF ToolsIdle, At
<1>2. says = plain /\ says' = plain'
  BY <1>1 DEF Step, Mapped, MapContent
<1>3. xp.pc # "movedir" => owns = base
  BY <1>1 DEF Step, Mapped, MapOwner, At
<1>4. xp'.pc # "movedir" => owns' = base'
  BY <1>1 DEF Step, Mapped, MapOwner, At
<1>5. UNCHANGED <<lifeWaived, unmarked>>
  BY <1>1, SameWaived, SameUnmarked
<1> QED
  BY <1>2, <1>3, <1>4, <1>5, RoundKnows

\* When the entries stay as they are, so do the owners of the directories.
LEMMA RoundOwners ==
    ASSUME Step, Round, UNCHANGED entry, xp.pc # "movedir", xp'.pc # "movedir"
    PROVE  says' = says /\ owns = base /\ owns' = owns
<1>1. says' = says
  BY RoundMaps DEF plain
<1> QED
  BY <1>1, RoundMaps, SameBase

LEMMA RoundStutters ==
    ASSUME Step, Round, UNCHANGED <<entry, where, faults>>, xp.pc # "movedir",
           xp'.pc # "movedir"
    PROVE  LifeStep
BY RoundOwners, RoundMaps, SameSays, SameOwners, Stutters

\* The steps that read, and the end of the run.
LEMMA ListingLives ==
    ASSUME Step, Round, UNCHANGED faults,
           \/ \E s \in Spaces : ScanSpace(s) \/ ScanTrash(s)
           \/ ListEntries \/ ListRemovedEntries \/ ListLive \/ ListRemoved
           \/ FinishRun
           \/ \E k \in Key : CheckEntry(k) \/ VisitEntry(k) \/ VisitRemoved(k)
    PROVE  LifeStep
<1>0. xp \in Fields
  BY RoundKnows, Zenon
<1>1. UNCHANGED <<entry, where>> /\ xp.pc # "movedir"
  <2>1. UNCHANGED storeVars /\ xp.pc # "movedir"
    BY Zenon
    DEF ScanSpace, ScanTrash, ListEntries, ListRemovedEntries, ListLive, ListRemoved,
        FinishRun, CheckEntry, VisitEntry, VisitRemoved
  <2> QED
    BY <2>1 DEF storeVars
<1>2. xp'.pc # "movedir"
  <2>1. CASE \E s \in Spaces : ScanSpace(s) \/ ScanTrash(s)
    BY <1>0, <2>1 DEF ScanSpace, ScanTrash, Fields
  <2>2. CASE ListEntries \/ ListRemovedEntries \/ ListLive \/ ListRemoved
    BY <1>0, <2>2 DEF ListEntries, ListRemovedEntries, ListLive, ListRemoved, Fields, Resting
  <2>3. CASE FinishRun
    BY <2>3 DEF FinishRun, Abort, Resting
  <2>4. ASSUME NEW k \in Key, CheckEntry(k) PROVE xp'.pc # "movedir"
    <3>1. CASE Abort
      BY <3>1 DEF Abort, Resting
    <3>2. CASE xp' = [xp EXCEPT !.todo = @ \ {k},
                                !.pc = IF xp.todo = {k} THEN "stray" ELSE "check"]
      BY <1>0, <3>2 DEF Fields
    <3> QED
      BY <2>4, <3>1, <3>2 DEF CheckEntry
  <2>5. ASSUME NEW k \in Key, VisitEntry(k) PROVE xp'.pc # "movedir"
    BY <1>0, <2>5 DEF VisitEntry, Fields
  <2>6. ASSUME NEW k \in Key, VisitRemoved(k) PROVE xp'.pc # "movedir"
    BY <1>0, <2>6 DEF VisitRemoved, Fields
  <2> QED
    BY <2>1, <2>2, <2>3, <2>4, <2>5, <2>6
<1> QED
  BY <1>1, <1>2, RoundStutters

\* A directory without an entry is no workspace.
LEMMA OwnedByNone ==
    ASSUME Step, owns = base, NEW x \in Path, says[KeyOf(x)] = None
    PROVE  owns[x] = Stray
BY BaseIs, StoreAssumption

LEMMA VisitDirLives ==
    ASSUME Step, Round, UNCHANGED faults, NEW path \in Path, VisitDir(path)
    PROVE  LifeStep
<1> DEFINE removed == <<path[1], path[2], now>>
           k       == <<path[2], now>>
<1>1. /\ xp.pc = "stray" /\ xp'.pc = "stray" /\ UNCHANGED <<entry, open>>
      /\ path[3] = Live /\ LiveKeys \subseteq xp.names
  <2>1. xp.pc = "stray" /\ path \in xp.paths /\ UNCHANGED <<entry, open>>
        /\ xp' = [xp EXCEPT !.paths = @ \ {path}]
    BY DEF VisitDir
  <2> QED
    BY <2>1, RoundKnows DEF Fields, ExpirerFollows
<1>2. CASE UNCHANGED <<dirs, where>>
  BY <1>1, <1>2, RoundStutters
<1>3. CASE <<path[2], Live>> \notin xp.names /\ MoveDir(path, removed)
  <2>1. says' = says /\ owns = base /\ owns' = owns
    BY <1>1, RoundOwners
  <2>2. /\ path[1] \in Spaces /\ path[2] \in Ids /\ now \in Time
        /\ <<path[2], Live>> \in Key /\ KeyOf(path) = <<path[2], Live>>
        /\ removed \in Path /\ k \in Ids \X Time /\ KeyOf(removed) = k
    BY <1>1, LifePlaces, RoundKnows, KeyInKey, LiveLabel, Paths DEF KeyOf
  <2>3. entry[<<path[2], Live>>] = None
    BY <1>1, <1>3, <2>2 DEF LiveKeys, Exists
  <2>4. says[KeyOf(path)] = None
    BY <2>2, <2>3, RoundMaps, StoreAssumption DEF plain
  <2>5. owns[path] = Stray
    BY <2>1, <2>4, OwnedByNone
  <2>6. owns[removed] = Stray \/ (owns[removed] = k /\ says[k] \in Entry)
    <3>1. Part(removed) = k
      BY <2>2, LifePlaces
    <3> QED
      BY <2>1, <2>2, <3>1, BaseIs
  <2> HIDE DEF removed, k
  <2>7. \A d \in Data : lifePlace'[d] = IF where[d] = path THEN owns[removed] ELSE lifePlace[d]
    BY <1>3, <2>1, <2>2, MovePlaces
  <2>8. \A d \in Data : where[d] = path => lifePlace[d] = Stray
    BY <2>5, PlaceKnows, LifePlaces
  <2>9. CASE owns[removed] = Stray
    <3>1. UNCHANGED lifePlace
      BY <2>7, <2>8, <2>9, SamePlace
    <3> QED
      BY <2>1, <3>1, RoundMaps, SameSays, Stutters
  <2>10. CASE owns[removed] = k /\ says[k] \in Entry
    <3>1. Life!Found(k)
      BY <2>7, <2>8, <2>10, FoundWhen
    <3>2. lifeKept[k] # None
      BY <2>2, <2>10, StepKnows, LifeNames
    <3>3. Life!Recover(k)
      BY <2>1, <3>1, <3>2, RoundMaps, SameSays DEF Life!Recover
    <3> QED
      BY <2>2, <3>3, LifeNames DEF LifeStep, Life!Next
  <2> QED
    BY <2>6, <2>9, <2>10
<1> QED
  BY <1>2, <1>3 DEF VisitDir

\* The expirer deletes what is no workspace.
LEMMA DeletionLives ==
    ASSUME Step, Round, UNCHANGED <<entry, faults>>, xp.pc # "movedir", xp'.pc # "movedir",
           NEW path \in Path, NEW rest, DelDir(path, rest), entry[KeyOf(path)] = None
    PROVE  LifeStep
<1> DEFINE D == {d \in Data : where[d] = path /\ d \notin rest}
<1>1. says' = says /\ owns = base /\ owns' = owns
  BY RoundOwners
<1>2. says[KeyOf(path)] = None
  BY RoundMaps, LifePlaces, StoreAssumption DEF plain
<1>3. owns[path] = Stray
  BY <1>1, <1>2, OwnedByNone
<1>4. \A d \in Data : lifePlace'[d] = IF d \in D THEN Gone ELSE lifePlace[d]
  BY <1>1, DeletePlaces DEF DelDir
<1>5. D \subseteq Life!In(Stray) /\ D \in SUBSET Data
  BY <1>3, PlaceKnows, LifePlaces DEF Life!In
<1> HIDE DEF D
<1>6. Life!Delete(D)
  BY <1>1, <1>4, <1>5, RoundMaps, SameSays, MovedWhen DEF Life!Delete
<1> QED
  BY <1>5, <1>6 DEF LifeStep, Life!Next

LEMMA VisitTrashLives ==
    ASSUME Step, Round, UNCHANGED faults, NEW path \in Path, NEW rest,
           VisitTrash(path, rest)
    PROVE  LifeStep
<1>1. xp.pc = "trash" /\ xp'.pc = "trash" /\ UNCHANGED <<entry, open>> /\ path \in xp.paths
  BY RoundKnows DEF VisitTrash, Fields
<1>2. CASE UNCHANGED <<dirs, where>>
  BY <1>1, <1>2, RoundStutters
<1>3. CASE <<path[2], path[3]>> \notin xp.names /\ DelDir(path, rest)
  <2>1. path[3] # Live /\ RemovedKeys \subseteq xp.names
    BY <1>1, RoundKnows DEF ListInv, ExpirerFollows
  <2>2. KeyOf(path) \in Key /\ KeyOf(path) = <<path[2], path[3]>>
    BY LifePlaces DEF KeyOf
  <2>3. entry[KeyOf(path)] = None
    BY <1>3, <2>1, <2>2 DEF RemovedKeys, Exists
  <2> QED
    BY <1>1, <1>3, <2>3, DeletionLives
<1> QED
  BY <1>2, <1>3 DEF VisitTrash

LEMMA ExpireEntryLives ==
    ASSUME Step, Round, UNCHANGED faults, ExpireEntry PROVE LifeStep
<1> DEFINE i     == xp.job.key[1]
           t     == xp.job.ts
           e     == xp.job.ent
           from  == <<e.space, i, Live>>
           to    == <<e.space, i, t>>
           moves == CanRename(from, to)
<1>1. /\ xp.pc = "retire" /\ UNCHANGED <<now, dirs, where>> /\ xp.job \in Job
      /\ xp.job.key[2] = Live /\ entry[xp.job.key] = e /\ now > e.exp /\ t <= now
  BY RoundKnows DEF ExpireEntry, ExpirerFollows, JobPc
<1>2. /\ i \in Ids /\ t \in Time /\ e \in Entry /\ e # Empty /\ xp.job.key = <<i, Live>>
      /\ <<i, Live>> \in Key /\ <<i, t>> \in Key /\ <<i, t>> # <<i, Live>>
      /\ from \in Path /\ to \in Path /\ None # Empty
  <2>1. xp.job.key \in Key /\ t \in Time /\ e \in Entry
    BY <1>1 DEF Job
  <2> QED
    BY <1>1, <2>1, RoundKnows, JobNames, LiveIsNoTime, Paths, StoreAssumption DEF JobPc
<1>3. CASE Abort /\ UNCHANGED <<entry, open>>
  <2>1. xp'.pc # "movedir"
    BY <1>3 DEF Abort, Resting
  <2> QED
    BY <1>1, <1>3, <2>1, RoundStutters
<1>4. CASE RenameEntry(xp.job.key, <<i, t>>) /\ xp' = [xp EXCEPT !.pc = "movedir"]
  <2>1. xp'.pc = "movedir" /\ xp'.job = xp.job
    BY <1>4, RoundKnows DEF Fields
  <2>2. RenameEntry(<<i, Live>>, <<i, t>>)
    BY <1>2, <1>4
  <2>3. /\ entry'[<<i, t>>] = e /\ entry'[<<i, Live>>] = None
        /\ \A k \in Key \ {<<i, Live>>, <<i, t>>} : entry'[k] = entry[k]
    <3>1. entry[<<i, Live>>] = e
      BY <1>1, <1>2
    <3> HIDE DEF i, t, e
    <3> QED
      BY <1>2, <2>2, <3>1, RoundKnows, RenamedKnows
  <2>4. /\ says = plain /\ says' = plain' /\ owns = base
        /\ UNCHANGED <<lifeWaived, unmarked>>
    BY <1>1, RoundMaps
  <2>5. says[<<i, Live>>] = e
    BY <1>1, <1>2, <2>4 DEF plain
  <2>6. \A k \in Key : says'[k] = CASE k = <<i, Live>> -> None
                                    [] k = <<i, t>>    -> e
                                    [] OTHER           -> says[k]
    <3> SUFFICES ASSUME NEW k \in Key
                 PROVE  plain'[k] = CASE k = <<i, Live>> -> None
                                      [] k = <<i, t>>    -> e
                                      [] OTHER           -> plain[k]
      BY <2>4
    <3>1. plain'[k] = IF entry'[k] = Empty THEN Broken ELSE entry'[k]
      BY DEF plain
    <3>2. plain[k] = IF entry[k] = Empty THEN Broken ELSE entry[k]
      BY DEF plain
    <3> HIDE DEF i, t, e
    <3> QED
      BY <1>2, <2>3, <3>1, <3>2
  <2>7. ASSUME NEW x \in Path
        PROVE  owns'[x] = IF x = from /\ moves THEN <<i, t>> ELSE base'[x]
    <3>1. owns'[x] = IF x = from /\ CanRename(x, to)' THEN <<i, t>> ELSE base'[x]
      BY <2>1 DEF Step, Mapped, MapOwner
    <3>2. CanRename(x, to)' <=> CanRename(x, to)
      BY <1>1, <2>1 DEF CanRename, Contents
    <3> QED
      BY <3>1, <3>2
  <2>8. moves \/ from \notin Full \/ to \in Full
    <3>1. from \in Full => from \in dirs
      BY RoundKnows
    <3>2. Contents(to) # {} => to \in Full
      BY <1>2 DEF Contents, Full
    <3> QED
      BY <3>1, <3>2 DEF CanRename
  <2>9. moves \in BOOLEAN
    BY DEF CanRename
  <2>10. e.rel # 0 \/ now > e.exp \/ <<i, t>> \in unmarked
    BY <1>1
  <2> HIDE DEF i, t, e, moves
  <2> QED
    BY <1>1, <1>2, <2>4, <2>5, <2>6, <2>7, <2>8, <2>9, <2>10, RemovalLives DEF from, to
<1> QED
  BY <1>3, <1>4 DEF ExpireEntry

\* The directory follows its entry, and nothing is seen of it.
LEMMA ExpireDirLives ==
    ASSUME Step, Round, UNCHANGED faults, ExpireDir PROVE LifeStep
<1> DEFINE i    == xp.job.key[1]
           t    == xp.job.ts
           e    == xp.job.ent
           k    == <<i, t>>
           from == <<e.space, i, Live>>
           to   == <<e.space, i, t>>
<1>1. /\ xp.pc = "movedir" /\ xp'.pc = "expire" /\ UNCHANGED <<entry, open>>
      /\ xp.job \in Job /\ entry[k] = e
  BY RoundKnows DEF ExpireDir, Fields, ExpirerFollows, JobPc
<1>2. /\ i \in Ids /\ t \in Time /\ e \in Entry /\ e # Empty /\ k \in Key
      /\ k \in Ids \X Time /\ from \in Path /\ to \in Path
      /\ KeyOf(to) = k /\ to[1] = e.space
  <2>1. xp.job.key \in Key /\ t \in Time /\ e \in Entry
    BY <1>1 DEF Job
  <2> QED
    BY <1>1, <2>1, RoundKnows, JobNames, Paths, StoreAssumption DEF JobPc, KeyOf
<1>3. says = plain /\ says' = says /\ owns' = base /\ UNCHANGED <<now, lifeWaived, unmarked>>
  <2>1. says = plain /\ says' = plain' /\ owns' = base' /\ UNCHANGED <<now, lifeWaived, unmarked>>
    BY <1>1, RoundMaps
  <2>2. plain' = plain
    BY <1>1 DEF plain
  <2> QED
    BY <2>1, <2>2, SameBase
<1>4. says[k] = e
  BY <1>1, <1>2, <1>3 DEF plain
<1>5. \A x \in Path : owns[x] = IF x = from /\ CanRename(from, to) THEN k ELSE owns'[x]
  <2> SUFFICES ASSUME NEW x \in Path
               PROVE  owns[x] = IF x = from /\ CanRename(from, to) THEN k ELSE base[x]
    BY <1>3
  <2>1. owns[x] = IF x = from /\ CanRename(x, to) THEN k ELSE base[x]
    BY <1>1 DEF Step, Mapped, MapOwner
  <2> HIDE DEF from, to, k
  <2> QED
    BY <2>1
<1>6. owns'[to] = k
  <2>1. Part(to) = k
    BY <1>2, LifePlaces
  <2> QED
    BY <1>2, <1>3, <1>4, <2>1, BaseIs
<1>7. UNCHANGED lifePlace
  <2>1. CASE CanRename(from, to) /\ MoveDir(from, to)
    <3> HIDE DEF from, to, k
    <3>1. \A x \in Full \ {from} : owns'[x] = owns[x]
      BY <1>5 DEF Full
    <3>2. \A d \in Data : lifePlace'[d] = IF where[d] = from THEN k ELSE lifePlace[d]
      BY <1>2, <1>6, <2>1, <3>1, MovePlaces
    <3>3. \A d \in Data : where[d] = from => lifePlace[d] = k
      BY <1>2, <1>5, <2>1, PlaceKnows, LifePlaces
    <3> QED
      BY <3>2, <3>3, SamePlace
  <2>2. CASE ~CanRename(from, to) /\ UNCHANGED <<dirs, where>>
    <3>1. \A x \in Path \cap Full : owns'[x] = owns[x]
      BY <1>5, <2>2
    <3> QED
      BY <2>2, <3>1, SameOwners
  <2> QED
    BY <2>1, <2>2 DEF ExpireDir
<1> QED
  BY <1>3, <1>7, SameSays, Stutters

LEMMA UnlinkRemovedLives ==
    ASSUME Step, Round, UNCHANGED faults, UnlinkRemoved PROVE LifeStep
<1> DEFINE i == xp.job.key[1]
           t == xp.job.key[2]
           e == xp.job.ent
<1>1. /\ xp.pc = "unlink" /\ UNCHANGED <<now, dirs, where>> /\ xp.job \in Job
      /\ entry[xp.job.key] = e /\ t # Live /\ Due(t, e)
  BY RoundKnows DEF UnlinkRemoved, ExpirerFollows, JobInv, JobPc
<1>2. /\ i \in Ids /\ t \in Time /\ e \in Entry /\ e # Empty /\ xp.job.key = <<i, t>>
      /\ <<i, t>> \in Key /\ None # Empty
  <2>1. xp.job.key \in Key /\ e \in Entry
    BY <1>1 DEF Job
  <2> QED
    BY <1>1, <2>1, Paths, StoreAssumption DEF Label
<1>3. CASE Abort /\ UNCHANGED <<entry, open>>
  <2>1. xp'.pc # "movedir"
    BY <1>3 DEF Abort, Resting
  <2> QED
    BY <1>1, <1>3, <2>1, RoundStutters
<1>4. CASE UnlinkEntry(xp.job.key) /\ xp' = [xp EXCEPT !.pc = "deldir"]
  <2>1. xp'.pc = "deldir"
    BY <1>4, RoundKnows DEF Fields
  <2>2. /\ says = plain /\ says' = plain' /\ owns = base /\ owns' = base'
        /\ UNCHANGED <<lifeWaived, unmarked>>
    BY <1>1, <2>1, RoundMaps
  <2>3. UnlinkEntry(<<i, t>>) /\ entry[<<i, t>>] = e
    BY <1>1, <1>2, <1>4
  <2> HIDE DEF i, t, e
  <2>4. \A k \in Key : plain'[k] = IF k = <<i, t>> THEN None ELSE plain[k]
    BY <1>2, <2>3, RoundKnows DEF UnlinkEntry, plain, EntryTypeOK
  <2>5. says[<<i, t>>] = e
    BY <1>2, <2>2, <2>3 DEF plain
  <2>6. \A k \in Key : says'[k] = IF k = <<i, t>> THEN None ELSE says[k]
    BY <2>2, <2>4
  <2>7. /\ lifeKept[<<i, t>>] = Seen(e) /\ lifeKept[<<i, t>>] # None
        /\ lifeKept' = [lifeKept EXCEPT ![<<i, t>>] = None]
        /\ UNCHANGED lifeLive /\ Life!Moved(Life!In(<<i, t>>), Stray)
    <3>1. Sight(e) = Seen(e)
      BY <1>2 DEF Sight
    <3> QED
      BY <1>1, <1>2, <2>2, <2>5, <2>6, <3>1, UnlinkMaps
  <2>8. Life!Due(<<i, t>>)
    BY <1>1, <2>7 DEF Life!Due, Due, Seen, Live
  <2>9. Life!Purge(<<i, t>>)
    BY <1>1, <1>2, <2>2, <2>7, <2>8, LifeNames DEF Life!Purge
  <2> QED
    BY <1>2, <2>9, LifeNames DEF LifeStep, Life!Next
<1> QED
  BY <1>3, <1>4 DEF UnlinkRemoved

LEMMA DeleteRemovedLives ==
    ASSUME Step, Round, UNCHANGED faults, NEW rest, DeleteRemoved(rest) PROVE LifeStep
<1> DEFINE path == <<xp.job.ent.space, xp.job.key[1], xp.job.key[2]>>
<1>1. /\ xp.pc = "deldir" /\ xp'.pc = "reap" /\ UNCHANGED <<entry, open>>
      /\ DelDir(path, rest) /\ entry[xp.job.key] = None
  BY RoundKnows DEF DeleteRemoved, Fields, ExpirerFollows
<1>2. path \in Path /\ xp.job.key \in Key
  BY <1>1, RoundKnows, JobNames DEF JobPc
<1>3. KeyOf(path) = xp.job.key
  BY <1>2, Paths DEF KeyOf
<1> HIDE DEF path
<1> QED
  BY <1>1, <1>2, <1>3, DeletionLives

LEMMA ContinueRunLives ==
    ASSUME Step, Round, UNCHANGED faults, ContinueRun PROVE LifeStep
BY ListingLives, VisitDirLives, VisitTrashLives, ExpireEntryLives, ExpireDirLives,
   UnlinkRemovedLives, DeleteRemovedLives
DEF ContinueRun

\* A kill between the two renames leaves the live directory stray.
LEMMA RunCrashesLives ==
    ASSUME Step, Round, RunCrashes PROVE LifeStep
<1>1. UNCHANGED <<entry, dirs, where>> /\ faults' = faults + 1 /\ xp'.pc = "idle"
  BY DEF RunCrashes, Abort, Resting, storeVars
<1>2. says = plain /\ says' = says /\ owns' = base /\ UNCHANGED <<now, lifeWaived, unmarked>>
  <2>1. says = plain /\ says' = plain' /\ owns' = base' /\ UNCHANGED <<now, lifeWaived, unmarked>>
    BY <1>1, RoundMaps
  <2>2. plain' = plain
    BY <1>1 DEF plain
  <2> QED
    BY <2>1, <2>2, SameBase
<1>3. CASE xp.pc = "movedir"
  <2> DEFINE i    == xp.job.key[1]
             t    == xp.job.ts
             from == <<xp.job.ent.space, i, Live>>
  <2>1. /\ xp.job \in Job /\ xp.job.key \in Key /\ xp.job.key[2] = Live /\ t \in Time
        /\ entry[xp.job.key] = None /\ from \in Path
    BY <1>3, RoundKnows, JobNames DEF ExpirerFollows, JobPc, Job
  <2>2. i \in Ids /\ KeyOf(from) = xp.job.key
    BY <2>1, Paths DEF KeyOf
  <2>3. says[xp.job.key] = None
    BY <1>2, <2>1, StoreAssumption DEF plain
  <2>4. base[from] = Stray
    BY <2>1, <2>2, <2>3, BaseIs, StoreAssumption
  <2>5. \A x \in Path : owns[x] = base[x] \/ (owns[x] = <<i, t>> /\ x = from)
    BY <1>3 DEF Step, Mapped, MapOwner
  <2> HIDE DEF i, t, from
  <2>6. \A d \in Data : \/ lifePlace'[d] = lifePlace[d]
                        \/ lifePlace[d] = <<i, t>> /\ lifePlace'[d] = Stray
    BY <1>1, <1>2, <2>4, <2>5, PlaceKnows
  <2> QED
    BY <1>1, <1>2, <2>1, <2>2, <2>6, SameSays, FaultWhen
<1>4. CASE xp.pc # "movedir"
  <2>1. owns = base
    BY <1>4, RoundMaps
  <2>2. \A d \in Data : lifePlace'[d] = lifePlace[d]
    BY <1>1, <1>2, <2>1, SameOwners
  <2>3. PICK i : i \in Ids
    BY LifeAssumption
  <2>4. 1 \in Time
    BY StoreAssumption DEF Time
  <2> QED
    BY <1>1, <1>2, <2>2, <2>3, <2>4, SameSays, FaultWhen
<1> QED
  BY <1>3, <1>4
-----------------------------------------------------------------------------
(* The clock, the jobs and cron                                            *)

\* What an entry says is known from the entries and the tools.
LEMMA StillSays == ASSUME UNCHANGED <<entry, open, tool>> PROVE says' = says
BY DEF says, Content, Reviving, Writer, At

LEMMA StillWaived ==
    ASSUME Step, UNCHANGED tool PROVE UNCHANGED <<lifeWaived, unmarked>>
BY SameWaived, SameUnmarked

\* A directory belongs to a workspace that is there.
LEMMA OwnedKnows ==
    ASSUME Step, NEW x \in Path
    PROVE  /\ \A i \in Ids : owns[x] = i => lifeLive[i] # None
           /\ \A k \in Ids \X Time : owns[x] = k => lifeKept[k] # None
<1>1. CASE owns[x] = base[x]
  <2>1. base[x] = Stray \/ (base[x] = Part(x) /\ says[KeyOf(x)] \in Entry)
    BY BaseIs
  <2>2. ASSUME NEW i \in Ids, owns[x] = i PROVE lifeLive[i] # None
    <3>1. Part(x) = i /\ says[KeyOf(x)] \in Entry
      BY <1>1, <2>1, <2>2, LifePlaces
    <3>2. KeyOf(x) = <<i, Live>>
      BY <3>1, LifePlaces DEF KeyOf
    <3> QED
      BY <3>1, <3>2, StepKnows, LifeNames
  <2>3. ASSUME NEW k \in Ids \X Time, owns[x] = k PROVE lifeKept[k] # None
    <3>1. Part(x) = k /\ says[KeyOf(x)] \in Entry
      BY <1>1, <2>1, <2>3, LifePlaces
    <3>2. KeyOf(x) = k
      BY <3>1, LifePlaces
    <3> QED
      BY <3>1, <3>2, StepKnows, LifeNames
  <2> QED
    BY <2>2, <2>3
<1>2. ASSUME owns[x] # base[x]
      PROVE  \E i \in Ids, t \in Time : owns[x] = <<i, t>> /\ says[<<i, t>>] \in Entry
  <2>1. CASE \E p \in Procs : At(p, "movedir")
    <3>1. PICK p \in Procs : tool[p].pc = "movedir"
      BY <2>1 DEF At
    <3>2. \A q \in Procs : tool[q].pc = "movedir"
      BY <3>1 DEF Step, OneAtATime
    <3>3. says = plain
      BY <3>2 DEF Step, Mapped, MapContent
    <3>4. /\ owns[x] = <<tool[p].id, tool[p].ts>>
          /\ entry[<<tool[p].id, tool[p].ts>>] \in Entry
      BY <1>2, <3>1 DEF Step, Mapped, MapOwner, At
    <3>5. tool[p].id \in Ids /\ tool[p].ts \in Time
      BY <3>1 DEF Step, TypeOK, ToolTypeOK, WellFormed
    <3>6. says[<<tool[p].id, tool[p].ts>>] \in Entry
      BY <3>3, <3>4, <3>5, LifeNames, StoreAssumption DEF plain
    <3> QED
      BY <3>4, <3>5, <3>6
  <2>2. CASE xp.pc = "movedir"
    <3>1. \A q \in Procs : tool[q].pc = "idle"
      BY <2>2 DEF Step, Follows, ExpirerFollows, Running, ToolsIdle, At
    <3>2. says = plain
      BY <3>1 DEF Step, Mapped, MapContent
    <3>3. owns[x] = <<xp.job.key[1], xp.job.ts>>
      BY <1>2, <2>2 DEF Step, Mapped, MapOwner
    <3>4. xp.job \in Job /\ entry[<<xp.job.key[1], xp.job.ts>>] = xp.job.ent
      BY <2>2 DEF Step, TypeOK, ExpirerTypeOK, Follows, ExpirerFollows
    <3>5. xp.job.key[1] \in Ids /\ xp.job.ts \in Time /\ xp.job.ent \in Entry
      BY <3>4 DEF Job, Key
    <3>6. says[<<xp.job.key[1], xp.job.ts>>] = xp.job.ent
      BY <3>2, <3>4, <3>5, LifeNames, StoreAssumption DEF plain
    <3> QED
      BY <3>3, <3>5, <3>6
  <2>3. CASE xp.pc # "movedir" /\ ~(\E p \in Procs : At(p, "movedir"))
    BY <1>2, <2>3 DEF Step, Mapped, MapOwner
  <2> QED
    BY <2>1, <2>2, <2>3
<1>3. CASE owns[x] # base[x]
  <2>1. PICK i \in Ids, t \in Time : owns[x] = <<i, t>> /\ says[<<i, t>>] \in Entry
    BY <1>2, <1>3
  <2>2. lifeKept[<<i, t>>] # None
    BY <2>1, StepKnows, LifeNames
  <2>3. <<i, t>> \in Ids \X Time
    OBVIOUS
  <2> QED
    BY <2>1, <2>2, <2>3, LifePlaces
<1> QED
  BY <1>1, <1>3

\* What a job writes is part of what its directory is part of.
LEMMA JobLives ==
    ASSUME Step, UNCHANGED xp, NEW d \in Data, NEW s \in Spaces, NEW i \in Ids,
           JobWrites(d, s, i)
    PROVE  LifeStep
<1> DEFINE path == <<s, i, Live>>
<1>1. /\ where[d] = Unwritten /\ where' = [where EXCEPT ![d] = path]
      /\ UNCHANGED <<now, entry, open, dirs, tool, faults>>
  BY DEF JobWrites, toolVars
<1>2. path \in Path /\ path[3] = Live /\ path \notin {Unwritten, Gone}
  BY Paths, LiveLabel, LifePlaces
<1> HIDE DEF path
<1>3. says' = says /\ base' = base
  BY <1>1, StillSays, SameBase
<1>4. \A x \in Path : x[3] # Live => Contents(x)' = Contents(x)
  BY <1>1, <1>2, LifePlaces, StepKnows DEF Contents, DirTypeOK
<1>5. \A x \in Path : owns'[x] = owns[x]
  <2>1. CASE \E p \in Procs : At(p, "movedir")
    BY <1>1, <1>3, <2>1 DEF Step, Mapped, MapOwner, At
  <2>2. CASE xp.pc = "movedir"
    <3>1. xp.job \in Job
      BY <2>2 DEF Step, TypeOK, ExpirerTypeOK
    <3>2. xp.job.key[1] \in Ids /\ xp.job.ts \in Time
      BY <3>1 DEF Job, Key
    <3> DEFINE removed == <<xp.job.ent.space, xp.job.key[1], xp.job.ts>>
    <3>3. xp.job.ent.space \in Spaces
      BY <3>1 DEF Job, Entry
    <3>4. removed \in Path /\ removed[3] # Live
      BY <3>2, <3>3, Paths, LiveLabel, LiveIsNoTime
    <3>5. Contents(removed)' = Contents(removed) /\ UNCHANGED dirs
      <4> HIDE DEF removed
      <4>1. removed' = removed
        BY DEF removed
      <4> QED
        BY <1>1, <1>4, <3>4, <4>1
    <3>6. \A x \in Path : CanRename(x, removed)' <=> CanRename(x, removed)
      BY <3>5 DEF CanRename
    <3>7. ASSUME NEW x \in Path PROVE owns'[x] = owns[x]
      <4>1. owns[x] = IF x = <<xp.job.ent.space, xp.job.key[1], Live>> /\ CanRename(x, removed)
                      THEN <<xp.job.key[1], xp.job.ts>> ELSE base[x]
        BY <2>2 DEF Step, Mapped, MapOwner
      <4>2. owns'[x] = IF x = <<xp.job.ent.space, xp.job.key[1], Live>> /\ CanRename(x, removed)'
                       THEN <<xp.job.key[1], xp.job.ts>> ELSE base'[x]
        BY <2>2 DEF Step, Mapped, MapOwner
      <4> HIDE DEF removed
      <4> QED
        BY <1>3, <3>6, <4>1, <4>2
    <3> QED
      BY <3>7
  <2>3. CASE xp.pc # "movedir" /\ ~(\E p \in Procs : At(p, "movedir"))
    BY <1>1, <1>3, <2>3 DEF Step, Mapped, MapOwner, At
  <2> QED
    BY <2>1, <2>2, <2>3
<1>6. \A c \in Data : lifePlace'[c] = IF c = d THEN owns[path] ELSE lifePlace[c]
  <2> SUFFICES ASSUME NEW c \in Data
               PROVE  lifePlace'[c] = IF c = d THEN owns[path] ELSE lifePlace[c]
    OBVIOUS
  <2>1. where'[c] = IF c = d THEN path ELSE where[c]
    BY <1>1, StepKnows DEF DirTypeOK
  <2> QED
    BY <1>2, <1>5, <2>1, PlaceKnows
<1>7. Life!Moved({d}, owns[path])
  <2>1. \A c \in Data : lifePlace'[c] = IF c \in {d} THEN owns[path] ELSE lifePlace[c]
    BY <1>6
  <2> QED
    BY <2>1, MovedWhen
<1>8. lifePlace[d] = Unwritten
  BY <1>1, PlaceKnows, LifePlaces
<1>9. /\ owns[path] \in Ids \cup (Ids \X Time) \cup {Stray}
      /\ owns[path] \in Ids => lifeLive[owns[path]] # None
      /\ owns[path] \in Ids \X Time => lifeKept[owns[path]] # None
  BY <1>2, OwnedKnows, StepKnows
<1>10. Life!Write(d)
  BY <1>1, <1>3, <1>7, <1>8, <1>9, SameSays, StillWaived, LifeNames DEF Life!Write
<1> QED
  BY <1>10 DEF LifeStep, Life!Next

LEMMA OutsideLives ==
    ASSUME Step, ClockTicks \/ JobStep \/ RunStarts PROVE LifeStep
<1>1. CASE ClockTicks
  <2>1. UNCHANGED <<entry, open, dirs, where, tool, xp, faults>> /\ now' = now + 1
    BY <1>1 DEF ClockTicks, Tick, toolVars
  <2>2. says' = says /\ UNCHANGED <<lifeWaived, unmarked>>
    BY <2>1, StillSays, StillWaived
  <2>3. base' = base
    BY <2>2, SameBase
  <2>4. \A x, y : CanRename(x, y)' <=> CanRename(x, y)
    BY <2>1 DEF CanRename, Contents
  <2>5. \A x \in Path : owns'[x] = owns[x]
    <3>1. CASE \E p \in Procs : At(p, "movedir")
      BY <2>1, <2>3, <3>1 DEF Step, Mapped, MapOwner, At
    <3>2. CASE xp.pc = "movedir"
      BY <2>1, <2>3, <2>4, <3>2 DEF Step, Mapped, MapOwner
    <3>3. CASE xp.pc # "movedir" /\ ~(\E p \in Procs : At(p, "movedir"))
      BY <2>1, <2>3, <3>3 DEF Step, Mapped, MapOwner, At
    <3> QED
      BY <3>1, <3>2, <3>3
  <2>6. UNCHANGED lifePlace
    BY <2>1, <2>5, SameOwners
  <2>7. Life!Tick
    BY <2>1, <2>2, <2>6, SameSays DEF Life!Tick
  <2> QED
    BY <2>7 DEF LifeStep, Life!Next
<1>2. CASE JobStep
  BY <1>2, JobLives DEF JobStep
<1>3. CASE RunStarts
  <2>1. /\ UNCHANGED <<now, entry, open, where, tool, faults>>
        /\ xp.pc = "idle" /\ xp'.pc = "scan"
    BY <1>3 DEF RunStarts, StartRun, Resting, storeVars, toolVars
  <2>2. says' = says /\ UNCHANGED <<lifeWaived, unmarked>>
    BY <2>1, StillSays, StillWaived
  <2>3. base' = base
    BY <2>2, SameBase
  <2>4. \A x \in Path : owns'[x] = owns[x]
    <3>1. CASE \E p \in Procs : At(p, "movedir")
      BY <2>1, <2>3, <3>1 DEF Step, Mapped, MapOwner, At
    <3>2. CASE ~(\E p \in Procs : At(p, "movedir"))
      BY <2>1, <2>3, <3>2 DEF Step, Mapped, MapOwner, At
    <3> QED
      BY <3>1, <3>2
  <2>5. UNCHANGED lifePlace
    BY <2>1, <2>4, SameOwners
  <2> QED
    BY <2>1, <2>2, <2>5, SameSays, Stutters
<1> QED
  BY <1>1, <1>2, <1>3
-----------------------------------------------------------------------------
(* The implementation                                                      *)

\* A tool that removes an entry for good has been asked to.
WaivedFollows == \A p \in Procs : At(p, "forget") => <<tool[p].id, tool[p].ts>> \in waived

LEMMA ForgetFollowsWipe ==
    ASSUME Turn, NEW p \in Procs, Launch(p) \/ Proceed(p) \/ Fails(p), tool'[p].pc = "forget"
    PROVE  tool[p].pc = "wipe" /\ tool'[p].id = tool[p].id /\ tool'[p].ts = tool[p].ts
<1>0. tool \in [Procs -> Process] /\ tool[p] \in Process
  BY TurnKnows
<1>1. ~Exit(p)
  BY <1>0 DEF Exit, Become, Idle
<1>2. ~Launch(p)
  BY LaunchEnters
<1>a. DOMAIN tool[p] = {"pc", "op", "id", "ent", "ts", "to"}
  BY <1>0 DEF Process
<1>3. ASSUME NEW s \in Spaces, MakeDir(p, s) PROVE FALSE
  <2>1. Become(p, [tool[p] EXCEPT !.pc = "create",
                      !.ent = [space |-> s, exp |-> 0, ext |-> MaxExt, rel |-> Live]])
    BY <1>3 DEF MakeDir
  <2> QED
    BY <1>0, <1>a, <2>1 DEF Become
<1>4. ASSUME NEW duration \in Durations, CreateEntry(p, duration) \/ UseExtension(p, duration)
      PROVE  FALSE
  <2>1. CASE CreateEntry(p, duration)
    <3>1. Become(p, [tool[p] EXCEPT !.pc = "write", !.ent.exp = now + duration])
      BY <2>1 DEF CreateEntry
    <3> QED
      BY <1>0, <1>a, <3>1 DEF Become
  <2>2. CASE UseExtension(p, duration)
    <3>1. Become(p, [tool[p] EXCEPT !.pc = "write",
                        !.ent.exp = Prolonged(tool[p].ent, duration),
                        !.ent.ext = tool[p].ent.ext - Cost(tool[p].ent, duration)])
      BY <1>1, <2>2 DEF UseExtension
    <3> QED
      BY <1>0, <1>a, <3>1 DEF Become
  <2> QED
    BY <1>4, <2>1, <2>2
<1>5. ~MarkReleased(p) /\ ~ReadSource(p)
  <2>1. ASSUME MarkReleased(p) PROVE FALSE
    BY <1>0, <1>a, <2>1 DEF MarkReleased, Become
  <2>2. ASSUME ReadSource(p) PROVE FALSE
    BY <1>1, <1>0, <1>a, <2>2 DEF ReadSource, Become
  <2> QED
    BY <2>1, <2>2
<1>6. ~FinishWrite(p) /\ ~RetireEntry(p) /\ ~RetireDir(p) /\ ~Refill(p) /\ ~ReviveEntry(p)
  <2>1. /\ ~Goto(p, "retire") /\ ~Goto(p, "movedir") /\ ~Goto(p, "wipe")
        /\ ~Goto(p, "unlink") /\ ~Goto(p, "putback")
    BY <1>0, <1>a DEF Goto, Become
  <2> QED
    BY <1>1, <2>1 DEF FinishWrite, RetireEntry, RetireDir, Refill, ReviveEntry
<1>7. ~ForgetEntry(p) /\ ~UnlinkSource(p) /\ ~PutBack(p) /\ ~Fails(p)
  <2>1. ~ForgetEntry(p) /\ ~UnlinkSource(p) /\ ~PutBack(p) /\ ~Crash(p)
    BY <1>1 DEF ForgetEntry, UnlinkSource, PutBack, Crash
  <2>2. ~Goto(p, "write")
    BY <1>0, <1>a DEF Goto, Become
  <2>3. ~WriteFails(p)
    BY DEF WriteFails, At
  <2> QED
    BY <2>1, <2>2, <2>3 DEF Fails, OpenFails
<1>8. PICK rest \in SUBSET Data : WipeData(p, rest)
  BY <1>2, <1>3, <1>4, <1>5, <1>6, <1>7 DEF Proceed
<1>9. tool[p].pc = "wipe"
  BY <1>8 DEF WipeData, At
<1>10. tool' = tool \/ Goto(p, "forget")
  BY <1>8 DEF WipeData
<1> QED
  BY <1>0, <1>9, <1>10 DEF Goto, Become, Process

LEMMA ProceedLives ==
    ASSUME Step, Turn, NEW p \in Procs, Proceed(p), WaivedFollows PROVE LifeStep
<1>1. CASE ForgetEntry(p)
  <2>1. <<tool[p].id, tool[p].ts>> \in waived
    BY <1>1 DEF ForgetEntry, WaivedFollows
  <2> QED
    BY <1>1, <2>1, ForgetEntryLives
<1> QED
  BY <1>1, ReadingLives, CreateEntryLives, UseExtensionLives, MarkReleasedLives,
     FinishWriteLives, RetireEntryLives, RetireDirLives, WipeDataLives, RefillLives,
     UnlinkSourceLives, ReviveEntryLives, PutBackLives
  DEF Proceed

\* Who takes a step of the system.
LEMMA StepOf ==
    ASSUME OneAtATime, TypeOK, RunInv, Follows, Next
    PROVE  \/ ClockTicks \/ JobStep \/ RunStarts
           \/ Turn /\ \E p \in Procs : Launch(p) \/ Proceed(p) \/ Fails(p)
           \/ Round /\ UNCHANGED faults /\ ContinueRun
           \/ Round /\ RunCrashes
<1>0. Observe
  BY DEF Next
<1>1. ASSUME NEW p \in Procs, UNCHANGED xp,
             (~Running /\ Launch(p)) \/ Proceed(p) \/ Fails(p)
      PROVE  Turn
  <2>1. UNCHANGED now
    BY <1>1, TurnTime
  <2>2. ~Running \/ tool[p].pc # "idle"
    BY <1>1, TurnBusy
  <2>3. ~Running
    BY <2>2 DEF Follows, ExpirerFollows, ToolsIdle, At
  <2> QED
    BY <1>0, <1>1, <2>1, <2>3 DEF Turn
<1>2. CASE RunStep
  <2>1. Running /\ UNCHANGED <<tool, now, faults>>
    BY <1>2, RunStepRuns DEF RunStep, toolVars
  <2>2. ContinueRun /\ UNCHANGED faults /\ UNCHANGED <<tool, now>>
    BY <1>2, <2>1 DEF RunStep
  <2> QED
    BY <1>0, <2>1, <2>2, Zenon DEF Round
<1>3. CASE RunCrashes
  BY <1>0, <1>3 DEF RunCrashes, Round, storeVars
<1> QED
  BY <1>1, <1>2, <1>3 DEF Next, ToolStarts, ToolStep, ToolCrashes, DiskFails, Fails, OneAtATime

LEMMA WaivedKept ==
    ASSUME OneAtATime, TypeOK, RunInv, Follows, WaivedFollows, Next PROVE WaivedFollows'
<1>1. waived' = waived \cup {k \in Key : \E p \in Procs :
                                 At(p, "wipe") /\ k = <<tool[p].id, tool[p].ts>>}
  BY DEF Next, Observe
<1>2. CASE UNCHANGED tool
  BY <1>1, <1>2 DEF WaivedFollows, At
<1>3. ASSUME Turn, NEW p \in Procs, Launch(p) \/ Proceed(p) \/ Fails(p)
      PROVE  WaivedFollows'
  <2> SUFFICES ASSUME tool'[p].pc = "forget"
               PROVE  <<tool'[p].id, tool'[p].ts>> \in waived'
    BY <1>3, TurnKnows DEF WaivedFollows, At
  <2>1. tool[p].pc = "wipe" /\ tool'[p].id = tool[p].id /\ tool'[p].ts = tool[p].ts
    BY <1>3, ForgetFollowsWipe
  <2>2. <<tool[p].id, tool[p].ts>> \in Key
    BY <1>3, <2>1, TurnNames
  <2> QED
    BY <1>1, <2>1, <2>2 DEF At
<1> QED
  BY <1>2, <1>3, StepOf
  DEF ClockTicks, JobStep, JobWrites, RunStarts, Round, toolVars

\* What holds of every state.
Good == TypeOK /\ RunInv /\ Follows /\ WaivedFollows

LEMMA NextLives ==
    ASSUME OneAtATime, Good, Good', Next PROVE LifeStep
<1>1. Mapped
  BY LifeMapped DEF Good
<1>2. Mapped'
  <2>1. OneAtATime'
    BY DEF OneAtATime
  <2>2. (OneAtATime /\ TypeOK /\ Follows) => Mapped
    BY LifeMapped
  <2>3. (OneAtATime /\ TypeOK /\ Follows)' => Mapped'
    BY LifeMapped, PTL
  <2> QED
    BY <2>1, <2>3 DEF Good
<1>3. Step
  BY <1>1, <1>2 DEF Step, Good, Next
<1>4. TypeOK /\ RunInv /\ Follows /\ WaivedFollows
  BY DEF Good
<1> QED
  BY <1>3, <1>4, StepOf, OutsideLives, LaunchLives, ProceedLives, CrashLives, OpenFailsLives,
     WriteFailsLives, ContinueRunLives, RunCrashesLives
  DEF Fails

LEMMA VarsStutter ==
    ASSUME OneAtATime, Good, Good', UNCHANGED vars PROVE UNCHANGED Life!vars
<1>1. UNCHANGED <<now, entry, open, dirs, where, tool, faults, xp, waived, unmarked>>
  BY DEF vars, storeVars, toolVars, histVars
<1>2. Mapped /\ Mapped'
  <2>1. Mapped
    BY LifeMapped DEF Good
  <2>2. OneAtATime'
    BY DEF OneAtATime
  <2>3. (OneAtATime /\ TypeOK /\ Follows)' => Mapped'
    BY LifeMapped, PTL
  <2> QED
    BY <2>1, <2>2, <2>3 DEF Good
<1>3. says' = says
  BY <1>1, StillSays
<1>4. base' = base
  BY <1>3, SameBase
<1>5. \A x, y : CanRename(x, y)' <=> CanRename(x, y)
  BY <1>1 DEF CanRename, Contents
<1>6. \A x \in Path : owns'[x] = owns[x]
  <2>1. CASE \E p \in Procs : At(p, "movedir")
    BY <1>1, <1>2, <1>4, <2>1 DEF Mapped, MapOwner, At
  <2>2. CASE xp.pc = "movedir"
    BY <1>1, <1>2, <1>4, <1>5, <2>2 DEF Mapped, MapOwner
  <2>3. CASE xp.pc # "movedir" /\ ~(\E p \in Procs : At(p, "movedir"))
    BY <1>1, <1>2, <1>4, <2>3 DEF Mapped, MapOwner, At
  <2> QED
    BY <2>1, <2>2, <2>3
<1>7. owns' = owns
  BY <1>2, <1>6 DEF Mapped, MapOwner
<1>8. UNCHANGED <<lifeLive, lifeKept, lifePlace>>
  BY <1>1, <1>2, <1>3, <1>7 DEF Mapped, MapLife
<1>9. UNCHANGED lifeWaived
  BY <1>1 DEF lifeWaived, At
<1> QED
  BY <1>1, <1>8, <1>9 DEF Life!vars

LEMMA LifeBegins == ASSUME OneAtATime, Init, Good PROVE Life!Init
<1>1. /\ now = 1 /\ entry = [k \in Key |-> None] /\ where = [d \in Data |-> Unwritten]
      /\ faults = 0 /\ waived = {} /\ unmarked = {}
      /\ \A p \in Procs : tool[p].pc = "idle"
  BY DEF Init, StoreInit, ToolInit, Idle
<1>2. Mapped
  BY LifeMapped DEF Good
<1>3. says = plain
  BY <1>1, <1>2 DEF Mapped, MapContent
<1>4. \A k \in Key : says[k] = None
  BY <1>1, <1>3, StoreAssumption DEF plain
<1>5. Sight(None) = None
  BY LifeNames
<1>6. lifeLive = [i \in Ids |-> None]
  BY <1>2, <1>4, <1>5, KeyInKey, LiveLabel DEF Mapped, MapLife
<1>7. lifeKept = [k \in Ids \X Time |-> None]
  BY <1>2, <1>4, <1>5, LifeNames DEF Mapped, MapLife
<1>8. lifePlace = [d \in Data |-> Unwritten]
  BY <1>1, <1>2 DEF Mapped, MapLife
<1>9. lifeWaived = {}
  BY <1>1 DEF lifeWaived, At
<1> QED
  BY <1>1, <1>6, <1>7, <1>8, <1>9, LifeNames DEF Life!Init

\* Wherever one process runs at a time and the expirer between the tools, the
\* users see nothing but the steps of WsLife, whatever they start, whatever is
\* killed and whichever entry cannot be written.  The run "life" shows it on a
\* small instance.
THEOREM LifeIsImplemented == ASSUME OneAtATime PROVE Spec => LifeImplemented
<1>1. Init => WaivedFollows
  BY DEF Init, ToolInit, Idle, WaivedFollows, At
<1>2. ASSUME IInv, Follows, WaivedFollows, [Next]_vars PROVE WaivedFollows'
  <2>1. CASE Next
    BY <1>2, <2>1, WaivedKept DEF IInv
  <2>2. CASE UNCHANGED vars
    BY <1>2, <2>2 DEF vars, toolVars, histVars, WaivedFollows, At
  <2> QED
    BY <1>2, <2>1, <2>2
<1>3. Spec => [](IInv /\ Follows)
  BY Inductive, FollowsInductive, PTL
<1>4. IInv /\ Follows /\ WaivedFollows /\ [Next]_vars => WaivedFollows'
  BY <1>2
<1>5. IInv /\ Follows /\ WaivedFollows <=> Good
  BY DEF Good, IInv
<1>6. Spec => []Good
  BY <1>1, <1>3, <1>4, <1>5, PTL DEF Spec
<1>7. Init /\ Good => Life!Init
  BY LifeBegins
<1>8. Good /\ Good' /\ [Next]_vars => [Life!Next]_(Life!vars)
  BY NextLives, VarsStutter DEF LifeStep
<1> QED
  BY <1>6, <1>7, <1>8, PTL DEF Spec, Life!Spec, LifeImplemented
=============================================================================
