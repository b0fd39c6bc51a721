------------------------------- MODULE WsLife -------------------------------
(***************************************************************************)
(* What the tools and the expirer promise the users of one location, with  *)
(* every operation in one step and without files: a workspace is live      *)
(* until it is released or has expired, its data are then kept under the   *)
(* name and the time of its removal until the keeptime, or the grace of a  *)
(* release, is over, or their user asks for the deletion.  Only data that  *)
(* are part of no workspace are deleted without being asked.  They become  *)
(* that in three other ways: a kill or a failed write, two removals of a   *)
(* name at one time, and data that are in the way of others.               *)
(* WsRefinement shows that the tools implement this at a quiet site.       *)
(***************************************************************************)
EXTENDS Naturals

CONSTANTS Ids, Data, MaxTime, MaxExt, KeepTime, Grace, None, Unwritten, Gone,
    Stray,  \* the place of data that are in a directory which is no workspace
    Broken  \* a workspace whose entry was damaged

Time == 1 .. MaxTime
Kept == Ids \X Time     \* a removed workspace: its name and the time of the removal

\* released is the time of the release, or 0.
Workspace == [exp : Nat, ext : 0 .. MaxExt, released : 0 .. MaxTime]

VARIABLES
    now,
    live,   \* [Ids -> Workspace \cup {None, Broken}]
    kept,   \* [Kept -> Workspace \cup {None, Broken}]
    place,  \* [Data -> Ids \cup Kept \cup {Unwritten, Stray, Gone}]: what a datum
            \* is part of
    waived, \* SUBSET Kept: the user has asked for the deletion
    unmarked, \* SUBSET Kept: the releases that could not be written down
    faults  \* the number of processes killed and writes failed

vars == <<now, live, kept, place, waived, unmarked, faults>>

Init ==
    /\ now = 1
    /\ live = [i \in Ids |-> None]
    /\ kept = [k \in Kept |-> None]
    /\ place = [d \in Data |-> Unwritten]
    /\ waived = {} /\ unmarked = {}
    /\ faults = 0

In(x) == {d \in Data : place[d] = x}

\* The data in D move on to the place x, all others stay.
Moved(D, x) == place' = [d \in Data |-> IF d \in D THEN x ELSE place[d]]

\* Data that strayed are found in the directory at x.
Found(x) == \E D \in SUBSET In(Stray) : Moved(D, x)

\* Only the workspace i changes, and it is w afterwards, or some workspace.
Becomes(i, w) == live' = [live EXCEPT ![i] = w]
Rewritten(i)  == live'[i] \in Workspace /\ Becomes(i, live'[i])

-----------------------------------------------------------------------------
\* A new workspace has all its extensions, and what was left in its directory.
Create(i) ==
    /\ live[i] = None
    /\ Rewritten(i)
    /\ live'[i].exp >= now /\ live'[i].ext = MaxExt /\ live'[i].released = 0
    /\ Found(i)
    /\ UNCHANGED <<now, kept, waived, unmarked, faults>>

\* A longer life costs an extension, a shorter one does not.
Prolong(i) ==
    /\ live[i] \in Workspace
    /\ Rewritten(i)
    /\ live'[i].released = 0
    /\ live'[i].ext = IF live'[i].exp > live[i].exp THEN live[i].ext - 1 ELSE live[i].ext
    /\ UNCHANGED <<now, kept, place, waived, unmarked, faults>>

\* ws_release ends the life of the workspace ...
Mark(i) ==
    /\ live[i] \in Workspace
    /\ Becomes(i, [exp |-> now, ext |-> live[i].ext, released |-> now])
    /\ UNCHANGED <<now, kept, place, waived, unmarked, faults>>

\* ... and like the expirer removes what has ended.  When a workspace was removed
\* under that name before, its data in D lose their entry, and what is in the
\* removed directory, of that workspace or of none, can be in the way of the
\* data of this one.
Remove(i, t) ==
    LET k == <<i, t>>
    IN  /\ live[i] \in Workspace
        /\ live[i].released # 0 \/ now > live[i].exp \/ k \in unmarked
        /\ t <= now
        /\ Becomes(i, None)
        /\ kept' = [kept EXCEPT ![k] = live[i]]
        /\ \E D \in SUBSET In(k), found \in SUBSET In(Stray), stays \in BOOLEAN :
              /\ D # {} => kept[k] # None
              /\ stays => (In(k) \ D) \cup found # {}
              /\ place' = [d \in Data |->
                              CASE d \in found -> k
                                [] d \in D     -> Stray
                                [] d \in In(i) -> IF stays THEN Stray ELSE k
                                [] OTHER       -> place[d]]
        /\ UNCHANGED <<now, waived, unmarked, faults>>

\* ws_release also removes the damaged entry that its failed write has left.
RemoveBroken(i, t) ==
    /\ live[i] = Broken
    /\ t <= now
    /\ Becomes(i, None)
    /\ kept' = [kept EXCEPT ![<<i, t>>] = Broken]
    /\ Moved(In(<<i, t>>), Stray)
    /\ UNCHANGED <<now, waived, unmarked, faults>>

\* ws_restore moves the data into a live workspace ...
Refill(k, i) ==
    /\ kept[k] # None /\ live[i] \in Workspace
    /\ Moved(In(k), i)
    /\ UNCHANGED <<now, live, kept, waived, unmarked, faults>>

\* ... and removes the entry, which has no data any more.
Forget(k) ==
    /\ kept[k] # None
    /\ In(k) = {}
    /\ kept' = [kept EXCEPT ![k] = None]
    /\ UNCHANGED <<now, live, place, waived, unmarked, faults>>

\* The removed workspace is live again, as it was, and has the data in D.
Revived(i, t, D) ==
    /\ live[i] = None /\ kept[<<i, t>>] \in Workspace
    /\ Becomes(i, kept[<<i, t>>])
    /\ kept' = [kept EXCEPT ![<<i, t>>] = None]
    /\ place' = [d \in Data |-> IF d \in D THEN i
                               ELSE IF d \in In(<<i, t>>) THEN Stray ELSE place[d]]

\* The administrator makes a removed workspace live again; when there are
\* data in the place of its directory, it has these and not its own.
Revive(i, t) ==
    /\ \/ Revived(i, t, In(<<i, t>>))
       \/ \E found \in SUBSET In(Stray) :
             /\ found = {} => In(<<i, t>>) = {}
             /\ Revived(i, t, found)
    /\ UNCHANGED <<now, waived, unmarked, faults>>

\* ws_release --delete-data: the user gives up what he has released ...
Waive(k) ==
    /\ kept[k] # None
    /\ kept[k] \in Workspace => kept[k].released # 0 \/ k \in unmarked
    /\ waived' = waived \cup {k}
    /\ UNCHANGED <<now, live, kept, place, unmarked, faults>>

\* ... which is deleted, first some of the data ...
Discard(k, D) ==
    /\ k \in waived
    /\ D \subseteq In(k)
    /\ Moved(D, Gone)
    /\ UNCHANGED <<now, live, kept, waived, unmarked, faults>>

\* ... and then the entry.
Drop(k) ==
    /\ k \in waived /\ kept[k] # None
    /\ kept' = [kept EXCEPT ![k] = None]
    /\ Moved(In(k), Stray)
    /\ UNCHANGED <<now, live, waived, unmarked, faults>>

Due(k) == \/ now > k[2] + KeepTime
          \/ kept[k].released # 0 /\ now > kept[k].released + Grace

\* The expirer gives up what was kept long enough ...
Purge(k) ==
    /\ kept[k] \in Workspace
    /\ Due(k)
    /\ kept' = [kept EXCEPT ![k] = None]
    /\ Moved(In(k), Stray)
    /\ UNCHANGED <<now, live, waived, unmarked, faults>>

\* ... and deletes what is part of no workspace.
Delete(D) ==
    /\ D \subseteq In(Stray)
    /\ Moved(D, Gone)
    /\ UNCHANGED <<now, live, kept, waived, unmarked, faults>>

\* A job writes into a workspace, a removed one it still works in, or a
\* directory that is no workspace.
Write(d) ==
    /\ place[d] = Unwritten
    /\ \E x \in Ids \cup Kept \cup {Stray} :
          /\ x \in Ids => live[x] # None
          /\ x \in Kept => kept[x] # None
          /\ Moved({d}, x)
    /\ UNCHANGED <<now, live, kept, waived, unmarked, faults>>

\* A directory that was left over gets the removed name of its workspace.
Recover(k) ==
    /\ kept[k] # None
    /\ Found(k)
    /\ UNCHANGED <<now, live, kept, waived, unmarked, faults>>

\* A killed process or a failed write damages the workspace at work, and no
\* other: its entry and the data with it, or removed data, or it is live without
\* its data, or its release at time t is not written down.
Fault(i) ==
    /\ faults' = faults + 1
    /\ \/ /\ Becomes(i, Broken) /\ Moved(In(i), Stray)
          /\ UNCHANGED <<kept, unmarked>>
       \/ /\ \E t \in Time : \E D \in SUBSET In(<<i, t>>) : Moved(D, Stray)
          /\ UNCHANGED <<live, kept, unmarked>>
       \/ /\ \E t \in Time, found \in SUBSET In(Stray) : Revived(i, t, found)
          /\ UNCHANGED unmarked
       \/ /\ live[i] \in Workspace
          /\ \E t \in Time : unmarked' = unmarked \cup {<<i, t>>}
          /\ UNCHANGED <<live, kept, place>>
    /\ UNCHANGED <<now, waived>>

Tick ==
    /\ now' = now + 1
    /\ UNCHANGED <<live, kept, place, waived, unmarked, faults>>

Next ==
    \/ Tick
    \/ \E i \in Ids :
          \/ Create(i)
          \/ Prolong(i)
          \/ Mark(i)
          \/ \E t \in Time : Remove(i, t) \/ RemoveBroken(i, t) \/ Revive(i, t)
          \/ \E k \in Kept : Refill(k, i)
          \/ Fault(i)
    \/ \E k \in Kept :
          \/ Forget(k)
          \/ Waive(k)
          \/ \E D \in SUBSET Data : Discard(k, D)
          \/ Drop(k)
          \/ Purge(k)
          \/ Recover(k)
    \/ \E D \in SUBSET Data : Delete(D)
    \/ \E d \in Data : Write(d)

Spec == Init /\ [][Next]_vars
=============================================================================
