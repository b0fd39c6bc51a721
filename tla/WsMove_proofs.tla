--------------------------- MODULE WsMove_proofs ---------------------------
(***************************************************************************)
(* Proofs about WsMove, for any set of files and any number of calls: no   *)
(* file is lost as long as ws_restore is not told that a mv succeeded that *)
(* did not, and ws_restore is never told so if fork, exec and the child's  *)
(* life are safe, whatever mv itself runs into.                            *)
(***************************************************************************)
EXTENDS WsMove, TLAPS

Out     == [op : {"release", "expire"}, from : {"live"}, to : {"removed"}]
Back    == [op : {"restore"}, from : {"removed"}, to : {"target"}]
Working == pc["tool"] # "none"

\* A command moves a live directory away or a removed one back.
JobShape == Working => job \in Out \cup Back

\* Before the first command everything is in its place.
Untouched == entry = "live" => ~Working /\ dirs = {"live"}

\* Once there is no entry, nothing is left under the removed name.
EntryGone == entry = "none" /\ ~purged /\ ~lied => ~Working /\ at["removed"] = {}

PurgedIsGone == purged => entry = "none"

\* mv removes what it has copied.
Copies == pc["child"] = "remove" /\ ~purged /\ ~lied => at[job.from] \subseteq at[job.to]

\* What ws_restore takes for a success is one, or it was lied to.
Truth ==
    job \in Back /\ ~lied =>
        /\ pc["child"] # "finish"
        /\ pc["tool"] = "finish" /\ ret = 0 => at["removed"] = {}

MoveInv ==
    /\ MoveTypeOK /\ JobShape /\ Untouched /\ EntryGone /\ PurgedIsGone /\ Copies /\ Truth
    /\ NothingLost

-----------------------------------------------------------------------------
LEMMA AllPlaces ==
    UNION {at[x] : x \in Place} = at["live"] \cup at["removed"] \cup at["target"]
BY DEF Place

LEMMA MoveInit == Init => MoveInv
<1> SUFFICES ASSUME Init PROVE MoveInv
  OBVIOUS
<1>1. NothingLost
  BY AllPlaces DEF Init, NothingLost, Place
<1> QED
  BY <1>1 DEF Init, MoveInv, MoveTypeOK, JobShape, Untouched, EntryGone, PurgedIsGone, Copies,
              Truth, Working, Place, Proc, Pc

\* The types alone, action by action.
LEMMA MoveTypeStep ==
    ASSUME MoveTypeOK, JobShape, [Next]_vars
    PROVE  MoveTypeOK'
<1> USE DEF MoveTypeOK, Place, Proc, Pc
<1>1. ASSUME NEW op \in {"release", "expire"}, Retire(op) PROVE MoveTypeOK'
  BY <1>1 DEF Retire, Begin, Goto, AtRest, Moves
<1>2. CASE Restore
  BY <1>2 DEF Restore, Begin, Goto, AtRest, Moves
<1>3. CASE RenameDir
  BY <1>3 DEF RenameDir, Goto
<1>4. CASE Fork
  BY <1>4 DEF Fork, Goto, Misleading
<1>5. CASE Exec
  <2>1. job.from \in Place /\ job.to \in Place
    BY <1>5 DEF Exec, JobShape, Working, Out, Back
  <2> QED BY <1>5, <2>1 DEF Exec, ChildEnds, Goto
<1>6. CASE ExecFails
  BY <1>6 DEF ExecFails, Goto, Misleading
<1>7. ASSUME NEW d \in Data, Copy(d) PROVE MoveTypeOK'
  BY <1>7 DEF Copy
<1>8. ASSUME NEW d \in Data, Remove(d) PROVE MoveTypeOK'
  BY <1>8 DEF Remove
<1>9. CASE Copied
  BY <1>9 DEF Copied, ChildEnds, Goto
<1>10. CASE Removed
  BY <1>10 DEF Removed, ChildEnds
<1>11. CASE MvFails \/ MvKilled
  BY <1>11 DEF MvFails, MvKilled, ChildEnds
<1>12. ASSUME NEW p \in Proc, Finish(p) PROVE MoveTypeOK'
  BY <1>12 DEF Finish
<1>13. CASE StrayRemoved \/ Purge
  BY <1>13 DEF StrayRemoved, Purge
<1>14. CASE Stray \/ UNCHANGED vars
  BY <1>14 DEF Stray, vars
<1> QED
  BY <1>1, <1>2, <1>3, <1>4, <1>5, <1>6, <1>7, <1>8, <1>9, <1>10, <1>11, <1>12, <1>13, <1>14
  DEF Next

LEMMA MoveStep ==
    ASSUME MoveInv, [Next]_vars
    PROVE  MoveInv'
<1> USE DEF MoveInv
<1>1. MoveTypeOK'
  BY MoveTypeStep
<1> DEFINE Rest == JobShape /\ Untouched /\ EntryGone /\ PurgedIsGone /\ Copies /\ Truth
                   /\ NothingLost
<1> USE DEF JobShape, Untouched, EntryGone, PurgedIsGone, Copies, Truth, Working,
            NothingLost, MoveTypeOK, Place, Proc
<1>2. ASSUME NEW op \in {"release", "expire"}, Retire(op) PROVE Rest'
  BY <1>2 DEF Retire, Begin, Goto, AtRest, Out, Back
<1>3. CASE Restore
  BY <1>1, <1>3 DEF Restore, Begin, Goto, AtRest, Out, Back
<1>4. CASE RenameDir
  BY <1>1, <1>4 DEF RenameDir, Goto
<1>5. CASE Fork
  <2>1. CASE pc' = [tool |-> "wait", child |-> "exec"] /\ UNCHANGED <<ret, lied>>
    <3>1. UNCHANGED <<at, dirs, entry, job, said, purged>>
      BY <1>5 DEF Fork
    <3> QED BY <1>1, <1>5, <2>1, <3>1 DEF Fork, Back
  <2>2. CASE Misleading /\ Goto("tool", "finish")
    <3>1. ~lied' => ~lied /\ job.op # "restore"
      BY <2>2 DEF Misleading
    <3>2. UNCHANGED <<at, dirs, entry, job, said, purged>> /\ pc["tool"] = "fork"
          /\ pc' = [pc EXCEPT !["tool"] = "finish"]
      BY <1>5, <2>2 DEF Fork, Goto
    <3> QED BY <1>1, <3>1, <3>2 DEF Back
  <2> QED BY <1>5, <2>1, <2>2 DEF Fork
<1>6. CASE Exec
  BY <1>1, <1>6 DEF Exec, ChildEnds, Goto
<1>7. CASE ExecFails
  <2>1. ~lied' => ~lied /\ job.op # "restore"
    BY <1>7 DEF ExecFails, Misleading
  <2>2. UNCHANGED <<at, dirs, entry, job, said, purged>> /\ pc["child"] = "exec"
        /\ pc' = [pc EXCEPT !["child"] = "finish"]
    BY <1>7 DEF ExecFails, Goto
  <2> QED BY <1>1, <2>1, <2>2 DEF Back
<1>8. ASSUME NEW d \in Data, Copy(d) PROVE Rest'
  BY <1>8, AllPlaces, AllPlaces' DEF Copy, Out, Back
<1>9. ASSUME NEW d \in Data, Remove(d) PROVE Rest'
  BY <1>9, AllPlaces, AllPlaces' DEF Remove, Out, Back
<1>10. CASE Copied
  BY <1>1, <1>10 DEF Copied, ChildEnds, Goto
<1>11. CASE Removed
  BY <1>1, <1>11 DEF Removed, ChildEnds, Back
<1>12. CASE MvFails
  BY <1>1, <1>12 DEF MvFails, ChildEnds, Back
<1>13. CASE MvKilled
  <2>1. ~lied' => ~lied /\ job.op # "restore"
    BY <1>13 DEF MvKilled
  <2> QED BY <1>1, <1>13, <2>1 DEF MvKilled, ChildEnds, Back
<1>14. ASSUME NEW p \in Proc, Finish(p) PROVE Rest'
  BY <1>14 DEF Finish, Out, Back
<1>15. CASE StrayRemoved
  BY <1>15, AllPlaces, AllPlaces' DEF StrayRemoved
<1>16. CASE Purge
  BY <1>16 DEF Purge
<1>17. CASE Stray \/ UNCHANGED vars
  BY <1>17 DEF Stray, vars
<1> QED
  BY <1>1, <1>2, <1>3, <1>4, <1>5, <1>6, <1>7, <1>8, <1>9, <1>10, <1>11, <1>12, <1>14, <1>15,
     <1>16, <1>17, <1>13 DEF Next

-----------------------------------------------------------------------------
\* The variables keep their types, and a child runs only while its tool waits.
THEOREM MoveTyped == Spec => []MoveTypeOK
<1>1. MoveInv /\ [Next]_vars => MoveInv'
  BY MoveStep
<1>2. MoveInv => MoveTypeOK
  BY DEF MoveInv
<1> QED BY MoveInit, <1>1, <1>2, PTL DEF Spec

\* However often and wherever copies stop, no file is lost before its keeptime is
\* over, if ws_restore was told the truth.
THEOREM NothingIsLost == Spec => []NothingLost
<1>1. MoveInv /\ [Next]_vars => MoveInv'
  BY MoveStep
<1>2. MoveInv => NothingLost
  BY DEF MoveInv
<1> QED BY MoveInit, <1>1, <1>2, PTL DEF Spec

\* The step in which ws_restore removes the entry.
LEMMA UnlinkStep ==
    ASSUME MoveInv, Next, Unlinks, ~lied
    PROVE  at["removed"] = {}
<1>1. PICK p \in Proc : pc[p] = "finish" /\ pc'[p] # "finish" /\ job.op = "restore"
  BY DEF Unlinks
<1>2. Working
  BY <1>1 DEF MoveInv, MoveTypeOK, Working, Proc
<1>3. job \in Back
  BY <1>1, <1>2 DEF MoveInv, JobShape, Out, Back
<1>4. p = "tool"
  BY <1>1, <1>3 DEF MoveInv, Truth, Proc
<1>5. ret = 0
  <2>1. \A q \in Proc : Finish(q) => ret = 0
    BY DEF Finish, Unlinks
  <2>2. ~Purge
    BY <1>1, <1>4 DEF Purge
  <2> QED
    BY <2>1, <2>2 DEF Next, Unlinks, Retire, Begin, Restore, RenameDir, Fork, Exec, ExecFails, Copy,
       Remove, Copied, Removed, MvFails, MvKilled, ChildEnds, Stray, StrayRemoved, vars
<1> QED BY <1>1, <1>3, <1>4, <1>5 DEF MoveInv, Truth

\* ws_restore, told the truth, removes the entry of an empty name only.
THEOREM NoneIsLeftBehind == Spec => NoneLeftBehind
<1>1. MoveInv /\ [Next]_vars => MoveInv'
  BY MoveStep
<1>2. MoveInv /\ [Next]_vars => [Unlinks /\ ~lied => at["removed"] = {}]_vars
  BY UnlinkStep
<1> QED BY MoveInit, <1>1, <1>2, PTL DEF Spec, NoneLeftBehind

\* If fork, exec and the child never fail, what ws_restore reports is true: mv may
\* still give up at any file.
THEOREM RestoreIsSuccessful ==
    ASSUME Faults \subseteq {"mv"}
    PROVE  Spec => RestoreSuccessful
<1>1. Init => MoveInv /\ ~lied
  BY MoveInit DEF Init
<1>2. MoveInv /\ ~lied /\ [Next]_vars => MoveInv' /\ ~lied'
  <2> SUFFICES ASSUME MoveInv, ~lied, [Next]_vars PROVE ~lied'
    BY MoveStep
  <2> QED
    BY DEF Next, vars, Retire, Begin, Restore, RenameDir, Fork, Exec, ExecFails, Copy, Remove,
       Copied, Removed, MvFails, MvKilled, ChildEnds, Finish, Stray, StrayRemoved, Purge
<1>3. MoveInv /\ ~lied /\ [Next]_vars => [Unlinks => at["removed"] = {}]_vars
  BY UnlinkStep
<1> QED BY <1>1, <1>2, <1>3, PTL DEF Spec, RestoreSuccessful
=============================================================================
