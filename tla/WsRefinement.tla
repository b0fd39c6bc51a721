---------------------------- MODULE WsRefinement ----------------------------
(***************************************************************************)
(* The tools and the expirer of WsSystem implement WsLife, at a site that  *)
(* runs one of them at a time.  The mapping says at which system call an   *)
(* operation takes effect: a workspace changes when its entry is opened    *)
(* for writing, its data follow the entry, not the directory, and it is    *)
(* live again when the administrator's ws_restore ends.                    *)
(***************************************************************************)
EXTENDS WsProperties

CONSTANTS Stray, Broken

\* Names, places and what an entry says are told apart.
ASSUME LifeAssumption ==
    /\ Ids # {}
    /\ {Stray, Unwritten, Gone} \cap (Ids \cup Key) = {} /\ Ids \cap Key = {}
    /\ Stray \notin {Unwritten, Gone}
    /\ None \notin [exp : Nat, ext : 0 .. MaxExt, released : 0 .. MaxTime]
    /\ Broken \notin [exp : Nat, ext : 0 .. MaxExt, released : 0 .. MaxTime]
    /\ Broken \notin Entry /\ Broken # None

Seen(e) == [exp |-> e.exp, ext |-> e.ext, released |-> e.rel]

Writer(k) == CHOOSE p \in Procs : open[p] = k

\* The administrator's ws_restore has renamed the entry k, to the name to, and not
\* yet its directory.
Reviving(k, to) == \E p \in Procs : /\ At(p, "putback")
                                    /\ k = <<tool[p].id, tool[p].ts>>
                                    /\ to = <<tool[p].id, Live>>

\* What an entry says, or will say when its writer is done.
Content(k) ==
    CASE Reviving(k, <<k[1], Live>>)         -> entry[<<k[1], Live>>]
      [] \E t \in Label : Reviving(<<k[1], t>>, k) -> None
      [] entry[k] = Empty -> IF \E p \in Procs : open[p] = k THEN tool[Writer(k)].ent ELSE Broken
      [] OTHER            -> entry[k]

View(k) == IF Content(k) \in Entry THEN Seen(Content(k)) ELSE Content(k)

lifeLive == [i \in Ids |-> View(<<i, Live>>)]
lifeKept == [k \in Ids \X Time |-> View(k)]

\* The removed name a live directory is about to get, as its entry has it, which
\* is no workspace any more when the entry was damaged.
\* The expirer, unlike ws_release, leaves it alone when the name is taken.
Following(path) ==
    {key \in {path[2]} \X Time :
        /\ entry[key] \in Entry
        /\ \/ \E p \in Procs : /\ At(p, "movedir") /\ key = <<tool[p].id, tool[p].ts>>
                              /\ tool[p].ent.space = path[1]
           \/ /\ xp.pc = "movedir" /\ key = <<xp.job.key[1], xp.job.ts>>
              /\ xp.job.ent.space = path[1]
              /\ CanRename(path, <<path[1], path[2], xp.job.ts>>)}

OneOf(S) == CHOOSE x \in S : TRUE

\* What a directory is part of: its content counts only with the entry.
Owner(path) ==
    LET key == <<path[2], path[3]>>
    IN  IF path[3] = Live /\ Following(path) # {} THEN OneOf(Following(path))
        ELSE IF Content(key) \in Entry /\ Content(key).space = path[1]
             THEN IF path[3] = Live THEN path[2] ELSE key
             ELSE Stray

lifePlace == [d \in Data |-> IF where[d] \in {Unwritten, Gone} THEN where[d]
                             ELSE Owner(where[d])]

lifeWaived == waived \cup {<<tool[p].id, tool[p].ts>> : p \in {q \in Procs : At(q, "wipe")}}

Life == INSTANCE WsLife WITH live <- lifeLive, kept <- lifeKept, place <- lifePlace,
                             waived <- lifeWaived, faults <- faults

\* Whatever the users, cron and the clock do, and whatever is killed, one sees
\* nothing but the steps of WsLife: each command takes effect at once or not
\* at all, a removal and its data belong together, extensions are paid for,
\* and data are deleted only when they are due or given up, or when a kill or
\* other data in their place have made them part of no workspace.
LifeImplemented == Life!Spec
=============================================================================
