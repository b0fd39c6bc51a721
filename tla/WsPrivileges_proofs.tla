------------------------ MODULE WsPrivileges_proofs ------------------------
(***************************************************************************)
(* Proofs about WsPrivileges for both builds, every caller and every tool. *)
(* The programs are straight lines, so the invariant is that the calls     *)
(* left to make can all be made from the ids and capabilities the process  *)
(* has: Path relates a sequence of calls to the rights before and after    *)
(* it, and blocks that fit together compose.                               *)
(***************************************************************************)
EXTENDS WsPrivileges, SequenceTheorems, FiniteSetTheorems, TLAPS

Who    == {"root", "db", "user"}
Rights == [uid : Who, gid : Who, perm : SUBSET Caps, eff : SUBSET Caps]

Operations ==
    {"private", "db write", "db rename", "db unlink", "db chmod", "db chown",
     "dir make", "dir delete", "dir chown", "dir chmod", "dir rename", "data delete"}

CapSets == (SUBSET Caps) \ {{}}

Calls ==
    ({"drop"} \X (SUBSET Caps) \X {"caller", "db"})
        \cup ({"raise", "lower"} \X Caps) \cup ({"do"} \X Operations)
        \cup ({"try"} \X Operations \X CapSets)
        \cup {<<"db">>, <<"root">>, <<"caller">>, <<"euid root">>, <<"chown">>, <<"work">>}

\* What Entitled demands of an operation, in build b for caller c; the change
\* of a mode is what root_squash refuses.
Entitles(b, c, s, x) ==
    LET has(k) == IF b = "setuid" THEN s.uid = "root" ELSE k \in s.eff
        own    == b = "setuid" /\ s.uid = "db"
    IN  CASE x \in {"private", "dir rename"}                -> has("DAC")
          [] x \in {"db write", "db rename", "db unlink"}   ->
                own \/ (has("DAC") /\ ~(b = "setuid" /\ Squashed))
          [] x = "db chmod"                                 ->
                own \/ has("FOWNER") \/ (b = "setuid" /\ Squashed)
          [] x \in {"db chown", "dir chown"}                -> has("CHOWN")
          [] x \in {"dir make"}                             -> own \/ has("DAC")
          [] x = "dir chmod"                                -> has("FOWNER")
          [] x = "dir delete"                               -> b = "cap" \/ own \/ has("DAC")
          [] x = "data delete"                              -> b = "cap" \/ s.uid = c

\* Nothing is raised, as NothingRaised demands.
Calm(c, s) == s.eff = {} /\ s.uid \in {"db", c}

\* The rights after a call.
Up(b, s, k)      == IF b = "cap" THEN [s EXCEPT !.eff = s.eff \cup {k}]
                    ELSE [s EXCEPT !.uid = "root"]
Down(b, s, k)    == IF b = "cap" THEN [s EXCEPT !.eff = s.eff \ {k}]
                    ELSE [s EXCEPT !.uid = "db"]
Drops(b, s, C, u) == IF b = "cap" THEN [s EXCEPT !.perm = C, !.eff = {}]
                     ELSE [s EXCEPT !.uid = u]
AsDb(b, s)       == IF b = "cap" THEN s ELSE [s EXCEPT !.uid = "db", !.gid = "db"]
AsRoot(b, s)     == IF b = "cap" THEN s ELSE [s EXCEPT !.uid = "root", !.gid = "root"]
AsUser(b, s, u)  == IF b = "cap" THEN s ELSE [s EXCEPT !.uid = u]

\* What lowering the capabilities of C is enough to make calm.
MayLower(b, c, s, C) ==
    IF b = "cap" THEN s.eff \subseteq C /\ s.uid \in {"db", c}
    ELSE s.eff = {} /\ s.uid \in {"root", "db"}

\* The call x is allowed to, and takes, a process from s to t.
Does(b, c, x, s, t) ==
    \/ /\ x[1] = "drop"
       /\ IF b = "cap" THEN x[2] \subseteq s.perm ELSE s.uid = "root"
       /\ t = Drops(b, s, x[2], IF x[3] = "caller" THEN c ELSE x[3])
    \/ /\ x[1] = "raise" /\ t = Up(b, s, x[2])
       /\ b = "cap" => x[2] \in s.perm
    \/ /\ x[1] = "lower" /\ t = Down(b, s, x[2])
       /\ b = "setuid" => s.uid \in {"root", "db"}
    \/ /\ x[1] = "db" /\ t = AsDb(b, s)
       /\ b = "setuid" => s.uid = "root"
    \/ x[1] = "root" /\ t = AsRoot(b, s)
    \/ /\ x[1] = "caller" /\ t = AsUser(b, s, c)
       /\ b = "setuid" => s.uid = "root"
    \/ x[1] = "euid root" /\ t = AsUser(b, s, "root")
    \/ /\ x[1] = "chown" /\ t = s
       /\ b = "cap" => "CHOWN" \in s.perm /\ s.eff = {}
    \/ /\ x[1] \in {"do", "try"} /\ t = s
       /\ x[2] \in Operations /\ Entitles(b, c, s, x[2])
       /\ x[1] = "try" => x[3] \in CapSets /\ MayLower(b, c, s, x[3])
    \/ x[1] = "work" /\ t = s /\ Calm(c, s)

\* The calls of r, one after the other, take a process from s to t.
Path(b, c, r, s, t) ==
    /\ r \in Seq(Calls)
    /\ \E trace \in [1 .. Len(r) + 1 -> Rights] :
          /\ trace[1] = s /\ trace[Len(r) + 1] = t
          /\ \A i \in 1 .. Len(r) : Does(b, c, r[i], trace[i], trace[i + 1])

-----------------------------------------------------------------------------
(* Paths compose                                                           *)

LEMMA PathOne ==
    ASSUME NEW b, NEW c, NEW x \in Calls, NEW s \in Rights, NEW t \in Rights, Does(b, c, x, s, t)
    PROVE  Path(b, c, <<x>>, s, t)
<1> DEFINE trace == [i \in 1 .. 2 |-> IF i = 1 THEN s ELSE t]
<1>1. Len(<<x>>) = 1 /\ <<x>>[1] = x
  OBVIOUS
<1>2. trace \in [1 .. Len(<<x>>) + 1 -> Rights]
  BY <1>1
<1>3. trace[1] = s /\ trace[Len(<<x>>) + 1] = t
  BY <1>1
<1>4. \A i \in 1 .. Len(<<x>>) : Does(b, c, <<x>>[i], trace[i], trace[i + 1])
  BY <1>1, <1>3
<1>5. <<x>> \in Seq(Calls)
  OBVIOUS
<1> HIDE DEF trace
<1> QED BY <1>2, <1>3, <1>4, <1>5 DEF Path

LEMMA PathBoth ==
    ASSUME NEW b, NEW c, NEW q, NEW r, NEW s, NEW t, NEW u,
           Path(b, c, q, s, t), Path(b, c, r, t, u)
    PROVE  Path(b, c, q \o r, s, u)
<1>0. q \in Seq(Calls) /\ r \in Seq(Calls)
  BY DEF Path
<1>1. /\ q \o r \in Seq(Calls)
      /\ Len(q \o r) = Len(q) + Len(r)
      /\ \A i \in 1 .. Len(q) + Len(r) :
            (q \o r)[i] = IF i <= Len(q) THEN q[i] ELSE r[i - Len(q)]
  BY <1>0, ConcatProperties
<1>2. Len(q) \in Nat /\ Len(r) \in Nat
  BY <1>0, LenProperties
<1>3. PICK f \in [1 .. Len(q) + 1 -> Rights] :
          /\ f[1] = s /\ f[Len(q) + 1] = t
          /\ \A i \in 1 .. Len(q) : Does(b, c, q[i], f[i], f[i + 1])
  BY DEF Path
<1>4. PICK g \in [1 .. Len(r) + 1 -> Rights] :
          /\ g[1] = t /\ g[Len(r) + 1] = u
          /\ \A i \in 1 .. Len(r) : Does(b, c, r[i], g[i], g[i + 1])
  BY DEF Path
<1> DEFINE trace == [i \in 1 .. Len(q) + Len(r) + 1 |->
                        IF i <= Len(q) + 1 THEN f[i] ELSE g[i - Len(q)]]
<1>5. trace \in [1 .. Len(q \o r) + 1 -> Rights]
  BY <1>1, <1>2
<1>6. trace[1] = s
  BY <1>2, <1>3
<1>7. trace[Len(q \o r) + 1] = u
  BY <1>1, <1>2, <1>3, <1>4
<1>8. ASSUME NEW i \in 1 .. Len(q \o r)
      PROVE  Does(b, c, (q \o r)[i], trace[i], trace[i + 1])
  <2>1. CASE i <= Len(q)
    <3>1. (q \o r)[i] = q[i] /\ trace[i] = f[i] /\ trace[i + 1] = f[i + 1] /\ i \in 1 .. Len(q)
      BY <2>1, <1>1, <1>2
    <3> QED BY <3>1, <1>3
  <2>2. CASE i > Len(q)
    <3> DEFINE j == i - Len(q)
    <3>1. j \in 1 .. Len(r) /\ (q \o r)[i] = r[j]
      BY <2>2, <1>1, <1>2
    <3>2. trace[i + 1] = g[j + 1]
      BY <2>2, <1>1, <1>2
    <3>3. trace[i] = g[j]
      BY <2>2, <1>1, <1>2, <1>3, <1>4
    <3> QED BY <3>1, <3>2, <3>3, <1>4
  <2> QED BY <2>1, <2>2, <1>1, <1>2
<1> QED BY <1>1, <1>5, <1>6, <1>7, <1>8 DEF Path

LEMMA PathTail ==
    ASSUME NEW b, NEW c, NEW r, r # <<>>, NEW s, NEW t, Path(b, c, r, s, t)
    PROVE  /\ r \in Seq(Calls) /\ Head(r) \in Calls
           /\ \E u \in Rights : Does(b, c, Head(r), s, u) /\ Path(b, c, Tail(r), u, t)
<1>0. r \in Seq(Calls)
  BY DEF Path
<1>1. /\ Head(r) \in Calls /\ Tail(r) \in Seq(Calls)
      /\ Len(Tail(r)) = Len(r) - 1
      /\ \A i \in 1 .. Len(Tail(r)) : Tail(r)[i] = r[i + 1]
  BY <1>0, HeadTailProperties
<1>2. Len(r) \in Nat \ {0} /\ Head(r) = r[1]
  BY <1>0, EmptySeq
<1>3. PICK f \in [1 .. Len(r) + 1 -> Rights] :
          /\ f[1] = s /\ f[Len(r) + 1] = t
          /\ \A i \in 1 .. Len(r) : Does(b, c, r[i], f[i], f[i + 1])
  BY DEF Path
<1> DEFINE trace == [i \in 1 .. Len(r) |-> f[i + 1]]
<1>4. trace \in [1 .. Len(Tail(r)) + 1 -> Rights]
  BY <1>1, <1>2
<1>5. trace[1] = f[2] /\ trace[Len(Tail(r)) + 1] = t
  BY <1>1, <1>2, <1>3
<1>6. ASSUME NEW i \in 1 .. Len(Tail(r))
      PROVE  Does(b, c, Tail(r)[i], trace[i], trace[i + 1])
  <2>1. i + 1 \in 1 .. Len(r) /\ trace[i] = f[i + 1] /\ trace[i + 1] = f[(i + 1) + 1]
    BY <1>1, <1>2
  <2> QED BY <2>1, <1>1, <1>3
<1>7. Path(b, c, Tail(r), f[2], t)
  BY <1>1, <1>4, <1>5, <1>6 DEF Path
<1>8. f[2] \in Rights /\ Does(b, c, Head(r), s, f[2])
  BY <1>2, <1>3
<1> QED BY <1>0, <1>1, <1>7, <1>8

-----------------------------------------------------------------------------
(* Paths along a few calls                                                 *)

LEMMA Two == \A x, y : <<x, y>> = <<x>> \o <<y>>
<1> TAKE x, y
<1>1. <<x>> \in Seq({x, y}) /\ <<y>> \in Seq({x, y}) /\ <<x, y>> \in Seq({x, y})
  OBVIOUS
<1>2. Len(<<x>>) = 1 /\ Len(<<y>>) = 1 /\ Len(<<x, y>>) = 2
  OBVIOUS
<1>3. Len(<<x>> \o <<y>>) = 2 /\ <<x>> \o <<y>> \in Seq({x, y})
      /\ (<<x>> \o <<y>>)[1] = x /\ (<<x>> \o <<y>>)[2] = y
  BY <1>1, <1>2, ConcatProperties
<1>4. \A i \in 1 .. 2 : (<<x>> \o <<y>>)[i] = <<x, y>>[i]
  BY <1>3
<1> QED BY <1>1, <1>2, <1>3, <1>4, SeqEqual

LEMMA Three == \A x, y, z : <<x, y, z>> = <<x, y>> \o <<z>>
OBVIOUS

LEMMA Four == \A x, y, z, w : <<x, y, z, w>> = <<x, y, z>> \o <<w>>
OBVIOUS

LEMMA PathTwo ==
    ASSUME NEW b, NEW c, NEW x \in Calls, NEW y \in Calls,
           NEW s \in Rights, NEW t \in Rights, NEW u \in Rights,
           Does(b, c, x, s, t), Does(b, c, y, t, u)
    PROVE  Path(b, c, <<x, y>>, s, u)
<1>1. Path(b, c, <<x>>, s, t) /\ Path(b, c, <<y>>, t, u)
  BY PathOne
<1>2. Path(b, c, <<x>> \o <<y>>, s, u)
  BY <1>1, PathBoth
<1> QED BY <1>2, Two, Zenon

LEMMA PathThree ==
    ASSUME NEW b, NEW c, NEW x \in Calls, NEW y \in Calls, NEW z \in Calls,
           NEW s \in Rights, NEW t \in Rights, NEW u \in Rights, NEW v \in Rights,
           Does(b, c, x, s, t), Does(b, c, y, t, u), Does(b, c, z, u, v)
    PROVE  Path(b, c, <<x, y, z>>, s, v)
<1>1. Path(b, c, <<x, y>>, s, u) /\ Path(b, c, <<z>>, u, v)
  BY PathOne, PathTwo
<1>2. Path(b, c, <<x, y>> \o <<z>>, s, v)
  BY <1>1, PathBoth
<1> QED BY <1>2, Three, Zenon

LEMMA PathFour ==
    ASSUME NEW b, NEW c, NEW x \in Calls, NEW y \in Calls, NEW z \in Calls, NEW w \in Calls,
           NEW s \in Rights, NEW t \in Rights, NEW u \in Rights, NEW v \in Rights,
           NEW r \in Rights,
           Does(b, c, x, s, t), Does(b, c, y, t, u), Does(b, c, z, u, v), Does(b, c, w, v, r)
    PROVE  Path(b, c, <<x, y, z, w>>, s, r)
<1>1. Path(b, c, <<x, y, z>>, s, v) /\ Path(b, c, <<w>>, v, r)
  BY PathOne, PathThree
<1>2. Path(b, c, <<x, y, z>> \o <<w>>, s, r)
  BY <1>1, PathBoth
<1> QED BY <1>2, Four, Zenon

\* Longer sequences are put together of these.
LEMMA PathSeven ==
    ASSUME NEW b, NEW c, NEW r, NEW s, NEW t,
           NEW x, NEW y, NEW z, NEW w, Path(b, c, <<x, y, z, w>>, r, s),
           NEW k, NEW l, NEW m, Path(b, c, <<k, l, m>>, s, t)
    PROVE  Path(b, c, <<x, y, z, w, k, l, m>>, r, t)
<1>1. <<x, y, z, w, k, l, m>> = <<x, y, z, w>> \o <<k, l, m>>
  OBVIOUS
<1> QED BY <1>1, PathBoth

LEMMA PathNine ==
    ASSUME NEW b, NEW c, NEW r, NEW s, NEW t, NEW u,
           NEW x, NEW y, NEW z, Path(b, c, <<x, y, z>>, r, s),
           NEW k, NEW l, NEW m, Path(b, c, <<k, l, m>>, s, t),
           NEW f, NEW g, NEW h, Path(b, c, <<f, g, h>>, t, u)
    PROVE  Path(b, c, <<x, y, z, k, l, m, f, g, h>>, r, u)
<1>1. <<x, y, z, k, l, m, f, g, h>> = <<x, y, z>> \o (<<k, l, m>> \o <<f, g, h>>)
  OBVIOUS
<1>2. Path(b, c, <<k, l, m>> \o <<f, g, h>>, s, u)
  BY PathBoth
<1>3. Path(b, c, <<x, y, z>> \o (<<k, l, m>> \o <<f, g, h>>), r, u)
  BY <1>2, PathBoth
<1> QED BY <1>1, <1>3

LEMMA PathTwelve ==
    ASSUME NEW b, NEW c, NEW r, NEW s, NEW t, NEW u,
           NEW x, NEW y, NEW z, NEW w, Path(b, c, <<x, y, z, w>>, r, s),
           NEW k, NEW l, NEW m, NEW n, Path(b, c, <<k, l, m, n>>, s, t),
           NEW f, NEW g, NEW h, NEW i, Path(b, c, <<f, g, h, i>>, t, u)
    PROVE  Path(b, c, <<x, y, z, w, k, l, m, n, f, g, h, i>>, r, u)
<1>1. <<x, y, z, w, k, l, m, n, f, g, h, i>>
          = <<x, y, z, w>> \o (<<k, l, m, n>> \o <<f, g, h, i>>)
  OBVIOUS
<1>2. Path(b, c, <<k, l, m, n>> \o <<f, g, h, i>>, s, u)
  BY PathBoth
<1>3. Path(b, c, <<x, y, z, w>> \o (<<k, l, m, n>> \o <<f, g, h, i>>), r, u)
  BY <1>2, PathBoth
<1> QED BY <1>1, <1>3

-----------------------------------------------------------------------------
(* What the single calls do.  A process that started a block with the      *)
(* rights s has come to t: nothing but the effective capabilities E differs *)
(* in the one build, nothing but the ids, with the uid u, in the other.    *)

SomeBuild == {"setuid", "cap"}

At(b, s, t, u, E) ==
    /\ t \in Rights /\ t.perm = s.perm
    /\ IF b = "cap" THEN t.uid = s.uid /\ t.gid = s.gid /\ t.eff = E
       ELSE t.uid = u /\ t.eff = {}

LEMMA RaiseDoes ==
    ASSUME NEW b \in SomeBuild, NEW c, NEW s, NEW t, NEW u, NEW E, At(b, s, t, u, E),
           NEW k \in Caps, b = "cap" => k \in s.perm
    PROVE  /\ Raise(k) \in Calls
           /\ \E v \in Rights : At(b, s, v, "root", E \cup {k}) /\ Does(b, c, Raise(k), t, v)
<1>1. Raise(k) \in Calls /\ Does(b, c, Raise(k), t, Up(b, t, k))
  BY DEF At, Does, Raise, Calls
<1>2. At(b, s, Up(b, t, k), "root", E \cup {k})
  BY DEF At, Up, Rights, Who
<1> QED BY <1>1, <1>2 DEF At

LEMMA LowerDoes ==
    ASSUME NEW b \in SomeBuild, NEW c, NEW s, NEW t, NEW u, NEW E, At(b, s, t, u, E),
           NEW k \in Caps, u \in {"root", "db"}
    PROVE  /\ Lower(k) \in Calls
           /\ \E v \in Rights : At(b, s, v, "db", E \ {k}) /\ Does(b, c, Lower(k), t, v)
<1>1. Lower(k) \in Calls /\ Does(b, c, Lower(k), t, Down(b, t, k))
  BY DEF At, Does, Lower, Calls, SomeBuild
<1>2. At(b, s, Down(b, t, k), "db", E \ {k})
  BY DEF At, Down, Rights, Who
<1> QED BY <1>1, <1>2 DEF At

LEMMA DbDoes ==
    ASSUME NEW b \in SomeBuild, NEW c, NEW s, NEW t, NEW E, At(b, s, t, "root", E)
    PROVE  /\ <<"db">> \in Calls
           /\ \E v \in Rights : At(b, s, v, "db", E) /\ Does(b, c, <<"db">>, t, v)
<1>1. <<"db">> \in Calls /\ Does(b, c, <<"db">>, t, AsDb(b, t))
  BY DEF At, Does, Calls, SomeBuild
<1>2. At(b, s, AsDb(b, t), "db", E)
  BY DEF At, AsDb, Rights, Who
<1> QED BY <1>1, <1>2 DEF At

LEMMA RootDoes ==
    ASSUME NEW b \in SomeBuild, NEW c, NEW s, NEW t, NEW u, NEW E, At(b, s, t, u, E)
    PROVE  /\ <<"root">> \in Calls
           /\ \E v \in Rights : At(b, s, v, "root", E) /\ Does(b, c, <<"root">>, t, v)
<1>1. <<"root">> \in Calls /\ Does(b, c, <<"root">>, t, AsRoot(b, t))
  BY DEF At, Does, Calls
<1>2. At(b, s, AsRoot(b, t), "root", E)
  BY DEF At, AsRoot, Rights, Who
<1> QED BY <1>1, <1>2 DEF At

LEMMA CallerDoes ==
    ASSUME NEW b \in SomeBuild, NEW c \in Who, NEW s, NEW t, NEW E, At(b, s, t, "root", E)
    PROVE  /\ <<"caller">> \in Calls
           /\ \E v \in Rights : At(b, s, v, c, E) /\ Does(b, c, <<"caller">>, t, v)
<1>1. <<"caller">> \in Calls /\ Does(b, c, <<"caller">>, t, AsUser(b, t, c))
  BY DEF At, Does, Calls, SomeBuild
<1>2. At(b, s, AsUser(b, t, c), c, E)
  BY DEF At, AsUser, Rights, Who
<1> QED BY <1>1, <1>2 DEF At

LEMMA EuidDoes ==
    ASSUME NEW b \in SomeBuild, NEW c, NEW s, NEW t, NEW u, NEW E, At(b, s, t, u, E)
    PROVE  /\ <<"euid root">> \in Calls
           /\ \E v \in Rights : At(b, s, v, "root", E) /\ Does(b, c, <<"euid root">>, t, v)
<1>1. <<"euid root">> \in Calls /\ Does(b, c, <<"euid root">>, t, AsUser(b, t, "root"))
  BY DEF At, Does, Calls
<1>2. At(b, s, AsUser(b, t, "root"), "root", E)
  BY DEF At, AsUser, Rights, Who
<1> QED BY <1>1, <1>2 DEF At

LEMMA DoDoes ==
    ASSUME NEW b, NEW c, NEW s, NEW x \in Operations, Entitles(b, c, s, x)
    PROVE  Do(x) \in Calls /\ Does(b, c, Do(x), s, s)
BY DEF Does, Calls, Do

LEMMA TryDoes ==
    ASSUME NEW b, NEW c, NEW s, NEW x \in Operations, Entitles(b, c, s, x),
           NEW C \in CapSets, MayLower(b, c, s, C)
    PROVE  <<"try", x, C>> \in Calls /\ Does(b, c, <<"try", x, C>>, s, s)
BY DEF Does, Calls

LEMMA WorkDoes ==
    ASSUME NEW b, NEW c, NEW s, Calm(c, s)
    PROVE  Work \in Calls /\ Does(b, c, Work, s, s)
BY DEF Does, Calls, Work

\* The operations that one capability is enough for, and those of the DB user.
Enough == {<<"DAC", "private">>, <<"DAC", "dir make">>, <<"DAC", "dir rename">>,
           <<"CHOWN", "db chown">>, <<"CHOWN", "dir chown">>, <<"FOWNER", "dir chmod">>,
           <<"FOWNER", "db chmod">>}

LEMMA RaisedEntitles ==
    ASSUME NEW b \in SomeBuild, NEW c, NEW s, NEW t, NEW E, At(b, s, t, "root", E),
           NEW k \in E, NEW x, <<k, x>> \in Enough
    PROVE  Entitles(b, c, t, x) /\ k \in Caps /\ x \in Operations
<1>1. IF b = "cap" THEN k \in t.eff ELSE t.uid = "root"
  BY DEF At
<1>2. k \in Caps /\ x \in Operations
  BY DEF Enough, Caps, Operations
<1>3. Entitles(b, c, t, x)
  BY <1>1 DEF Enough, Entitles, SomeBuild
<1> QED BY <1>2, <1>3

LEMMA DbEntitles ==
    ASSUME NEW b \in SomeBuild, NEW c, NEW s, NEW t, NEW E, At(b, s, t, "db", E), "DAC" \in E,
           NEW x \in {"db write", "db rename", "db unlink"}
    PROVE  Entitles(b, c, t, x) /\ x \in Operations
BY DEF At, Entitles, SomeBuild, Operations

-----------------------------------------------------------------------------
(* Blocks: they can be run whenever nothing is raised and the capabilities *)
(* of the tool are C, and leave it so.                                     *)

Ready(b, c, C, s) == Calm(c, s) /\ (b = "cap" => s.perm = C)

Block(b, c, C, r) ==
    \A s \in Rights : Ready(b, c, C, s) =>
        \E t \in Rights : Ready(b, c, C, t) /\ Path(b, c, r, s, t)

LEMMA Blocks ==
    ASSUME NEW b, NEW c, NEW C, NEW q, NEW r, Block(b, c, C, q), Block(b, c, C, r)
    PROVE  Block(b, c, C, q \o r)
<1>1. ASSUME NEW s \in Rights, Ready(b, c, C, s)
      PROVE  \E t \in Rights : Ready(b, c, C, t) /\ Path(b, c, q \o r, s, t)
  <2>1. PICK t \in Rights : Ready(b, c, C, t) /\ Path(b, c, q, s, t)
    BY <1>1 DEF Block
  <2>2. PICK u \in Rights : Ready(b, c, C, u) /\ Path(b, c, r, t, u)
    BY <2>1 DEF Block
  <2>3. Path(b, c, q \o r, s, u)
    BY <2>1, <2>2, PathBoth
  <2> QED BY <2>2, <2>3
<1> QED BY <1>1 DEF Block

\* The beginning and the end of a block.
LEMMA ReadyAt ==
    ASSUME NEW b \in SomeBuild, NEW c, NEW C, NEW s \in Rights, Ready(b, c, C, s)
    PROVE  /\ At(b, s, s, s.uid, {}) /\ (b = "cap" => s.perm = C)
           /\ \A t : At(b, s, t, "db", {}) => Ready(b, c, C, t)
BY DEF Ready, Calm, At, SomeBuild

LEMMA BlockWork == ASSUME NEW b, NEW c, NEW C PROVE Block(b, c, C, <<Work>>)
<1>1. ASSUME NEW s \in Rights, Ready(b, c, C, s)
      PROVE  Path(b, c, <<Work>>, s, s)
  BY <1>1, WorkDoes, PathOne DEF Ready
<1> QED BY <1>1 DEF Block

\* One capability is raised for one operation, and is lowered again.
LEMMA RaisedPath ==
    ASSUME NEW b \in SomeBuild, NEW c, NEW s, NEW t, NEW u, NEW E, At(b, s, t, u, E),
           NEW k \in Caps, b = "cap" => k \in s.perm, NEW x \in Calls,
           \A v : At(b, s, v, "root", E \cup {k}) => Does(b, c, x, v, v)
    PROVE  \E v \in Rights : /\ At(b, s, v, "db", (E \cup {k}) \ {k})
                             /\ Path(b, c, Raised(k, x), t, v)
<1>1. PICK v \in Rights : At(b, s, v, "root", E \cup {k}) /\ Does(b, c, Raise(k), t, v)
  BY RaiseDoes
<1>2. PICK w \in Rights : At(b, s, w, "db", (E \cup {k}) \ {k}) /\ Does(b, c, Lower(k), v, w)
  BY <1>1, LowerDoes
<1>3. Raise(k) \in Calls /\ Lower(k) \in Calls /\ t \in Rights
  BY DEF Raise, Lower, Calls, At
<1>4. Path(b, c, <<Raise(k), x, Lower(k)>>, t, w)
  BY <1>1, <1>2, <1>3, PathThree
<1> QED BY <1>2, <1>4 DEF Raised

LEMMA BlockDo ==
    ASSUME NEW b \in SomeBuild, NEW c, NEW C \in SUBSET Caps, NEW k \in C, NEW x,
           <<k, x>> \in Enough
    PROVE  Block(b, c, C, Raised(k, Do(x)))
<1> SUFFICES ASSUME NEW s \in Rights, Ready(b, c, C, s)
             PROVE  \E t \in Rights : Ready(b, c, C, t) /\ Path(b, c, Raised(k, Do(x)), s, t)
  BY DEF Block
<1>1. Do(x) \in Calls
  BY DEF Enough, Do, Calls, Operations
<1>2. ASSUME NEW v, At(b, s, v, "root", {} \cup {k})
      PROVE  Does(b, c, Do(x), v, v)
  BY <1>2, RaisedEntitles, DoDoes
<1>3. At(b, s, s, s.uid, {}) /\ (b = "cap" => k \in s.perm)
  BY ReadyAt
<1>4. PICK v \in Rights : /\ At(b, s, v, "db", ({} \cup {k}) \ {k})
                          /\ Path(b, c, Raised(k, Do(x)), s, v)
  BY <1>1, <1>2, <1>3, RaisedPath
<1>5. ({} \cup {k}) \ {k} = {}
  OBVIOUS
<1> QED BY <1>4, <1>5, ReadyAt

LEMMA BlockTry ==
    ASSUME NEW b \in SomeBuild, NEW c, NEW C \in SUBSET Caps, NEW k \in C, NEW x,
           <<k, x>> \in Enough
    PROVE  Block(b, c, C, Raised(k, <<"try", x, {k}>>))
<1> DEFINE y == <<"try", x, {k}>>
<1> SUFFICES ASSUME NEW s \in Rights, Ready(b, c, C, s)
             PROVE  \E t \in Rights : Ready(b, c, C, t) /\ Path(b, c, Raised(k, y), s, t)
  BY DEF Block
<1>1. {k} \in CapSets /\ x \in Operations /\ y \in Calls
  BY DEF Enough, Calls, CapSets, Operations
<1>2. ASSUME NEW v, At(b, s, v, "root", {} \cup {k})
      PROVE  Does(b, c, y, v, v)
  <2>1. MayLower(b, c, v, {k})
    BY <1>2 DEF At, Ready, Calm, MayLower
  <2>2. Entitles(b, c, v, x)
    BY <1>2, RaisedEntitles
  <2> QED BY <1>1, <2>1, <2>2, TryDoes
<1>3. At(b, s, s, s.uid, {}) /\ (b = "cap" => k \in s.perm)
  BY ReadyAt
<1> HIDE DEF y
<1>4. PICK v \in Rights : /\ At(b, s, v, "db", ({} \cup {k}) \ {k})
                          /\ Path(b, c, Raised(k, y), s, v)
  BY <1>1, <1>2, <1>3, RaisedPath
<1>5. ({} \cup {k}) \ {k} = {}
  OBVIOUS
<1> QED BY <1>4, <1>5, ReadyAt

LEMMA BlockConstruct ==
    ASSUME NEW b \in SomeBuild, NEW c, NEW C \in SUBSET Caps, "DAC" \in C
    PROVE  Block(b, c, C, Construct)
<1>1. <<"DAC", "private">> \in Enough
  BY DEF Enough
<1>2. Block(b, c, C, Raised("DAC", Do("private")))
  BY <1>1, BlockDo
<1> QED BY <1>2, BlockWork, Blocks DEF Construct

\* write_dbfile.  In the setuid build the entry is written as the DB user, and
\* the process is root again when it lowers the last capability.
LEMMA BlockWriteDb ==
    ASSUME NEW b \in SomeBuild, NEW c, NEW C \in SUBSET Caps, {"DAC", "FOWNER", "CHOWN"} \subseteq C
    PROVE  Block(b, c, C, WriteDb)
<1> SUFFICES ASSUME NEW s \in Rights, Ready(b, c, C, s)
             PROVE  \E t \in Rights : Ready(b, c, C, t) /\ Path(b, c, WriteDb, s, t)
  BY DEF Block
<1>1. /\ At(b, s, s, s.uid, {})
      /\ b = "cap" => {"DAC", "FOWNER", "CHOWN"} \subseteq s.perm
      /\ {"DAC", "FOWNER"} \subseteq Caps
  BY ReadyAt DEF Caps
<1>2. PICK s1 \in Rights : /\ At(b, s, s1, "root", {} \cup {"DAC"})
                           /\ Does(b, c, Raise("DAC"), s, s1)
  BY <1>1, RaiseDoes
<1>3. PICK s2 \in Rights : /\ At(b, s, s2, "db", {} \cup {"DAC"})
                           /\ Does(b, c, <<"db">>, s1, s2)
  BY <1>2, DbDoes
<1>4. Do("db write") \in Calls /\ Does(b, c, Do("db write"), s2, s2)
  BY <1>3, DbEntitles, DoDoes
<1>5. Path(b, c, <<Raise("DAC"), <<"db">>, Do("db write")>>, s, s2)
  <2>1. Raise("DAC") \in Calls /\ <<"db">> \in Calls
    BY <1>1 DEF Raise, Calls
  <2> QED BY <1>2, <1>3, <1>4, <2>1, PathThree
<1>6. PICK s3 \in Rights : /\ At(b, s, s3, "db", (({} \cup {"DAC"}) \cup {"FOWNER"}) \ {"FOWNER"})
                           /\ Path(b, c, Raised("FOWNER", Do("db chmod")), s2, s3)
  <2>1. ASSUME NEW v, At(b, s, v, "root", ({} \cup {"DAC"}) \cup {"FOWNER"})
        PROVE  Does(b, c, Do("db chmod"), v, v)
    <3>1. <<"FOWNER", "db chmod">> \in Enough
      BY DEF Enough
    <3> QED BY <2>1, <3>1, RaisedEntitles, DoDoes
  <2>2. Do("db chmod") \in Calls
    BY DEF Do, Calls, Operations
  <2> QED BY <1>1, <1>3, <2>1, <2>2, RaisedPath
<1>7. PICK s4 \in Rights : /\ At(b, s, s4, "root", (({} \cup {"DAC"}) \cup {"FOWNER"}) \ {"FOWNER"})
                           /\ Does(b, c, <<"root">>, s3, s4)
  BY <1>6, RootDoes
<1>8. PICK s5 \in Rights :
         /\ At(b, s, s5, "db", ((({} \cup {"DAC"}) \cup {"FOWNER"}) \ {"FOWNER"}) \ {"DAC"})
         /\ Does(b, c, Lower("DAC"), s4, s5)
  BY <1>1, <1>7, LowerDoes
<1>9. At(b, s, s5, "db", {}) /\ Ready(b, c, C, s5)
  <2>1. ((({} \cup {"DAC"}) \cup {"FOWNER"}) \ {"FOWNER"}) \ {"DAC"} = {}
    OBVIOUS
  <2> QED BY <1>8, <2>1, ReadyAt
<1>10. <<"chown">> \in Calls /\ Does(b, c, <<"chown">>, s5, s5)
  BY <1>1, <1>9 DEF At, Does, Calls
<1>11. Path(b, c, <<<<"root">>, Lower("DAC"), <<"chown">>, Work>>, s3, s5)
  <2>1. <<"root">> \in Calls /\ Lower("DAC") \in Calls
    BY <1>1 DEF Lower, Calls
  <2>2. Work \in Calls /\ Does(b, c, Work, s5, s5)
    BY <1>9, WorkDoes DEF Ready
  <2> QED BY <1>7, <1>8, <1>10, <2>1, <2>2, PathFour
<1>12. Path(b, c, WriteDb, s, s5)
  BY <1>5, <1>6, <1>11, PathBoth DEF WriteDb
<1> QED BY <1>9, <1>12

\* ws_release moves the entry as the DB user.
RenameCalls ==
    <<Raise("DAC"), Raise("FOWNER"), <<"db">>, <<"try", "db rename", {"DAC", "FOWNER"}>>,
      Lower("DAC"), Lower("FOWNER"), Work>>

LEMMA BlockRename ==
    ASSUME NEW b \in SomeBuild, NEW c, NEW C \in SUBSET Caps, {"DAC", "FOWNER"} \subseteq C
    PROVE  Block(b, c, C, RenameCalls)
<1> DEFINE D == {"DAC", "FOWNER"}
           y == <<"try", "db rename", D>>
<1> SUFFICES ASSUME NEW s \in Rights, Ready(b, c, C, s)
             PROVE  \E t \in Rights : Ready(b, c, C, t) /\ Path(b, c, RenameCalls, s, t)
  BY DEF Block
<1>1. /\ At(b, s, s, s.uid, {})
      /\ b = "cap" => {"DAC", "FOWNER"} \subseteq s.perm
      /\ {"DAC", "FOWNER"} \subseteq Caps
  BY ReadyAt DEF Caps
<1>2. PICK s1 \in Rights : At(b, s, s1, "root", {} \cup {"DAC"}) /\ Does(b, c, Raise("DAC"), s, s1)
  BY <1>1, RaiseDoes
<1>3. PICK s2 \in Rights : /\ At(b, s, s2, "root", ({} \cup {"DAC"}) \cup {"FOWNER"})
                           /\ Does(b, c, Raise("FOWNER"), s1, s2)
  BY <1>1, <1>2, RaiseDoes
<1>4. At(b, s, s2, "root", D)
  <2>1. ({} \cup {"DAC"}) \cup {"FOWNER"} = D
    OBVIOUS
  <2> QED BY <1>3, <2>1
<1>5. PICK s3 \in Rights : At(b, s, s3, "db", D) /\ Does(b, c, <<"db">>, s2, s3)
  BY <1>4, DbDoes
<1>6. y \in Calls /\ Does(b, c, y, s3, s3)
  <2>1. D \in CapSets
    BY DEF Caps, CapSets
  <2>2. Entitles(b, c, s3, "db rename") /\ "db rename" \in Operations
    BY <1>5, DbEntitles
  <2>3. MayLower(b, c, s3, D)
    BY <1>5 DEF At, Ready, Calm, MayLower
  <2> QED BY <2>1, <2>2, <2>3, TryDoes
<1>7. PICK s4 \in Rights : At(b, s, s4, "db", D \ {"DAC"}) /\ Does(b, c, Lower("DAC"), s3, s4)
  BY <1>1, <1>5, LowerDoes
<1>8. PICK s5 \in Rights : /\ At(b, s, s5, "db", (D \ {"DAC"}) \ {"FOWNER"})
                           /\ Does(b, c, Lower("FOWNER"), s4, s5)
  BY <1>1, <1>7, LowerDoes
<1>9. Ready(b, c, C, s5)
  <2>1. (D \ {"DAC"}) \ {"FOWNER"} = {}
    OBVIOUS
  <2> QED BY <1>8, <2>1, ReadyAt
<1>10. /\ Raise("DAC") \in Calls /\ Raise("FOWNER") \in Calls /\ <<"db">> \in Calls
       /\ Lower("DAC") \in Calls /\ Lower("FOWNER") \in Calls
  BY <1>1 DEF Raise, Lower, Calls
<1> HIDE DEF y
<1>11. Path(b, c, <<Raise("DAC"), Raise("FOWNER"), <<"db">>, y>>, s, s3)
  BY <1>2, <1>3, <1>5, <1>6, <1>10, PathFour
<1>12. Path(b, c, <<Lower("DAC"), Lower("FOWNER"), Work>>, s3, s5)
  <2>1. Work \in Calls /\ Does(b, c, Work, s5, s5)
    BY <1>9, WorkDoes DEF Ready
  <2> QED BY <1>7, <1>8, <1>10, <2>1, PathThree
<1>13. Path(b, c, <<Raise("DAC"), Raise("FOWNER"), <<"db">>, y,
                    Lower("DAC"), Lower("FOWNER"), Work>>, s, s5)
  BY <1>11, <1>12, PathSeven
<1> QED BY <1>9, <1>13 DEF RenameCalls, y

\* ws_release --delete-data deletes the data as the caller, and the directory
\* and the entry as the DB user.
WipeCalls ==
    <<Raise("FOWNER"), <<"caller">>, Do("data delete"), <<"euid root">>,
      Lower("FOWNER"), Work, Do("dir delete"),
      Raise("DAC"), <<"db">>, Do("db unlink"), Lower("DAC"), Work>>

LEMMA BlockWipe ==
    ASSUME NEW b \in SomeBuild, NEW c \in Who, NEW C \in SUBSET Caps,
           {"DAC", "FOWNER"} \subseteq C
    PROVE  Block(b, c, C, WipeCalls)
<1> SUFFICES ASSUME NEW s \in Rights, Ready(b, c, C, s)
             PROVE  \E t \in Rights : Ready(b, c, C, t) /\ Path(b, c, WipeCalls, s, t)
  BY DEF Block
<1>1. /\ At(b, s, s, s.uid, {})
      /\ b = "cap" => {"DAC", "FOWNER"} \subseteq s.perm
      /\ {"DAC", "FOWNER"} \subseteq Caps
  BY ReadyAt DEF Caps
<1>2. PICK s1 \in Rights : /\ At(b, s, s1, "root", {} \cup {"FOWNER"})
                           /\ Does(b, c, Raise("FOWNER"), s, s1)
  BY <1>1, RaiseDoes
<1>3. PICK s2 \in Rights : /\ At(b, s, s2, c, {} \cup {"FOWNER"})
                           /\ Does(b, c, <<"caller">>, s1, s2)
  BY <1>2, CallerDoes
<1>4. Do("data delete") \in Calls /\ Does(b, c, Do("data delete"), s2, s2)
  <2>1. Entitles(b, c, s2, "data delete")
    BY <1>3 DEF Entitles, At
  <2> QED BY <2>1, DoDoes DEF Operations
<1>5. PICK s3 \in Rights : /\ At(b, s, s3, "root", {} \cup {"FOWNER"})
                           /\ Does(b, c, <<"euid root">>, s2, s3)
  BY <1>3, EuidDoes
<1>6. PICK s4 \in Rights : /\ At(b, s, s4, "db", ({} \cup {"FOWNER"}) \ {"FOWNER"})
                           /\ Does(b, c, Lower("FOWNER"), s3, s4)
  BY <1>1, <1>5, LowerDoes
<1>7. At(b, s, s4, "db", {}) /\ Ready(b, c, C, s4)
  <2>1. ({} \cup {"FOWNER"}) \ {"FOWNER"} = {}
    OBVIOUS
  <2> QED BY <1>6, <2>1, ReadyAt
<1>8. Do("dir delete") \in Calls /\ Does(b, c, Do("dir delete"), s4, s4)
  <2>1. Entitles(b, c, s4, "dir delete")
    BY <1>7 DEF Entitles, At, SomeBuild
  <2> QED BY <2>1, DoDoes DEF Operations
<1>9. PICK s5 \in Rights : /\ At(b, s, s5, "root", {} \cup {"DAC"})
                           /\ Does(b, c, Raise("DAC"), s4, s5)
  BY <1>1, <1>7, RaiseDoes
<1>10. PICK s6 \in Rights : At(b, s, s6, "db", {} \cup {"DAC"}) /\ Does(b, c, <<"db">>, s5, s6)
  BY <1>9, DbDoes
<1>11. Do("db unlink") \in Calls /\ Does(b, c, Do("db unlink"), s6, s6)
  BY <1>10, DbEntitles, DoDoes
<1>12. PICK s7 \in Rights : /\ At(b, s, s7, "db", ({} \cup {"DAC"}) \ {"DAC"})
                            /\ Does(b, c, Lower("DAC"), s6, s7)
  BY <1>1, <1>10, LowerDoes
<1>13. Ready(b, c, C, s7)
  <2>1. ({} \cup {"DAC"}) \ {"DAC"} = {}
    OBVIOUS
  <2> QED BY <1>12, <2>1, ReadyAt
<1>14. /\ Raise("DAC") \in Calls /\ Raise("FOWNER") \in Calls /\ <<"db">> \in Calls
       /\ Lower("DAC") \in Calls /\ Lower("FOWNER") \in Calls
       /\ <<"caller">> \in Calls /\ <<"euid root">> \in Calls
  BY <1>1 DEF Raise, Lower, Calls
<1>15. /\ Work \in Calls /\ Does(b, c, Work, s4, s4) /\ Does(b, c, Work, s7, s7)
  BY <1>7, <1>13, WorkDoes DEF Ready
<1>16. Path(b, c, <<Raise("FOWNER"), <<"caller">>, Do("data delete"), <<"euid root">>>>, s, s3)
  BY <1>2, <1>3, <1>4, <1>5, <1>14, PathFour
<1>17. Path(b, c, <<Lower("FOWNER"), Work, Do("dir delete"), Raise("DAC")>>, s3, s5)
  BY <1>6, <1>8, <1>9, <1>14, <1>15, PathFour
<1>18. Path(b, c, <<<<"db">>, Do("db unlink"), Lower("DAC"), Work>>, s5, s7)
  BY <1>10, <1>11, <1>12, <1>14, <1>15, PathFour
<1>19. Path(b, c, WipeCalls, s, s7)
  BY <1>16, <1>17, <1>18, PathTwelve DEF WipeCalls
<1> QED BY <1>13, <1>19

\* ws_restore moves the directory and removes the entry in one block.
RestoreCalls ==
    <<Raise("DAC"), Raise("READ"), Do("dir rename"), <<"db">>,
      Do("db unlink"), <<"root">>, Lower("DAC"), Lower("READ"), Work>>

LEMMA BlockRestore ==
    ASSUME NEW b \in SomeBuild, NEW c, NEW C \in SUBSET Caps, {"DAC", "READ"} \subseteq C
    PROVE  Block(b, c, C, RestoreCalls)
<1> DEFINE D == {"DAC", "READ"}
<1> SUFFICES ASSUME NEW s \in Rights, Ready(b, c, C, s)
             PROVE  \E t \in Rights : Ready(b, c, C, t) /\ Path(b, c, RestoreCalls, s, t)
  BY DEF Block
<1>1. /\ At(b, s, s, s.uid, {})
      /\ b = "cap" => {"DAC", "READ"} \subseteq s.perm
      /\ {"DAC", "READ"} \subseteq Caps
  BY ReadyAt DEF Caps
<1>2. PICK s1 \in Rights : At(b, s, s1, "root", {} \cup {"DAC"}) /\ Does(b, c, Raise("DAC"), s, s1)
  BY <1>1, RaiseDoes
<1>3. PICK s2 \in Rights : /\ At(b, s, s2, "root", ({} \cup {"DAC"}) \cup {"READ"})
                           /\ Does(b, c, Raise("READ"), s1, s2)
  BY <1>1, <1>2, RaiseDoes
<1>4. At(b, s, s2, "root", D)
  <2>1. ({} \cup {"DAC"}) \cup {"READ"} = D
    OBVIOUS
  <2> QED BY <1>3, <2>1
<1>5. Do("dir rename") \in Calls /\ Does(b, c, Do("dir rename"), s2, s2)
  <2>1. <<"DAC", "dir rename">> \in Enough
    BY DEF Enough
  <2> QED BY <1>4, <2>1, RaisedEntitles, DoDoes
<1>6. PICK s3 \in Rights : At(b, s, s3, "db", D) /\ Does(b, c, <<"db">>, s2, s3)
  BY <1>4, DbDoes
<1>7. Do("db unlink") \in Calls /\ Does(b, c, Do("db unlink"), s3, s3)
  <2>1. "DAC" \in D
    OBVIOUS
  <2> QED BY <1>6, <2>1, DbEntitles, DoDoes
<1>8. PICK s4 \in Rights : At(b, s, s4, "root", D) /\ Does(b, c, <<"root">>, s3, s4)
  BY <1>6, RootDoes
<1>9. PICK s5 \in Rights : At(b, s, s5, "db", D \ {"DAC"}) /\ Does(b, c, Lower("DAC"), s4, s5)
  BY <1>1, <1>8, LowerDoes
<1>10. PICK s6 \in Rights : /\ At(b, s, s6, "db", (D \ {"DAC"}) \ {"READ"})
                            /\ Does(b, c, Lower("READ"), s5, s6)
  BY <1>1, <1>9, LowerDoes
<1>11. Ready(b, c, C, s6)
  <2>1. (D \ {"DAC"}) \ {"READ"} = {}
    OBVIOUS
  <2> QED BY <1>10, <2>1, ReadyAt
<1>12. /\ Raise("DAC") \in Calls /\ Raise("READ") \in Calls /\ <<"db">> \in Calls
       /\ Lower("DAC") \in Calls /\ Lower("READ") \in Calls /\ <<"root">> \in Calls
  BY <1>1 DEF Raise, Lower, Calls
<1>13. Work \in Calls /\ Does(b, c, Work, s6, s6)
  BY <1>11, WorkDoes DEF Ready
<1>14. Path(b, c, <<Raise("DAC"), Raise("READ"), Do("dir rename")>>, s, s2)
  BY <1>2, <1>3, <1>5, <1>12, PathThree
<1>15. Path(b, c, <<<<"db">>, Do("db unlink"), <<"root">>>>, s2, s4)
  BY <1>6, <1>7, <1>8, <1>12, PathThree
<1>16. Path(b, c, <<Lower("DAC"), Lower("READ"), Work>>, s4, s6)
  BY <1>9, <1>10, <1>12, <1>13, PathThree
<1>17. Path(b, c, RestoreCalls, s, s6)
  BY <1>14, <1>15, <1>16, PathNine DEF RestoreCalls
<1> QED BY <1>11, <1>17

-----------------------------------------------------------------------------
(* The programs                                                            *)

\* What a tool starts with.
Started(b, c, s) ==
    /\ s \in Rights
    /\ s.uid = (IF b = "setuid" THEN "root" ELSE c)
    /\ s.perm = (IF b = "cap" THEN Caps ELSE {}) /\ s.eff = {}

Leads(b, c, C, s, r) == \E t \in Rights : Ready(b, c, C, t) /\ Path(b, c, r, s, t)

LEMMA LeadsDrop ==
    ASSUME NEW b \in SomeBuild, NEW c \in Who, NEW s, Started(b, c, s),
           NEW C \in SUBSET Caps, NEW id \in {"caller", "db"}
    PROVE  Leads(b, c, C, s, Drop(C, id))
<1> DEFINE x == <<"drop", C, id>>
           u == IF id = "caller" THEN c ELSE id
           t == Drops(b, s, C, u)
<1>1. x \in Calls /\ s \in Rights
  BY DEF Calls, Started
<1>2. Does(b, c, x, s, t)
  BY DEF Does, Started, SomeBuild
<1>3. u \in Who
  BY DEF Who
<1>4. t \in Rights /\ Ready(b, c, C, t)
  BY <1>1, <1>3 DEF Drops, Started, Rights, Who, Ready, Calm, SomeBuild
<1>5. Work \in Calls /\ Does(b, c, Work, t, t)
  BY <1>4, WorkDoes DEF Ready
<1>6. Path(b, c, <<x, Work>>, s, t)
  BY <1>1, <1>2, <1>4, <1>5, PathTwo
<1> QED BY <1>4, <1>6 DEF Leads, Drop

LEMMA LeadsOn ==
    ASSUME NEW b, NEW c, NEW C, NEW s, NEW q, NEW r, Leads(b, c, C, s, q), Block(b, c, C, r)
    PROVE  Leads(b, c, C, s, q \o r)
<1>1. PICK t \in Rights : Ready(b, c, C, t) /\ Path(b, c, q, s, t)
  BY DEF Leads
<1>2. PICK u \in Rights : Ready(b, c, C, u) /\ Path(b, c, r, t, u)
  BY <1>1 DEF Block
<1> QED BY <1>1, <1>2, PathBoth DEF Leads

LEMMA LeadsRelease ==
    ASSUME NEW b \in SomeBuild, NEW c \in Who, NEW s, Started(b, c, s)
    PROVE  Leads(b, c, AllocateCaps, s, Release)
<1> DEFINE C == AllocateCaps
           r1 == Drop(C, "db")
           r2 == r1 \o Construct
           r3 == r2 \o WriteDb
           r4 == r3 \o RenameCalls
           move == Raised("DAC", <<"try", "dir rename", {"DAC"}>>)
<1>1. C \in SUBSET Caps /\ {"DAC", "FOWNER", "CHOWN"} \subseteq C
  BY DEF AllocateCaps, Caps
<1>2. <<"DAC", "dir rename">> \in Enough
  BY DEF Enough
<1>3. Block(b, c, C, Construct) /\ Block(b, c, C, WriteDb) /\ Block(b, c, C, RenameCalls)
  BY <1>1, BlockConstruct, BlockWriteDb, BlockRename
<1>4. Block(b, c, C, move) /\ Block(b, c, C, <<Work>>)
  BY <1>1, <1>2, BlockTry, BlockWork
<1> HIDE DEF C
<1>5. Leads(b, c, C, s, r1)
  BY <1>1, LeadsDrop
<1>6. Leads(b, c, C, s, r3)
  BY <1>3, <1>5, LeadsOn
<1>7. Leads(b, c, C, s, (r4 \o move) \o <<Work>>)
  BY <1>3, <1>4, <1>6, LeadsOn
<1> QED BY <1>7, Zenon DEF Release, RenameCalls, C

LEMMA ProgramPath ==
    ASSUME NEW b \in SomeBuild, NEW c \in Who, NEW s, Started(b, c, s), NEW p \in DOMAIN Program
    PROVE  \E t \in Rights : Calm(c, t) /\ Path(b, c, Program[p], s, t)
<1> DEFINE A == AllocateCaps
           R == {"DAC", "READ"}
<1>1. A \in SUBSET Caps /\ {"DAC", "FOWNER", "CHOWN"} \subseteq A
      /\ R \in SUBSET Caps /\ {"DAC", "READ"} \subseteq R
  BY DEF AllocateCaps, Caps
<1>2. \A C \in SUBSET Caps : \A r : Leads(b, c, C, s, r) =>
          \E t \in Rights : Calm(c, t) /\ Path(b, c, r, s, t)
  BY DEF Leads, Ready
<1>3. /\ Block(b, c, A, Construct) /\ Block(b, c, A, WriteDb) /\ Block(b, c, A, <<Work>>)
      /\ Block(b, c, A, WipeCalls)
  BY <1>1, BlockConstruct, BlockWriteDb, BlockWork, BlockWipe
<1>4. Leads(b, c, A, s, Drop(A, "caller") \o Construct)
  BY <1>1, <1>3, LeadsDrop, LeadsOn
<1>5. CASE p = "extend"
  <2>1. Leads(b, c, A, s, (Drop(A, "caller") \o Construct) \o WriteDb)
    BY <1>3, <1>4, LeadsOn
  <2>2. Program[p] = (Drop(A, "caller") \o Construct) \o WriteDb
    BY <1>5 DEF Program
  <2> QED BY <1>1, <1>2, <2>1, <2>2
<1>6. CASE p = "allocate"
  <2> DEFINE make  == Raised("DAC", <<"try", "dir make", {"DAC"}>>)
             chown == Raised("CHOWN", <<"try", "dir chown", {"CHOWN"}>>)
             chmod == Raised("FOWNER", <<"try", "dir chmod", {"FOWNER"}>>)
             start == Drop(A, "caller") \o Construct
  <2>1. {<<"DAC", "dir make">>, <<"CHOWN", "dir chown">>,
         <<"FOWNER", "dir chmod">>} \subseteq Enough
    BY DEF Enough
  <2>2. Block(b, c, A, make) /\ Block(b, c, A, chown) /\ Block(b, c, A, chmod)
    BY <1>1, <2>1, BlockTry
  <2>3. Program[p] = ((((start \o make) \o chown) \o chmod) \o <<Work>>) \o WriteDb
    BY <1>6 DEF Program
  <2> HIDE DEF make, chown, chmod, start
  <2>4. Leads(b, c, A, s, start)
    BY <1>4 DEF start
  <2>5. Leads(b, c, A, s, ((start \o make) \o chown) \o chmod)
    BY <2>2, <2>4, LeadsOn
  <2>6. Leads(b, c, A, s, ((((start \o make) \o chown) \o chmod) \o <<Work>>) \o WriteDb)
    BY <1>3, <2>5, LeadsOn
  <2> QED BY <1>1, <1>2, <2>3, <2>6
<1>7. CASE p = "release"
  <2>1. Program[p] = Release
    BY <1>7 DEF Program
  <2> QED BY <1>1, <1>2, <2>1, LeadsRelease
<1>8. CASE p = "wipe"
  <2>1. Leads(b, c, A, s, Release \o WipeCalls)
    BY <1>3, LeadsRelease, LeadsOn
  <2>2. Program[p] = Release \o WipeCalls
    BY <1>8 DEF Program, WipeCalls
  <2> QED BY <1>1, <1>2, <2>1, <2>2
<1>9. CASE p = "restore"
  <2>1. Block(b, c, R, Construct) /\ Block(b, c, R, RestoreCalls)
    BY <1>1, BlockConstruct, BlockRestore
  <2>2. Program[p] = (Drop(R, "db") \o Construct) \o RestoreCalls
    BY <1>9 DEF Program, RestoreCalls
  <2> HIDE DEF R
  <2>3. Leads(b, c, R, s, (Drop(R, "db") \o Construct) \o RestoreCalls)
    BY <1>1, <2>1, LeadsDrop, LeadsOn
  <2> QED BY <1>1, <1>2, <2>2, <2>3
<1> QED BY <1>5, <1>6, <1>7, <1>8, <1>9 DEF Program

-----------------------------------------------------------------------------
(* After a failure: the capabilities are lowered in some order             *)

LEMMA SetToSeqRange ==
    ASSUME NEW S, IsFiniteSet(S)
    PROVE  /\ SetToSeq(S) \in Seq(S)
           /\ \A x \in S : \E i \in 1 .. Len(SetToSeq(S)) : SetToSeq(S)[i] = x
<1> DEFINE n == Cardinality(S)
           q == SetToSeq(S)
<1>1. n \in Nat /\ ExistsBijection(1 .. n, S)
  BY FS_CardinalityType
<1>2. \E f \in [1 .. n -> S] : IsInjective(f)
  BY <1>1, Zenon DEF ExistsBijection, Bijection, Injection
<1>3. q \in [1 .. n -> S] /\ IsInjective(q)
  BY <1>2, Zenon DEF SetToSeq
<1>4. IsFiniteSet(1 .. n) /\ Cardinality(1 .. n) = n
  BY <1>1, FS_Interval
<1>5. q \in Injection(1 .. n, S)
  BY <1>3, Zenon DEF Injection
<1>6. q \in Surjection(1 .. n, S)
  BY <1>4, <1>5, FS_Injection
<1>7. \A x \in S : \E i \in 1 .. n : q[i] = x
  BY <1>6, Zenon DEF Surjection
<1>8. q \in Seq(S) /\ Len(q) = n
  BY <1>1, <1>3
<1> HIDE DEF q
<1> QED BY <1>7, <1>8 DEF q

LEMMA LowersFinite == ASSUME NEW C \in SUBSET Caps PROVE IsFiniteSet({Lower(k) : k \in C})
<1>1. IsFiniteSet({})
  BY FS_EmptySet
<1>2. IsFiniteSet({} \cup {Lower("DAC")})
  BY <1>1, FS_AddElement
<1>3. IsFiniteSet(({} \cup {Lower("DAC")}) \cup {Lower("READ")})
  BY <1>2, FS_AddElement
<1>4. IsFiniteSet((({} \cup {Lower("DAC")}) \cup {Lower("READ")}) \cup {Lower("CHOWN")})
  BY <1>3, FS_AddElement
<1> DEFINE All == ((({} \cup {Lower("DAC")}) \cup {Lower("READ")}) \cup {Lower("CHOWN")})
                     \cup {Lower("FOWNER")}
<1>5. IsFiniteSet(All)
  BY <1>4, FS_AddElement
<1>6. {Lower(k) : k \in C} \subseteq All
  BY DEF Caps
<1> HIDE DEF All
<1> QED BY <1>5, <1>6, FS_Subset

LEMMA LoweringPath ==
    ASSUME NEW b \in SomeBuild, NEW c \in Who, NEW s \in Rights,
           NEW C \in CapSets, MayLower(b, c, s, C)
    PROVE  \E t \in Rights :
               Calm(c, t) /\ Path(b, c, SetToSeq({Lower(k) : k \in C}) \o <<Work>>, s, t)
<1> DEFINE S == {Lower(k) : k \in C}
           q == SetToSeq(S)
<1>0. C \in SUBSET Caps /\ C # {}
  BY DEF CapSets
<1>1. /\ q \in Seq(S)
      /\ \A x \in S : \E i \in 1 .. Len(q) : q[i] = x
  BY <1>0, LowersFinite, SetToSeqRange
<1>2. S \subseteq Calls /\ S # {}
  <2>1. \A k \in Caps : Lower(k) \in Calls
    BY DEF Lower, Calls
  <2>2. PICK k \in Caps : k \in C
    BY <1>0
  <2> QED BY <1>0, <2>1, <2>2
<1> HIDE DEF q
<1>3. /\ Len(q) \in Nat /\ q \in Seq(Calls)
      /\ \A i \in 1 .. Len(q) : \E k \in C : q[i] = Lower(k)
      /\ \A k \in C : \E i \in 1 .. Len(q) : q[i] = Lower(k)
  BY <1>0, <1>1, <1>2
<1> HIDE DEF S
<1> DEFINE left(i) == {k \in s.eff : \A j \in 1 .. i - 1 : q[j] # Lower(k)}
           at(i) == IF b = "cap" THEN [s EXCEPT !.eff = left(i)]
                    ELSE IF i = 1 THEN s ELSE [s EXCEPT !.uid = "db"]
           trace == [i \in 1 .. Len(q) + 1 |-> at(i)]
<1>4. \A i \in 1 .. Len(q) + 1 : at(i) \in Rights
  <2>1. \A i \in 1 .. Len(q) + 1 : left(i) \in SUBSET Caps
    BY DEF Rights
  <2> HIDE DEF left
  <2> QED BY <2>1 DEF Rights, Who
<1>5. at(1) = s
  <2>1. left(1) = s.eff
    BY DEF Rights
  <2> QED BY <2>1 DEF Rights
<1>6. ASSUME NEW i \in 1 .. Len(q)
      PROVE  Does(b, c, q[i], at(i), at(i + 1))
  <2>1. PICK k \in C : q[i] = Lower(k)
    BY <1>3
  <2>2. left(i + 1) = left(i) \ {k}
    <3>1. \A j \in 1 .. (i + 1) - 1 : j \in 1 .. i - 1 \/ j = i
      BY <1>3
    <3>2. \A m : q[i] # Lower(m) <=> m # k
      BY <2>1 DEF Lower
    <3>3. 1 .. i - 1 \subseteq 1 .. (i + 1) - 1 /\ i \in 1 .. (i + 1) - 1
      BY <1>3
    <3> QED BY <3>1, <3>2, <3>3
  <2>3. at(i + 1) = Down(b, at(i), k)
    <3> HIDE DEF left
    <3>1. i + 1 # 1
      BY <1>3
    <3> QED BY <2>2, <3>1 DEF Down, Rights
  <2>4. b = "setuid" => at(i).uid \in {"root", "db"}
    BY DEF MayLower, Rights
  <2> HIDE DEF at
  <2> QED BY <2>1, <2>3, <2>4 DEF Does, Lower
<1>7. Calm(c, at(Len(q) + 1))
  <2>1. CASE b = "cap"
    <3>1. left(Len(q) + 1) = {}
      <4>1. (Len(q) + 1) - 1 = Len(q)
        BY <1>3
      <4> QED BY <1>3, <2>1, <4>1 DEF MayLower
    <3> HIDE DEF left
    <3> QED BY <2>1, <3>1 DEF Calm, MayLower, Rights
  <2>2. CASE b = "setuid"
    <3>1. Len(q) + 1 # 1
      BY <1>1, <1>2, <1>3 DEF S
    <3> QED BY <2>2, <3>1 DEF Calm, MayLower, Rights
  <2> QED BY <2>1, <2>2 DEF SomeBuild
<1> HIDE DEF at
<1>8. Path(b, c, q, s, at(Len(q) + 1))
  <2>1. trace \in [1 .. Len(q) + 1 -> Rights] /\ trace[1] = s
        /\ trace[Len(q) + 1] = at(Len(q) + 1)
    BY <1>3, <1>4, <1>5
  <2>2. ASSUME NEW i \in 1 .. Len(q)
        PROVE  Does(b, c, q[i], trace[i], trace[i + 1])
    <3>1. trace[i] = at(i) /\ trace[i + 1] = at(i + 1)
      BY <1>3
    <3> QED BY <3>1, <1>6
  <2> HIDE DEF trace
  <2> QED BY <1>3, <2>1, <2>2 DEF Path
<1>9. at(Len(q) + 1) \in Rights
  BY <1>3, <1>4
<1>10. Path(b, c, <<Work>>, at(Len(q) + 1), at(Len(q) + 1))
  BY <1>7, <1>9, WorkDoes, PathOne
<1>11. Path(b, c, q \o <<Work>>, s, at(Len(q) + 1))
  BY <1>8, <1>10, PathBoth
<1> QED BY <1>7, <1>9, <1>11 DEF q, S

-----------------------------------------------------------------------------
(* The invariant: the calls that are left can all be made, and end with    *)
(* nothing raised.                                                         *)

Here == [uid |-> euid, gid |-> egid, perm |-> permitted, eff |-> effective]

CanFinish == \E t \in Rights : Calm(caller, t) /\ Path(build, caller, rest, Here, t)

PrivilegeInv ==
    /\ build \in Builds /\ caller \in Callers
    /\ Here \in Rights
    /\ ~refused
    /\ CanFinish

LEMMA Known == Builds \subseteq SomeBuild /\ Callers \subseteq Who
BY PrivilegeAssumption DEF SomeBuild, Who

LEMMA PrivilegeInit == Init => PrivilegeInv
<1> SUFFICES ASSUME Init PROVE PrivilegeInv
  OBVIOUS
<1>1. build \in SomeBuild /\ caller \in Who
  BY Known DEF Init
<1>2. Started(build, caller, Here)
  BY <1>1 DEF Init, Started, Here, Rights, Who, Caps
<1>3. tool \in DOMAIN Program /\ rest = Program[tool]
  BY DEF Init
<1>4. CanFinish
  BY <1>1, <1>2, <1>3, ProgramPath DEF CanFinish
<1> QED BY <1>2, <1>4 DEF Init, PrivilegeInv, Started

\* The invariant tells what the next call finds.
LEMMA NextCall ==
    ASSUME PrivilegeInv, rest # <<>>
    PROVE  /\ build \in SomeBuild /\ caller \in Who /\ Here \in Rights /\ Step \in Calls
           /\ rest \in Seq(Calls)
           /\ \E u, t \in Rights : /\ Does(build, caller, Step, Here, u)
                                   /\ Path(build, caller, Tail(rest), u, t)
                                   /\ Calm(caller, t)
<1>1. build \in SomeBuild /\ caller \in Who /\ Here \in Rights
  BY Known DEF PrivilegeInv
<1>2. PICK t \in Rights : Calm(caller, t) /\ Path(build, caller, rest, Here, t)
  BY DEF PrivilegeInv, CanFinish
<1>3. /\ rest \in Seq(Calls) /\ Step \in Calls
      /\ \E u \in Rights : /\ Does(build, caller, Step, Here, u)
                           /\ Path(build, caller, Tail(rest), u, t)
  BY <1>2, PathTail, Zenon DEF Step
<1> QED BY <1>1, <1>2, <1>3

\* A call that has the effect u foreseen for it keeps the invariant.
LEMMA CallMade ==
    ASSUME PrivilegeInv, NEW u \in Rights, NEW t \in Rights,
           Path(build, caller, Tail(rest), u, t), Calm(caller, t),
           rest' = Tail(rest), Here' = u, UNCHANGED <<build, caller, refused>>
    PROVE  PrivilegeInv'
BY DEF PrivilegeInv, CanFinish

LEMMA SameRights ==
    \A s, t \in Rights :
        s.uid = t.uid /\ s.gid = t.gid /\ s.perm = t.perm /\ s.eff = t.eff => s = t
BY DEF Rights

LEMMA PrivilegeStep == PrivilegeInv /\ [Next]_vars => PrivilegeInv'
<1> SUFFICES ASSUME PrivilegeInv, [Next]_vars PROVE PrivilegeInv'
  OBVIOUS
<1>1. CASE UNCHANGED vars
  BY <1>1 DEF vars, PrivilegeInv, CanFinish, Here
<1>2. CASE Next
  <2>1. rest # <<>>
    BY <1>2 DEF Next, DropCaps, RaiseCap, LowerCap, BecomeDb, BecomeRoot, BecomeCaller,
                ChangeOwner, Operate, Proceed
  <2>2. /\ build \in SomeBuild /\ caller \in Who /\ Here \in Rights /\ Step \in Calls
        /\ rest \in Seq(Calls)
    BY <2>1, NextCall
  <2>3. PICK u \in Rights, t \in Rights :
            /\ Does(build, caller, Step, Here, u)
            /\ Path(build, caller, Tail(rest), u, t)
            /\ Calm(caller, t)
    BY <2>1, NextCall
  <2>4. Here.uid = euid /\ Here.gid = egid /\ Here.perm = permitted /\ Here.eff = effective
    BY DEF Here
  <2>5. CASE DropCaps
    <3>1. Step[1] = "drop"
      BY <2>5 DEF DropCaps
    <3> DEFINE id == IF Step[3] = "caller" THEN caller ELSE Step[3]
    <3>2. /\ IF build = "cap" THEN Step[2] \subseteq permitted ELSE euid = "root"
          /\ u = Drops(build, Here, Step[2], id)
      BY <2>3, <2>4, <3>1 DEF Does
    <3>3. rest' = Tail(rest) /\ UNCHANGED <<build, caller, refused>>
      BY <2>5, <3>2 DEF DropCaps, Change, UidAllowed
    <3>4. Here' = u
      BY <2>5, <3>2 DEF DropCaps, Change, UidAllowed, Drops, Here
    <3> QED BY <2>3, <3>3, <3>4, CallMade
  <2>6. CASE RaiseCap
    <3>1. Step[1] = "raise"
      BY <2>6 DEF RaiseCap
    <3>2. (build = "cap" => Step[2] \in permitted) /\ u = Up(build, Here, Step[2])
      BY <2>3, <2>4, <3>1 DEF Does
    <3>3. rest' = Tail(rest) /\ UNCHANGED <<build, caller, refused>>
      BY <2>6, <3>2 DEF RaiseCap, Change, UidAllowed
    <3>4. Here' = u
      BY <2>6, <3>2 DEF RaiseCap, Change, UidAllowed, Up, Here
    <3> QED BY <2>3, <3>3, <3>4, CallMade
  <2>7. CASE LowerCap
    <3>1. Step[1] = "lower"
      BY <2>7 DEF LowerCap
    <3>2. (build = "setuid" => euid \in {"root", "db"}) /\ u = Down(build, Here, Step[2])
      BY <2>3, <2>4, <3>1 DEF Does
    <3>3. rest' = Tail(rest) /\ UNCHANGED <<build, caller, refused>>
      BY <2>2, <2>7, <3>2 DEF LowerCap, Change, UidAllowed, SomeBuild
    <3>4. Here' = u
      BY <2>2, <2>7, <3>2 DEF LowerCap, Change, UidAllowed, SomeBuild, Down, Here
    <3> QED BY <2>3, <3>3, <3>4, CallMade
  <2>8. CASE BecomeDb
    <3>1. Step[1] = "db"
      BY <2>8 DEF BecomeDb
    <3>2. (build = "setuid" => euid = "root") /\ u = AsDb(build, Here)
      BY <2>3, <2>4, <3>1 DEF Does
    <3>3. rest' = Tail(rest) /\ UNCHANGED <<build, caller, refused>>
      BY <2>2, <2>8, <3>2 DEF BecomeDb, Change, Keep, UidAllowed, GidAllowed, SomeBuild
    <3>4. Here' = u
      BY <2>2, <2>8, <3>2 DEF BecomeDb, Change, Keep, UidAllowed, GidAllowed, SomeBuild, AsDb, Here
    <3> QED BY <2>3, <3>3, <3>4, CallMade
  <2>9. CASE BecomeRoot
    <3>1. Step[1] = "root"
      BY <2>9 DEF BecomeRoot
    <3>2. u = AsRoot(build, Here)
      BY <2>3, <3>1 DEF Does
    <3>3. rest' = Tail(rest) /\ UNCHANGED <<build, caller, refused>>
      BY <2>9 DEF BecomeRoot, Change, Keep, UidAllowed
    <3>4. Here' = u
      BY <2>9, <3>2 DEF BecomeRoot, Change, Keep, UidAllowed, AsRoot, Here
    <3> QED BY <2>3, <3>3, <3>4, CallMade
  <2>10. CASE BecomeCaller
    <3>1. Step[1] \in {"caller", "euid root"}
      BY <2>10 DEF BecomeCaller
    <3> DEFINE id == IF Step[1] = "caller" THEN caller ELSE "root"
    <3>2. u = AsUser(build, Here, id) /\ UidAllowed(id)
      BY <2>3, <2>4, <3>1 DEF Does, UidAllowed
    <3>3. rest' = Tail(rest) /\ UNCHANGED <<build, caller, refused>>
      BY <2>10, <3>2 DEF BecomeCaller, Change, Keep
    <3>4. Here' = u
      BY <2>10, <3>2 DEF BecomeCaller, Change, Keep, AsUser, Here
    <3> QED BY <2>3, <3>3, <3>4, CallMade
  <2>11. CASE ChangeOwner
    <3>1. Step[1] = "chown" /\ Here' = Here /\ UNCHANGED <<build, caller, refused>>
      BY <2>11 DEF ChangeOwner, Keep, Here
    <3>2. u = Here /\ (build = "cap" => "CHOWN" \in Here.perm /\ Here.eff = {})
      BY <2>3, <3>1 DEF Does
    <3>3. Path(build, caller, rest', Here, t)
      <4>1. CASE build = "cap"
        <5> DEFINE chown == Raised("CHOWN", Do("db chown"))
        <5>1. At(build, Here, Here, "db", {}) /\ "CHOWN" \in Caps /\ Do("db chown") \in Calls
          BY <2>2, <3>2, <4>1 DEF At, Caps, Do, Calls, Operations
        <5>2. ASSUME NEW v, At(build, Here, v, "root", {} \cup {"CHOWN"})
              PROVE  Does(build, caller, Do("db chown"), v, v)
          <6>1. <<"CHOWN", "db chown">> \in Enough
            BY DEF Enough
          <6> QED BY <2>2, <5>2, <6>1, RaisedEntitles, DoDoes
        <5>3. PICK v \in Rights : /\ At(build, Here, v, "db", ({} \cup {"CHOWN"}) \ {"CHOWN"})
                                  /\ Path(build, caller, chown, Here, v)
          BY <2>2, <3>2, <5>1, <5>2, RaisedPath
        <5>4. v = Here
          <6>1. ({} \cup {"CHOWN"}) \ {"CHOWN"} = {}
            OBVIOUS
          <6>2. v.uid = Here.uid /\ v.gid = Here.gid /\ v.perm = Here.perm /\ v.eff = Here.eff
            BY <3>2, <4>1, <5>3, <6>1 DEF At
          <6> QED BY <2>2, <6>2, SameRights
        <5>5. Path(build, caller, chown \o Tail(rest), Here, t)
          BY <2>3, <3>2, <5>3, <5>4, PathBoth
        <5> QED BY <2>11, <4>1, <5>5 DEF ChangeOwner
      <4>2. CASE build # "cap"
        <5>1. Tail(rest) \in Seq(Calls)
          BY <2>3 DEF Path
        <5>2. rest' = <<>> \o Tail(rest)
          BY <2>11, <4>2 DEF ChangeOwner
        <5>3. rest' = Tail(rest)
          BY <5>1, <5>2, ConcatEmptySeq
        <5> QED BY <2>3, <3>2, <5>3
      <4> QED BY <4>1, <4>2
    <3> QED BY <2>3, <3>1, <3>3 DEF PrivilegeInv, CanFinish
  <2>12. CASE Operate
    <3>1. Step[1] \in {"do", "try"} /\ Here' = Here /\ UNCHANGED <<build, caller, refused>>
      BY <2>12 DEF Operate, Keep, Here
    <3>2. CASE rest' = Tail(rest)
      <4>1. u = Here
        BY <2>3, <3>1 DEF Does
      <4> QED BY <2>3, <3>1, <3>2, <4>1, CallMade
    <3>3. CASE Step[1] = "try" /\ rest' = SetToSeq({Lower(c) : c \in Step[3]}) \o <<Work>>
      <4>1. Step[3] \in CapSets
        BY <2>3, <3>3 DEF Does
      <4>2. MayLower(build, caller, Here, Step[3])
        BY <2>3, <3>3 DEF Does
      <4>3. \E v \in Rights : Calm(caller, v) /\ Path(build, caller, rest', Here, v)
        BY <2>2, <3>3, <4>1, <4>2, LoweringPath
      <4> QED BY <3>1, <4>3 DEF PrivilegeInv, CanFinish
    <3> QED BY <2>12, <3>2, <3>3 DEF Operate
  <2>13. CASE Proceed
    <3>1. /\ Step[1] = "work" /\ Here' = Here /\ rest' = Tail(rest)
          /\ UNCHANGED <<build, caller, refused>>
      BY <2>13 DEF Proceed, Keep, Here, Work
    <3>2. u = Here
      BY <2>3, <3>1 DEF Does
    <3> QED BY <2>3, <3>1, <3>2, CallMade
  <2> QED BY <1>2, <2>5, <2>6, <2>7, <2>8, <2>9, <2>10, <2>11, <2>12, <2>13 DEF Next
<1> QED BY <1>1, <1>2

LEMMA PrivilegesKept == Spec => []PrivilegeInv
BY PrivilegeInit, PrivilegeStep, PTL DEF Spec

-----------------------------------------------------------------------------
(* The properties                                                          *)

\* No change of ids or capabilities fails, in either build and for every tool
\* and caller, and whatever operation fails: the order of the calls in caps.cpp
\* and in the blocks around the operations is one the system allows.
THEOREM AllowedChanges == Spec => []NeverRefused
<1>1. PrivilegeInv => NeverRefused
  BY DEF PrivilegeInv, NeverRefused
<1> QED BY <1>1, PrivilegesKept, PTL

\* At every end of a tool, and wherever it does work of its own, no capability
\* is effective and the process is the DB user or the caller: each raise_cap has
\* its lower_cap on every path through the code, that of a failure included.
THEOREM LoweredBetween == Spec => []NothingRaised
<1>1. ASSUME PrivilegeInv PROVE NothingRaised
  <2>1. CASE rest = <<>>
    <3>1. PICK t \in Rights : Calm(caller, t) /\ Path(build, caller, rest, Here, t)
      BY <1>1 DEF PrivilegeInv, CanFinish
    <3>2. Len(rest) = 0
      BY <2>1
    <3>3. t = Here
      BY <3>1, <3>2 DEF Path
    <3> QED BY <3>1, <3>3 DEF Calm, Here, NothingRaised
  <2>2. CASE rest # <<>> /\ Step = Work
    <3>1. PICK u \in Rights : Does(build, caller, Step, Here, u)
      BY <1>1, <2>2, NextCall
    <3>2. Step[1] = "work"
      BY <2>2 DEF Work
    <3>3. Calm(caller, Here)
      BY <3>1, <3>2 DEF Does
    <3> QED BY <3>3 DEF Calm, Here, NothingRaised
  <2> QED BY <2>1, <2>2 DEF NothingRaised
<1>2. PrivilegeInv => NothingRaised
  BY <1>1
<1> QED BY <1>2, PrivilegesKept, PTL

\* What the invariant demands of an operation is what Entitled says of it.
LEMMA EntitledHere ==
    ASSUME PrivilegeInv, rest # <<>>, Step[1] \in {"do", "try"}
    PROVE  \/ May(Step[2]) \/ (build = "cap" /\ Step[2] = "dir delete")
           \/ (Squashed /\ build = "setuid" /\ Step[2] = "db chmod")
<1>1. PICK u \in Rights : Does(build, caller, Step, Here, u)
  BY NextCall
<1>2. Step[2] \in Operations /\ Entitles(build, caller, Here, Step[2])
  BY <1>1 DEF Does
<1>3. build \in SomeBuild
  BY NextCall
<1>4. Here.uid = euid /\ Here.eff = effective
  BY DEF Here
<1> DEFINE x == Step[2]
<1> HIDE DEF x
<1>5. x \in Operations /\ Entitles(build, caller, Here, x)
  BY <1>2 DEF x
<1>6. \/ May(x) \/ (build = "cap" /\ x = "dir delete")
      \/ (Squashed /\ build = "setuid" /\ x = "db chmod")
  BY <1>3, <1>4, <1>5 DEF Entitles, May, InDb, OwnDb, Has, Operations, SomeBuild
<1> QED BY <1>6 DEF x

\* Every operation on the DB, on the spaces and on the data is made with the
\* rights it needs, unless the setuid tools work on a DB that squashes root.
THEOREM OperationsEntitled ==
    ASSUME Squashed => "setuid" \notin Builds
    PROVE  Spec => []Entitled
<1>1. PrivilegeInv => Entitled
  BY EntitledHere DEF Entitled, PrivilegeInv
<1> QED BY <1>1, PrivilegesKept, PTL

\* And there the change of the mode in write_dbfile is the only operation that
\* lacks a right: the entry is written, renamed and removed as the DB user.
THEOREM SquashedOnlyChmod ==
    Spec => [](rest # <<>> /\ Step[1] \in {"do", "try"} /\ Step[2] # "db chmod" =>
                   May(Step[2]) \/ (build = "cap" /\ Step[2] = "dir delete"))
<1>1. PrivilegeInv =>
          (rest # <<>> /\ Step[1] \in {"do", "try"} /\ Step[2] # "db chmod" =>
              May(Step[2]) \/ (build = "cap" /\ Step[2] = "dir delete"))
  BY EntitledHere
<1> QED BY <1>1, PrivilegesKept, PTL
=============================================================================
