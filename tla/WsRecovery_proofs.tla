------------------------- MODULE WsRecovery_proofs -------------------------
(***************************************************************************)
(* Proofs about WsLocations and WsRecovery, for any number of locations,   *)
(* any lists, limits and defaults, and any edits of ws.conf.  What depends *)
(* on how the administrator sets the lists has that as a hypothesis.       *)
(***************************************************************************)
EXTENDS WsRecovery, FiniteSetTheorems, TLAPS

USE LocationAssumption, RecoveryAssumption

-----------------------------------------------------------------------------
(* The first and the last location of a set                                *)

\* A finite set has an element with the least value: the sets of the elements
\* with smaller values cannot shrink forever.
LEMMA LeastExists ==
    ASSUME NEW S, IsFiniteSet(S), S # {}, NEW f \in [S -> Int]
    PROVE  \E x \in S : \A y \in S : f[x] <= f[y]
<1> DEFINE Below(x) == {y \in S : f[y] < f[x]}
           T == {A \in SUBSET S : \E x \in S : A = Below(x)}
<1>1. T \subseteq FiniteSubsetsOf(S) /\ T # {}
  <2>1. FiniteSubsetsOf(S) = SUBSET S
    BY FS_FiniteSubsetsOfFinite
  <2>2. PICK x \in S : TRUE
    OBVIOUS
  <2>3. Below(x) \in T /\ T \subseteq SUBSET S
    OBVIOUS
  <2> QED BY <2>1, <2>3
<1>2. IsWellFoundedOn(StrictSubsetOrdering(S), FiniteSubsetsOf(S))
  BY FS_StrictSubsetOrderingWellFounded
<1>3. PICK A \in T : \A B \in T : <<B, A>> \notin StrictSubsetOrdering(S)
  <2> HIDE DEF T
  <2> QED BY <1>1, <1>2, WFMin, Zenon
<1>4. PICK x \in S : A = Below(x)
  BY <1>3
<1>5. ASSUME NEW y \in S, ~(f[x] <= f[y]) PROVE FALSE
  <2>1. f[x] \in Int /\ f[y] \in Int /\ f[y] < f[x]
    BY <1>5
  <2>2. Below(y) \subseteq Below(x) /\ y \in Below(x) /\ y \notin Below(y)
    BY <2>1
  <2>3. <<Below(y), Below(x)>> \in StrictSubsetOrdering(S)
    BY <2>2 DEF StrictSubsetOrdering
  <2> QED BY <2>3, <1>3, <1>4
<1> QED BY <1>5

LEMMA MinIn ==
    ASSUME NEW S \in SUBSET Locations, S # {}
    PROVE  Min(S) \in S
<1> DEFINE f == [x \in S |-> x]
<1>1. IsFiniteSet(S) /\ f \in [S -> Int]
  <2>1. IsFiniteSet(Locations) /\ S \subseteq Nat
    OBVIOUS
  <2>2. IsFiniteSet(S)
    BY <2>1, FS_Subset
  <2> QED BY <2>1, <2>2
<1>2. PICK x \in S : \A y \in S : f[x] <= f[y]
  <2> HIDE DEF f
  <2> QED BY <1>1, LeastExists
<1> QED BY <1>2 DEF Min

LEMMA MaxIn ==
    ASSUME NEW S \in SUBSET Locations, S # {}
    PROVE  Max(S) \in S
<1> DEFINE f == [x \in S |-> -x]
<1>1. IsFiniteSet(S) /\ f \in [S -> Int]
  <2>1. IsFiniteSet(Locations) /\ S \subseteq Nat
    OBVIOUS
  <2>2. IsFiniteSet(S)
    BY <2>1, FS_Subset
  <2> QED BY <2>1, <2>2
<1>2. PICK x \in S : \A y \in S : f[x] <= f[y]
  <2> HIDE DEF f
  <2> QED BY <1>1, LeastExists
<1>3. \A y \in S : x >= y
  BY <1>2
<1> QED BY <1>3 DEF Max

-----------------------------------------------------------------------------
(* Which location is meant                                                 *)

\* What LocTypeOK says of ws.conf, and the administrator's choices.
Configured ==
    /\ \A l \in Locations : conf[l] \in Settings[l]
    /\ default \in Defaults

LEMMA PickIn ==
    ASSUME LocTypeOK, NEW L \in SUBSET Locations
    PROVE  /\ Pick(L) \in Locations \cup {None}
           /\ \/ Pick(L) = default
              \/ Pick(L) \in L /\ conf[Pick(L)].userDefault
              \/ Pick(L) \in L /\ conf[Pick(L)].groupDefault
<1> DEFINE users  == {l \in L : conf[l].userDefault}
           groups == {l \in L : conf[l].groupDefault}
<1>1. CASE users # {}
  <2>1. Max(users) \in users
    BY <1>1, MaxIn
  <2> QED BY <1>1, <2>1 DEF Pick
<1>2. CASE users = {} /\ groups # {}
  <2>1. Max(groups) \in groups
    BY <1>2, MaxIn
  <2> QED BY <1>2, <2>1 DEF Pick
<1>3. CASE users = {} /\ groups = {}
  BY <1>3 DEF Pick, LocTypeOK
<1> QED BY <1>1, <1>2, <1>3

LEMMA HomeIn ==
    ASSUME LocTypeOK, NEW f \in Given, NEW cmd
    PROVE  /\ Home(cmd, f) \in Locations \cup {None}
           /\ Admitted(cmd, f) => Home(cmd, f) \in Locations
<1>1. Home(cmd, f) \in Locations \cup {None}
  BY PickIn DEF Home
<1>2. f # None => Home(cmd, f) = f
  BY DEF Home
<1> QED BY <1>1, <1>2 DEF Admitted

LEMMA SearchIn ==
    ASSUME NEW f \in Given, NEW cmd
    PROVE  Search(cmd, f) \subseteq Locations
BY DEF Search

\* The first location in the order of the search has the workspace.
LEMMA FirstIn ==
    ASSUME LocTypeOK, NEW f \in Given, NEW cmd, Hits(cmd, f) # {}
    PROVE  First(cmd, f) \in Hits(cmd, f)
<1> DEFINE H == Hits(cmd, f)
           rank == [l \in H |-> Rank(cmd, f, l)]
<1>1. H \subseteq Locations /\ H \subseteq Search(cmd, f)
  BY SearchIn DEF Hits
<1>2. Min(Search(cmd, f)) \in Locations
  BY <1>1, SearchIn, MinIn
<1>3. ASSUME NEW l \in H PROVE Rank(cmd, f, l) \in Int
  BY <1>1, <1>2, <1>3, SearchIn DEF Rank
<1>4. IsFiniteSet(H) /\ rank \in [H -> Int]
  <2>1. IsFiniteSet(Locations) /\ H \in SUBSET Locations
    BY <1>1
  <2> QED BY <2>1, <1>3, FS_Subset
<1>5. PICK l \in H : \A m \in H : rank[l] <= rank[m]
  <2> HIDE DEF rank, H
  <2> QED BY <1>4, LeastExists DEF H
<1>6. \A m \in H : Rank(cmd, f, l) <= Rank(cmd, f, m)
  BY <1>5
<1> QED BY <1>6 DEF First

LEMMA ColleagueHomeIn ==
    ASSUME LocTypeOK
    PROVE  ColleagueHome \in Locations \cup {None}
<1> DEFINE groups == {l \in Locations : conf[l].groupDefault}
<1>1. CASE groups # {}
  BY <1>1, MaxIn DEF ColleagueHome
<1>2. CASE groups = {}
  BY <1>2 DEF ColleagueHome, LocTypeOK
<1> QED BY <1>1, <1>2

LEMMA ColleagueLooksIn ==
    ASSUME LocTypeOK, NEW f \in Given, ColleagueSearch(f) # {}
    PROVE  ColleagueLooks(f) \in Locations
<1>1. ColleagueSearch(f) \subseteq Locations
  BY DEF ColleagueSearch
<1>2. Min(ColleagueSearch(f)) \in Locations
  BY <1>1, MinIn
<1> QED BY <1>1, <1>2 DEF ColleagueLooks

-----------------------------------------------------------------------------
(* What the calls do to the workspace                                      *)

\* The workspace of location l gets the life new, which its location allows or
\* which is not longer than the one it had.
Prolonged(l, new) ==
    /\ entry[l] # None
    /\ entry[l].ext >= Cost(entry[l], new)
    /\ new <= entry[l].left \/ new <= conf[l].limit
    /\ entry' = [entry EXCEPT ![l] = [dir |-> entry[l].dir, left |-> new,
                                      ext |-> entry[l].ext - Cost(entry[l], new)]]

LEMMA ClampIn ==
    ASSUME LocTypeOK, NEW l \in Locations, NEW days \in Nat
    PROVE  Clamp(days, l) \in Nat /\ Clamp(days, l) <= conf[l].limit
BY DEF Clamp, LocTypeOK, Setting

LEMMA CostIn ==
    ASSUME LocTypeOK, NEW l \in Locations, entry[l] # None, NEW left \in Nat
    PROVE  Cost(entry[l], left) \in {0, 1}
BY DEF Cost

\* Any prolongation keeps the place and gains no extensions.
LEMMA ProlongedIn ==
    ASSUME LocTypeOK, NEW l \in Locations, NEW new \in Nat, Prolonged(l, new)
    PROVE  /\ entry' \in [Locations -> Workspace \cup {None}]
           /\ \A m \in Locations : m # l => entry'[m] = entry[m]
           /\ entry[l] \in Workspace /\ entry'[l] \in Workspace
           /\ entry'[l].dir = entry[l].dir
           /\ entry'[l].ext <= entry[l].ext
           /\ entry'[l].left = new
<1>1. entry[l] \in Workspace /\ Cost(entry[l], new) \in {0, 1}
  BY CostIn DEF Prolonged, LocTypeOK
<1>2. [dir |-> entry[l].dir, left |-> new,
       ext |-> entry[l].ext - Cost(entry[l], new)] \in Workspace
  BY <1>1 DEF Prolonged, Workspace
<1> QED BY <1>1, <1>2 DEF Prolonged, LocTypeOK, Workspace

\* Extending from an asked duration, as ws_allocate -x does for owner and colleague.
LEMMA AskedLife ==
    ASSUME LocTypeOK, NEW l \in Locations, NEW asked \in Nat, entry[l] # None,
           NEW new, new = IF asked = 0 THEN entry[l].left ELSE Clamp(asked, l),
           Extendable(l, new),
           entry' = [entry EXCEPT ![l].left = new, ![l].ext = @ - Cost(entry[l], new)]
    PROVE  new \in Nat /\ Prolonged(l, new)
<1>1. entry[l] \in Workspace
  BY DEF LocTypeOK
<1>2. new \in Nat /\ (new <= entry[l].left \/ new <= conf[l].limit)
  BY <1>1, ClampIn DEF Workspace
<1>3. entry' = [entry EXCEPT ![l] = [dir |-> entry[l].dir, left |-> new,
                                     ext |-> entry[l].ext - Cost(entry[l], new)]]
  <2> DEFINE e1 == [entry EXCEPT ![l].left = new]
             e2 == [e1 EXCEPT ![l].ext = @ - Cost(entry[l], new)]
             w  == [dir |-> entry[l].dir, left |-> new,
                    ext |-> entry[l].ext - Cost(entry[l], new)]
  <2>1. entry' = e2
    OBVIOUS
  <2>2. DOMAIN entry = Locations /\ DOMAIN entry[l] = {"dir", "left", "ext"}
    BY <1>1 DEF Workspace, LocTypeOK
  <2>3. /\ e1[l] = [entry[l] EXCEPT !.left = new]
        /\ e2[l] = [e1[l] EXCEPT !.ext = @ - Cost(entry[l], new)]
    BY <2>2
  <2>4. e2[l] = w
    BY <1>1, <2>3 DEF Workspace
  <2>5. \A m \in Locations : m # l => e2[m] = entry[m]
    BY <2>2
  <2>6. DOMAIN e2 = Locations
    BY <2>2
  <2>7. e2 = [m \in Locations |-> IF m = l THEN w ELSE entry[m]]
    BY <2>2, <2>4, <2>5, <2>6, Zenon
  <2>8. [entry EXCEPT ![l] = w] = [m \in Locations |-> IF m = l THEN w ELSE entry[m]]
    <3> HIDE DEF w
    <3> QED BY <2>2
  <2> QED BY <2>1, <2>7, <2>8
<1> QED BY <1>2, <1>3 DEF Prolonged, Extendable

LEMMA ReuseFinds ==
    ASSUME LocTypeOK, NEW f \in Given, Reuse(f)
    PROVE  \E l \in Locations :
              /\ l \in Search("allocate", f) /\ entry[l] # None
              /\ Called("allocate", l) /\ Prints(f, l, entry[l].dir)
              /\ UNCHANGED <<conf, default, entry, link>>
<1> DEFINE l == First("allocate", f)
<1>1. l \in Hits("allocate", f)
  BY FirstIn DEF Reuse
<1> QED BY <1>1, SearchIn DEF Reuse, Hits

LEMMA ExtendProlongs ==
    ASSUME LocTypeOK, NEW f \in Given, NEW days \in Days, Extend(f, days)
    PROVE  \E l \in Locations, new \in Nat :
              /\ l \in Search("extend", f)
              /\ Prolonged(l, new)
              /\ Called("extend", l) /\ Prints(f, l, entry[l].dir)
              /\ UNCHANGED <<conf, default, link>>
<1> DEFINE l == First("extend", f)
           asked == Clamp(days, Home("extend", f))
           new == IF asked = 0 THEN entry[l].left ELSE Clamp(asked, l)
<1>1. l \in Hits("extend", f)
  BY FirstIn DEF Extend
<1>2. l \in Locations /\ l \in Search("extend", f) /\ entry[l] # None
  BY <1>1, SearchIn DEF Hits
<1>3. asked \in Nat
  <2>1. Home("extend", f) \in Locations /\ days \in Nat
    BY HomeIn DEF Extend
  <2> QED BY <2>1, ClampIn
<1>4. /\ Extendable(l, new)
      /\ entry' = [entry EXCEPT ![l].left = new, ![l].ext = @ - Cost(entry[l], new)]
      /\ Called("extend", l) /\ Prints(f, l, entry[l].dir)
      /\ UNCHANGED <<conf, default, link>>
  BY DEF Extend
<1> HIDE DEF l, asked
<1>5. new \in Nat /\ Prolonged(l, new)
  BY <1>2, <1>3, <1>4, AskedLife
<1> QED BY <1>2, <1>4, <1>5

LEMMA ExtendForProlongs ==
    ASSUME LocTypeOK, NEW f \in Given, NEW days \in Days, ExtendFor(f, days)
    PROVE  \E l \in Locations, new \in Nat :
              /\ Prolonged(l, new)
              /\ Called("extend for", l)
              /\ UNCHANGED <<conf, default, link, printed>>
<1> DEFINE l == ColleagueLooks(f)
           home == IF f # None THEN f ELSE ColleagueHome
           asked == Clamp(days, home)
           new == IF asked = 0 THEN entry[l].left ELSE Clamp(asked, l)
<1>1. /\ IF f # None THEN ColleagueMay(f) ELSE ColleagueHome # None
      /\ ColleagueSearch(f) # {}
  BY DEF ExtendFor
<1>2. l \in Locations /\ home \in Locations
  BY <1>1, ColleagueLooksIn, ColleagueHomeIn
<1>3. asked \in Nat
  <2>1. days \in Nat
    OBVIOUS
  <2> QED BY <1>2, <2>1, ClampIn
<1>4. /\ entry[l] # None /\ Extendable(l, new)
      /\ entry' = [entry EXCEPT ![l].left = new, ![l].ext = @ - Cost(entry[l], new)]
      /\ Called("extend for", l)
      /\ UNCHANGED <<conf, default, link, printed>>
  BY DEF ExtendFor
<1> HIDE DEF l, asked
<1>5. new \in Nat /\ Prolonged(l, new)
  BY <1>2, <1>3, <1>4, AskedLife
<1> QED BY <1>2, <1>4, <1>5

\* A call of the user that creates: the workspace w, made in the location l.
Made(cmd, f, l, w) ==
    /\ l = Home(cmd, f) /\ Hits(cmd, f) = {}
    /\ w.left <= conf[l].limit
    /\ entry' = [entry EXCEPT ![l] = w]
    /\ Called(cmd, l) /\ Prints(f, l, w.dir)
    /\ UNCHANGED <<conf, default, link>>

LEMMA CreateMakes ==
    ASSUME LocTypeOK, NEW f \in Given, NEW days \in Days, NEW s \in Spaces,
           NEW cmd \in {"allocate", "extend"}, Create(cmd, f, days, s)
    PROVE  \E l \in Locations, w \in Workspace : Made(cmd, f, l, w)
<1> DEFINE l == Home(cmd, f)
           w == [dir |-> [name |-> Me, space |-> s], left |-> Clamp(days, l),
                 ext |-> conf[l].extensions]
<1>1. l \in Locations
  BY HomeIn DEF Create
<1>2. Clamp(days, l) \in Nat /\ Clamp(days, l) <= conf[l].limit
  <2>1. days \in Nat
    OBVIOUS
  <2> QED BY <1>1, <2>1, ClampIn
<1>3. w \in Workspace
  BY <1>1, <1>2 DEF LocTypeOK, Setting, Workspace, Dirs
<1>4. /\ Hits(cmd, f) = {}
      /\ entry' = [entry EXCEPT ![l] = w]
      /\ Called(cmd, l) /\ Prints(f, l, w.dir)
      /\ UNCHANGED <<conf, default, link>>
  BY DEF Create
<1>5. w.left <= conf[l].limit
  BY <1>2
<1> HIDE DEF l, w
<1>6. Made(cmd, f, l, w)
  BY <1>4, <1>5 DEF Made, l
<1> QED BY <1>1, <1>3, <1>6

\* A colleague without a location writes the owner's entry anew.
LEMMA CreateForMakes ==
    ASSUME LocTypeOK, NEW f \in Given, NEW days \in Days, NEW s \in Spaces,
           CreateFor(f, days, s)
    PROVE  \E l \in Locations, w \in Workspace :
              /\ ColleagueSearch(f) = {}
              /\ w.left <= conf[l].limit
              /\ entry' = [entry EXCEPT ![l] = w]
              /\ Called("extend for", l)
              /\ UNCHANGED <<conf, default, link, printed>>
<1> DEFINE l == ColleagueHome
           w == [dir |-> [name |-> Colleague, space |-> s], left |-> Clamp(days, l),
                 ext |-> conf[l].extensions]
<1>1. l \in Locations
  BY ColleagueHomeIn DEF CreateFor
<1>2. Clamp(days, l) \in Nat /\ Clamp(days, l) <= conf[l].limit
  <2>1. days \in Nat
    OBVIOUS
  <2> QED BY <1>1, <2>1, ClampIn
<1>3. w \in Workspace
  BY <1>1, <1>2 DEF LocTypeOK, Setting, Workspace, Dirs
<1>4. /\ ColleagueSearch(f) = {}
      /\ entry' = [entry EXCEPT ![l] = w]
      /\ Called("extend for", l)
      /\ UNCHANGED <<conf, default, link, printed>>
  BY DEF CreateFor
<1>5. w.left <= conf[l].limit
  BY <1>2
<1> HIDE DEF l, w
<1> QED BY <1>1, <1>3, <1>4, <1>5

-----------------------------------------------------------------------------
(* Types                                                                   *)

LEMMA CalledIn ==
    ASSUME NEW cmd \in Commands, NEW l \in Locations \cup {None}, Called(cmd, l)
    PROVE  last' \in [cmd : Commands, at : Locations \cup {None}]
BY DEF Called

LEMMA PrintsIn ==
    ASSUME LocTypeOK, NEW f, NEW l \in Locations, NEW dir \in Dirs,
           Prints(f, l, dir)
    PROVE  printed' \in (Locations \X Dirs) \cup {None}
BY DEF Prints, LocTypeOK

LEMMA DirIn ==
    ASSUME LocTypeOK, NEW l \in Locations, entry[l] # None
    PROVE  entry[l].dir \in Dirs /\ entry[l].dir # None /\ entry[l].dir.space \in Spaces
BY NoneAssumption DEF LocTypeOK, Workspace, Dirs

\* The calls of ws_allocate keep the types.
LEMMA AllocateTyped ==
    ASSUME LocTypeOK, NEW f \in Given,
           \/ Reuse(f)
           \/ \E days \in Days : \/ Extend(f, days)
                                 \/ ExtendFor(f, days)
                                 \/ \E s \in Spaces :
                                       \/ \E cmd \in {"allocate", "extend"} :
                                             Create(cmd, f, days, s)
                                       \/ CreateFor(f, days, s)
    PROVE  LocTypeOK'
<1>1. CASE Reuse(f)
  <2>1. PICK l \in Locations :
           /\ entry[l] # None
           /\ Called("allocate", l) /\ Prints(f, l, entry[l].dir)
           /\ UNCHANGED <<conf, default, entry, link>>
    BY <1>1, ReuseFinds
  <2>2. printed' \in (Locations \X Dirs) \cup {None}
    BY <2>1, PrintsIn, DirIn
  <2> QED BY <2>1, <2>2, CalledIn DEF LocTypeOK, Commands
<1>2. ASSUME NEW days \in Days, Extend(f, days) PROVE LocTypeOK'
  <2>1. PICK l \in Locations, new \in Nat :
           /\ Prolonged(l, new)
           /\ Called("extend", l) /\ Prints(f, l, entry[l].dir)
           /\ UNCHANGED <<conf, default, link>>
    BY <1>2, ExtendProlongs
  <2>2. entry' \in [Locations -> Workspace \cup {None}] /\ entry[l] # None
    BY <2>1, ProlongedIn DEF Prolonged
  <2>3. printed' \in (Locations \X Dirs) \cup {None}
    BY <2>1, <2>2, PrintsIn, DirIn
  <2> QED BY <2>1, <2>2, <2>3, CalledIn DEF LocTypeOK, Commands
<1>3. ASSUME NEW days \in Days, ExtendFor(f, days) PROVE LocTypeOK'
  <2>1. PICK l \in Locations, new \in Nat :
           /\ Prolonged(l, new)
           /\ Called("extend for", l)
           /\ UNCHANGED <<conf, default, link, printed>>
    BY <1>3, ExtendForProlongs
  <2>2. entry' \in [Locations -> Workspace \cup {None}]
    BY <2>1, ProlongedIn
  <2> QED BY <2>1, <2>2, CalledIn DEF LocTypeOK, Commands
<1>4. ASSUME NEW days \in Days, NEW s \in Spaces, NEW cmd \in {"allocate", "extend"},
             Create(cmd, f, days, s)
      PROVE  LocTypeOK'
  <2>1. PICK l \in Locations, w \in Workspace : Made(cmd, f, l, w)
    BY <1>4, CreateMakes
  <2> USE DEF Made
  <2>2. printed' \in (Locations \X Dirs) \cup {None}
    BY <2>1, PrintsIn DEF Workspace
  <2>3. cmd \in Commands
    BY DEF Commands
  <2>4. last' \in [cmd : Commands, at : Locations \cup {None}]
    BY <2>1, <2>3, CalledIn
  <2> QED BY <2>1, <2>2, <2>4 DEF LocTypeOK
<1>5. ASSUME NEW days \in Days, NEW s \in Spaces, CreateFor(f, days, s) PROVE LocTypeOK'
  <2>1. PICK l \in Locations, w \in Workspace :
           /\ entry' = [entry EXCEPT ![l] = w]
           /\ Called("extend for", l)
           /\ UNCHANGED <<conf, default, link, printed>>
    BY <1>5, CreateForMakes
  <2>2. last' \in [cmd : Commands, at : Locations \cup {None}]
    BY <2>1, CalledIn DEF Commands
  <2> QED BY <2>1, <2>2 DEF LocTypeOK
<1> QED BY <1>1, <1>2, <1>3, <1>4, <1>5

LEMMA EndTyped ==
    ASSUME LocTypeOK, NEW l \in Locations, NEW cmd \in Commands,
           NEW at \in Locations \cup {None},
           entry' = [entry EXCEPT ![l] = None], Called(cmd, at), Forget(l),
           UNCHANGED <<conf, default, link>>
    PROVE  LocTypeOK'
BY CalledIn DEF LocTypeOK, Forget

LEMMA EditTyped ==
    ASSUME LocTypeOK,
           \/ \E l \in Locations : \E setting \in Settings[l] : Reconfigure(l, setting)
           \/ \E l \in Defaults : ChangeDefault(l)
    PROVE  LocTypeOK'
<1>1. ASSUME NEW l \in Locations, NEW setting \in Settings[l], Reconfigure(l, setting)
      PROVE  LocTypeOK'
  <2>1. setting \in Setting
    OBVIOUS
  <2> QED BY <1>1, <2>1, CalledIn DEF Reconfigure, LocTypeOK, Commands
<1>2. ASSUME NEW l \in Defaults, ChangeDefault(l) PROVE LocTypeOK'
  BY <1>2, CalledIn DEF ChangeDefault, LocTypeOK, Commands
<1> QED BY <1>1, <1>2

LEMMA RegisterTyped ==
    ASSUME LocTypeOK, NEW f \in Given, Register(f)
    PROVE  LocTypeOK'
<1> DEFINE legal == {l \in Locations : FindMay(l) /\ f \in {None, l}}
           same(l) == link[l] # None /\ link[l].name = entry[l].dir.name
           new(l) == IF l \notin legal THEN link[l]
                     ELSE IF entry[l] = None THEN None
                     ELSE IF same(l) THEN link[l] ELSE entry[l].dir
<1>1. link' = [l \in Locations |-> new(l)]
  BY DEF Register
<1>2. ASSUME NEW l \in Locations PROVE new(l) \in Dirs \cup {None}
  <2> HIDE DEF legal, same
  <2>1. link[l] \in Dirs \cup {None} /\ (entry[l] # None => entry[l].dir \in Dirs)
    BY DirIn DEF LocTypeOK
  <2> QED BY <2>1
<1> HIDE DEF new
<1>3. link' \in [Locations -> Dirs \cup {None}]
  BY <1>1, <1>2
<1> QED BY <1>3, CalledIn DEF Register, LocTypeOK, Commands

LEMMA LocInitTyped == Init => LocTypeOK /\ Configured
BY DEF Init, LocTypeOK, Configured, Commands

LEMMA LocNextTyped == LocTypeOK /\ [Next]_vars => LocTypeOK'
<1> SUFFICES ASSUME LocTypeOK, [Next]_vars PROVE LocTypeOK'
  OBVIOUS
<1>1. CASE UNCHANGED vars
  BY <1>1 DEF vars, LocTypeOK
<1>2. ASSUME NEW f \in Given, Release(f) PROVE LocTypeOK'
  <2>1. Home("release", f) \in Locations
    BY <1>2, HomeIn DEF Release
  <2> QED BY <1>2, <2>1, EndTyped DEF Release, Commands
<1>3. ASSUME NEW l \in Locations, DayPasses(l) PROVE LocTypeOK'
  <2>1. entry[l] \in Workspace /\ entry[l].left > 0
    BY <1>3 DEF DayPasses, LocTypeOK
  <2>2. [entry[l] EXCEPT !.left = @ - 1] \in Workspace
    BY <2>1 DEF Workspace
  <2>3. entry' \in [Locations -> Workspace \cup {None}]
    BY <1>3, <2>2 DEF DayPasses, LocTypeOK
  <2> QED BY <1>3, <2>3, CalledIn DEF DayPasses, LocTypeOK, Commands
<1>4. ASSUME NEW l \in Locations, Expire(l) PROVE LocTypeOK'
  BY <1>4, EndTyped DEF Expire, Commands
<1> QED BY <1>1, <1>2, <1>3, <1>4, AllocateTyped, RegisterTyped, EditTyped DEF Next

\* Every reachable state of the locations, and of the user's links in them, is well
\* typed: in particular every call ends up in a location of ws.conf.
THEOREM LocTyped == Spec => []LocTypeOK
BY LocInitTyped, LocNextTyped, PTL DEF Spec

-----------------------------------------------------------------------------
\* No sequence of calls of the user and his colleagues gives a workspace a longer
\* life than the location it is in allows at that time.
THEOREM LimitKept == Spec => WithinLimit
<1>1. LocTypeOK /\ [Next]_vars =>
        [\A l \in Locations : entry[l] # None /\ entry'[l] # None =>
           \/ entry'[l].left <= entry[l].left
           \/ entry'[l].left <= conf[l].limit]_vars
  <2> SUFFICES ASSUME LocTypeOK, Next,
                       NEW m \in Locations, entry[m] # None, entry'[m] # None
               PROVE  entry'[m].left <= entry[m].left \/ entry'[m].left <= conf[m].limit
    OBVIOUS
  <2>1. entry[m] \in Workspace /\ entry[m].left \in Nat
    BY DEF LocTypeOK, Workspace
  <2>2. CASE UNCHANGED entry
    BY <2>1, <2>2
  <2>3. ASSUME NEW l \in Locations, NEW new \in Nat, Prolonged(l, new)
        PROVE  entry'[m].left <= entry[m].left \/ entry'[m].left <= conf[m].limit
    BY <2>1, <2>3, ProlongedIn DEF Prolonged
  <2>4. ASSUME NEW l \in Locations, entry' = [entry EXCEPT ![l] = None]
        PROVE  entry'[m].left <= entry[m].left \/ entry'[m].left <= conf[m].limit
    BY <2>1, <2>4 DEF LocTypeOK
  <2>5. ASSUME NEW l \in Locations, NEW w \in Workspace, w.left <= conf[l].limit,
               entry' = [entry EXCEPT ![l] = w]
        PROVE  entry'[m].left <= entry[m].left \/ entry'[m].left <= conf[m].limit
    BY <2>1, <2>5 DEF LocTypeOK
  <2>6. ASSUME NEW l \in Locations, DayPasses(l)
        PROVE  entry'[m].left <= entry[m].left \/ entry'[m].left <= conf[m].limit
    BY <2>1, <2>6 DEF DayPasses, LocTypeOK, Workspace
  <2>7. ASSUME NEW f \in Given, NEW days \in Days, Extend(f, days) \/ ExtendFor(f, days)
        PROVE  entry'[m].left <= entry[m].left \/ entry'[m].left <= conf[m].limit
    BY <2>3, <2>7, ExtendProlongs, ExtendForProlongs
  <2>8. ASSUME NEW f \in Given, NEW days \in Days, NEW s \in Spaces,
               NEW cmd \in {"allocate", "extend"}, Create(cmd, f, days, s)
        PROVE  entry'[m].left <= entry[m].left \/ entry'[m].left <= conf[m].limit
    BY <2>5, <2>8, CreateMakes DEF Made
  <2>10. ASSUME NEW f \in Given, NEW days \in Days, NEW s \in Spaces, CreateFor(f, days, s)
         PROVE  entry'[m].left <= entry[m].left \/ entry'[m].left <= conf[m].limit
    BY <2>5, <2>10, CreateForMakes
  <2>9. ASSUME NEW f \in Given, Release(f)
        PROVE  entry'[m].left <= entry[m].left \/ entry'[m].left <= conf[m].limit
    BY <2>4, <2>9, HomeIn DEF Release
  <2> QED BY <2>2, <2>4, <2>6, <2>7, <2>8, <2>9, <2>10
             DEF Next, Reuse, Register, Reconfigure, ChangeDefault, Expire
<1> QED BY <1>1, LocTyped, PTL DEF Spec, WithinLimit

-----------------------------------------------------------------------------
(* What the administrator may do to the lists                              *)

\* The lists of a section admit the user, as ws_allocate reads them.
Admits(s) == \/ Listed(s.userAcl) = {} /\ Listed(s.groupAcl) = {}
             \/ Me \in Listed(s.userAcl)
             \/ MyGroup \in Listed(s.groupAcl)

\* ... and they admit a colleague.
AdmitsColleague(s) == \/ Listed(s.userAcl) = {} /\ Listed(s.groupAcl) = {}
                      \/ MyGroup \in Listed(s.groupAcl)

\* A default admits the user: the user's, his group's, and the global one.
DefaultsAdmit ==
    \A l \in Locations : \A s \in Settings[l] :
        l \in Defaults \/ s.userDefault \/ s.groupDefault => Admits(s)

\* There is a location the user's colleagues may always use.
ColleaguesAdmitted == \E l \in Locations : \A s \in Settings[l] : AdmitsColleague(s)

\* No location opens or closes for the user while he works.
AccessFixed == \A l \in Locations : \A s, t \in Settings[l] : Admits(s) <=> Admits(t)

\* A list that is there is not empty.
ListsFilled == \A l \in Locations : \A s \in Settings[l] : s.userAcl # {} /\ s.groupAcl # {}

LEMMA MayAdmits == \A l \in Locations : May(l) <=> Admits(conf[l])
BY DEF May, Names, Admits

LEMMA FilledListsAgree ==
    ASSUME LocTypeOK, Configured, ListsFilled, NEW l \in Locations, May(l)
    PROVE  FindMay(l)
<1>1. conf[l] \in Settings[l] /\ conf[l].userAcl # {} /\ conf[l].groupAcl # {}
  BY DEF Configured, ListsFilled
<1> QED BY <1>1 DEF May, Names, FindMay, InGroup, Listed, MyGroup, MyGroups

\* A location ws_allocate picks admits the user.
LEMMA HomeAdmits ==
    ASSUME LocTypeOK, Configured, DefaultsAdmit, NEW f \in Given, NEW cmd, Admitted(cmd, f)
    PROVE  May(Home(cmd, f)) /\ Home(cmd, f) \in Search(cmd, f)
<1> DEFINE l == Home(cmd, f)
<1>1. l \in Locations
  BY HomeIn
<1>2. CASE f # None
  BY <1>2 DEF Admitted, Home, Search
<1>3. CASE f = None
  <2>1. \/ l = default
        \/ conf[l].userDefault
        \/ conf[l].groupDefault
    BY <1>3, PickIn DEF Home
  <2>2. conf[l] \in Settings[l] /\ (l = default => l \in Defaults)
    BY <1>1 DEF Configured
  <2>3. May(l)
    <3> HIDE DEF l
    <3> QED BY <1>1, <2>1, <2>2, MayAdmits DEF DefaultsAdmit
  <2> QED BY <1>1, <1>3, <2>3 DEF Search
<1> QED BY <1>2, <1>3

\* A search ends in a location that admits the user.
LEMMA SearchAdmits ==
    ASSUME NEW f \in Given, NEW cmd, Admitted(cmd, f), NEW l \in Search(cmd, f)
    PROVE  May(l)
BY DEF Search, Admitted

\* If the defaults admit the user, ws_allocate creates where there is nothing.
LEMMA CreateInFree ==
    ASSUME LocTypeOK, Configured, DefaultsAdmit, NEW f \in Given, NEW cmd,
           Admitted(cmd, f), Hits(cmd, f) = {}
    PROVE  entry[Home(cmd, f)] = None
BY HomeAdmits DEF Hits

\* A colleague who may use some location creates nothing in the owner's name.
LEMMA ColleagueCreatesNothing ==
    ASSUME LocTypeOK, Configured, ColleaguesAdmitted, NEW f \in Given, NEW days \in Days,
           NEW s \in Spaces
    PROVE  ~CreateFor(f, days, s)
<1>1. PICK l \in Locations : \A t \in Settings[l] : AdmitsColleague(t)
  BY DEF ColleaguesAdmitted
<1>2. ColleagueMay(l)
  BY <1>1 DEF Configured, AdmitsColleague, ColleagueMay
<1>3. ColleagueSearch(f) # {}
  BY <1>2 DEF ColleagueSearch
<1> QED BY <1>3 DEF CreateFor

LEMMA EditConfigured ==
    ASSUME LocTypeOK, Configured,
           \/ \E l \in Locations : \E setting \in Settings[l] : Reconfigure(l, setting)
           \/ \E l \in Defaults : ChangeDefault(l)
    PROVE  Configured'
BY DEF Configured, LocTypeOK, Reconfigure, ChangeDefault

LEMMA NextConfigured == LocTypeOK /\ Configured /\ [Next]_vars => Configured'
<1> SUFFICES ASSUME LocTypeOK, Configured, [Next]_vars PROVE Configured'
  OBVIOUS
<1>1. CASE UNCHANGED <<conf, default>>
  BY <1>1 DEF Configured
<1>2. CASE UNCHANGED vars
  BY <1>1, <1>2 DEF vars
<1>3. ASSUME NEW f \in Given, Reuse(f) \/ Release(f) \/ Register(f) PROVE Configured'
  BY <1>1, <1>3 DEF Reuse, Release, Register
<1>4. ASSUME NEW f \in Given, NEW days \in Days, Extend(f, days) \/ ExtendFor(f, days)
      PROVE  Configured'
  BY <1>1, <1>4 DEF Extend, ExtendFor
<1>5. ASSUME NEW f \in Given, NEW days \in Days, NEW s \in Spaces,
             NEW cmd \in {"allocate", "extend"}, Create(cmd, f, days, s)
      PROVE  Configured'
  BY <1>1, <1>5 DEF Create
<1>7. ASSUME NEW f \in Given, NEW days \in Days, NEW s \in Spaces, CreateFor(f, days, s)
      PROVE  Configured'
  BY <1>1, <1>7 DEF CreateFor
<1>6. ASSUME NEW l \in Locations, DayPasses(l) \/ Expire(l) PROVE Configured'
  BY <1>1, <1>6 DEF DayPasses, Expire
<1> QED
  BY <1>2, <1>3, <1>4, <1>5, <1>6, <1>7, EditConfigured DEF Next


-----------------------------------------------------------------------------
(* The path ws_allocate prints                                             *)

\* The user has one workspace, in a location that admits him, and the path that was
\* printed leads to it.
OnlyWorkspace ==
    /\ \A l \in Locations : entry[l] # None => May(l)
    /\ \A l, m \in Locations : entry[l] # None /\ entry[m] # None => l = m
    /\ printed # None => /\ printed[1] \in Locations
                         /\ entry[printed[1]] # None
                         /\ printed[2] = entry[printed[1]].dir

Stable == printed # None /\ printed' # None => printed' = printed

LEMMA ReuseStable ==
    ASSUME LocTypeOK, OnlyWorkspace, NEW f \in Given, f = None, Reuse(f)
    PROVE  OnlyWorkspace' /\ Stable
<1>1. PICK l \in Locations :
         /\ entry[l] # None
         /\ Prints(f, l, entry[l].dir)
         /\ UNCHANGED <<conf, default, entry, link>>
  BY ReuseFinds
<1>2. printed' = <<l, entry[l].dir>>
  BY <1>1 DEF Prints
<1>3. printed # None => printed = <<printed[1], printed[2]>>
  BY DEF LocTypeOK
<1>4. OnlyWorkspace'
  BY <1>1, <1>2 DEF OnlyWorkspace, May, Names
<1> QED BY <1>1, <1>2, <1>3, <1>4 DEF OnlyWorkspace, Stable

LEMMA ProlongedStable ==
    ASSUME LocTypeOK, OnlyWorkspace, NEW l \in Locations, NEW new \in Nat, Prolonged(l, new),
           UNCHANGED <<conf, default>>,
           printed' = printed \/ printed' = <<l, entry[l].dir>>
    PROVE  OnlyWorkspace' /\ Stable
<1>1. /\ \A m \in Locations : m # l => entry'[m] = entry[m]
      /\ entry[l] # None /\ entry'[l] # None
      /\ entry'[l].dir = entry[l].dir
  <2>1. entry'[l] \in Workspace
    BY ProlongedIn
  <2>2. entry'[l] # None
    BY <2>1, NoneAssumption DEF Workspace
  <2> QED BY <2>2, ProlongedIn DEF Prolonged
<1>2. printed # None => printed = <<printed[1], printed[2]>>
  BY DEF LocTypeOK
<1>3. \A m \in Locations : May(m)' <=> May(m)
  BY DEF May, Names
<1>4. \A m \in Locations : entry'[m] # None <=> entry[m] # None
  BY <1>1
<1>5. printed' # None => /\ printed'[1] \in Locations
                         /\ entry'[printed'[1]] # None
                         /\ printed'[2] = entry'[printed'[1]].dir
  <2>1. CASE printed' = printed
    BY <1>1, <2>1 DEF OnlyWorkspace
  <2>2. CASE printed' = <<l, entry[l].dir>>
    BY <1>1, <2>2
  <2> QED BY <2>1, <2>2
<1>6. OnlyWorkspace'
  BY <1>3, <1>4, <1>5 DEF OnlyWorkspace
<1> QED BY <1>1, <1>2, <1>6 DEF OnlyWorkspace, Stable

LEMMA CreateStable ==
    ASSUME LocTypeOK, Configured, OnlyWorkspace, DefaultsAdmit, Given \subseteq {None},
           NEW f \in Given, NEW days \in Days, NEW s \in Spaces,
           NEW cmd \in {"allocate", "extend"}, Create(cmd, f, days, s)
    PROVE  OnlyWorkspace' /\ Stable
<1>1. PICK l \in Locations, w \in Workspace : Made(cmd, f, l, w)
  BY CreateMakes
<1> USE DEF Made
<1>2. May(l)
  BY <1>1, HomeAdmits DEF Create
<1>3. \A m \in Locations : entry[m] = None
  BY <1>1 DEF Hits, Search, OnlyWorkspace
<1>4. printed = None /\ printed' = <<l, w.dir>>
  BY <1>1, <1>3 DEF OnlyWorkspace, Prints
<1>5. w # None /\ entry'[l] = w /\ \A m \in Locations : m # l => entry'[m] = None
  BY <1>1, <1>3, NoneAssumption DEF LocTypeOK, Workspace
<1>6. OnlyWorkspace'
  BY <1>1, <1>2, <1>4, <1>5 DEF OnlyWorkspace, May, Names
<1> QED BY <1>4, <1>6 DEF Stable

\* ws_release and the expirer forget the path they end.
LEMMA EndStable ==
    ASSUME LocTypeOK, OnlyWorkspace, NEW l \in Locations,
           entry' = [entry EXCEPT ![l] = None], Forget(l), UNCHANGED conf
    PROVE  OnlyWorkspace' /\ Stable
<1>1. entry'[l] = None /\ \A m \in Locations : m # l => entry'[m] = entry[m]
  BY DEF LocTypeOK
<1>2. OnlyWorkspace'
  BY <1>1 DEF OnlyWorkspace, Forget, May, Names
<1> QED BY <1>2 DEF Stable, Forget

\* With the access lists fixed, an edit of ws.conf opens and closes nothing.
LEMMA EditStable ==
    ASSUME LocTypeOK, Configured, OnlyWorkspace, AccessFixed,
           \/ \E l \in Locations : \E setting \in Settings[l] : Reconfigure(l, setting)
           \/ \E l \in Defaults : ChangeDefault(l)
    PROVE  OnlyWorkspace' /\ Stable
<1>1. UNCHANGED <<entry, printed>>
  BY DEF Reconfigure, ChangeDefault
<1>2. Configured'
  BY EditConfigured
<1>3. ASSUME NEW l \in Locations PROVE May(l) => May(l)'
  <2>1. Admits(conf[l]) <=> Admits(conf'[l])
    BY <1>2 DEF Configured, AccessFixed
  <2>2. May(l) <=> Admits(conf[l])
    BY MayAdmits
  <2>3. May(l)' <=> Admits(conf'[l])
    BY DEF May, Names, Admits
  <2> QED BY <2>1, <2>2, <2>3
<1>4. OnlyWorkspace'
  BY <1>1, <1>3 DEF OnlyWorkspace
<1> QED BY <1>1, <1>4 DEF Stable

LEMMA NextStable ==
    ASSUME DefaultsAdmit, AccessFixed, ColleaguesAdmitted, Given \subseteq {None},
           LocTypeOK, Configured, OnlyWorkspace, [Next]_vars
    PROVE  OnlyWorkspace' /\ (Stable \/ UNCHANGED vars)
<1>1. CASE UNCHANGED vars
  BY <1>1 DEF vars, OnlyWorkspace, May, Names
<1>2. ASSUME NEW f \in Given, Reuse(f) PROVE OnlyWorkspace' /\ Stable
  BY <1>2, ReuseStable
<1>3. ASSUME NEW f \in Given, NEW days \in Days, Extend(f, days) PROVE OnlyWorkspace' /\ Stable
  <2>1. PICK l \in Locations, new \in Nat :
           /\ Prolonged(l, new) /\ Prints(f, l, entry[l].dir)
           /\ UNCHANGED <<conf, default, link>>
    BY <1>3, ExtendProlongs
  <2> QED BY <2>1, ProlongedStable DEF Prints
<1>4. ASSUME NEW f \in Given, NEW days \in Days, ExtendFor(f, days)
      PROVE  OnlyWorkspace' /\ Stable
  <2>1. PICK l \in Locations, new \in Nat :
           Prolonged(l, new) /\ UNCHANGED <<conf, default, link, printed>>
    BY <1>4, ExtendForProlongs
  <2> QED BY <2>1, ProlongedStable
<1>5. ASSUME NEW f \in Given, NEW days \in Days, NEW s \in Spaces,
             NEW cmd \in {"allocate", "extend"}, Create(cmd, f, days, s)
      PROVE  OnlyWorkspace' /\ Stable
  BY <1>5, CreateStable
<1>6. ASSUME NEW f \in Given, Release(f) PROVE OnlyWorkspace' /\ Stable
  <2>1. Home("release", f) \in Locations
    BY <1>6, HomeIn DEF Release
  <2> QED BY <1>6, <2>1, EndStable DEF Release
<1>7. ASSUME NEW f \in Given, Register(f) PROVE OnlyWorkspace' /\ Stable
  BY <1>7 DEF Register, OnlyWorkspace, May, Names, Stable
<1>8. ASSUME NEW l \in Locations, DayPasses(l) PROVE OnlyWorkspace' /\ Stable
  <2>1. entry[l] \in Workspace /\ entry[l].left > 0
    BY <1>8 DEF DayPasses, LocTypeOK
  <2>2. [entry[l] EXCEPT !.left = @ - 1] \in Workspace
    BY <2>1 DEF Workspace
  <2>3. /\ \A m \in Locations : m # l => entry'[m] = entry[m]
        /\ entry'[l] = [entry[l] EXCEPT !.left = @ - 1]
    BY <1>8 DEF DayPasses, LocTypeOK
  <2>4. entry[l] # None /\ entry'[l] # None /\ entry'[l].dir = entry[l].dir
    BY <1>8, <2>1, <2>2, <2>3, NoneAssumption DEF DayPasses, Workspace
  <2>5. UNCHANGED <<conf, default, printed>>
    BY <1>8 DEF DayPasses
  <2>6. OnlyWorkspace'
    BY <2>3, <2>4, <2>5 DEF OnlyWorkspace, May, Names
  <2> QED BY <2>5, <2>6 DEF Stable
<1>9. ASSUME NEW l \in Locations, Expire(l) PROVE OnlyWorkspace' /\ Stable
  BY <1>9, EndStable DEF Expire
<1>10. ASSUME \/ \E l \in Locations : \E setting \in Settings[l] : Reconfigure(l, setting)
              \/ \E l \in Defaults : ChangeDefault(l)
       PROVE  OnlyWorkspace' /\ Stable
  BY <1>10, EditStable
<1>11. ASSUME NEW f \in Given, NEW days \in Days, NEW s \in Spaces PROVE ~CreateFor(f, days, s)
  BY ColleagueCreatesNothing
<1> QED
  BY <1>11, <1>1, <1>2, <1>3, <1>4, <1>5, <1>6, <1>7, <1>8, <1>9, <1>10 DEF Next

\* ws_allocate without -F prints the same path again until the workspace is released
\* or has expired, if the administrator gives the user no default that does not admit
\* him, changes no access list while he works, and lets his colleagues use a location:
\* a colleague who may use none replaces the workspace with ws_allocate -x -u.
THEOREM PathIsStable ==
    ASSUME DefaultsAdmit, AccessFixed, ColleaguesAdmitted, Given \subseteq {None}
    PROVE  Spec => StablePath
<1>1. Init => OnlyWorkspace
  BY DEF Init, OnlyWorkspace
<1>2. LocTypeOK /\ Configured /\ OnlyWorkspace /\ [Next]_vars =>
        /\ OnlyWorkspace'
        /\ [printed # None /\ printed' # None => printed' = printed]_vars
  BY NextStable DEF Stable
<1> QED
  BY <1>1, <1>2, LocInitTyped, LocNextTyped, NextConfigured, PTL DEF Spec, StablePath

-----------------------------------------------------------------------------
(* The workspace is kept, and found                                        *)

Unreplaced == \A l \in Locations : entry[l] # None /\ entry'[l] # None =>
                  /\ entry'[l].dir = entry[l].dir
                  /\ entry'[l].ext <= entry[l].ext

Keeps == /\ \A l \in Locations : entry[l] # None => entry'[l] # None
         /\ Unreplaced
         /\ UNCHANGED <<conf, default>>

LEMMA SameUnreplaced ==
    ASSUME LocTypeOK,
           \A l \in Locations : entry[l] # None /\ entry'[l] # None => entry'[l] = entry[l]
    PROVE  Unreplaced
<1> SUFFICES ASSUME NEW l \in Locations, entry[l] # None, entry'[l] = entry[l]
             PROVE  entry'[l].dir = entry[l].dir /\ entry'[l].ext <= entry[l].ext
  BY DEF Unreplaced
<1>1. entry[l].ext \in Nat
  BY DEF LocTypeOK, Workspace
<1> QED BY <1>1

LEMMA ProlongedKeeps ==
    ASSUME LocTypeOK, NEW l \in Locations, NEW new \in Nat, Prolonged(l, new),
           UNCHANGED <<conf, default>>
    PROVE  Keeps
<1>1. entry'[l] # None
  <2>1. entry'[l] \in Workspace
    BY ProlongedIn
  <2> QED BY <2>1, NoneAssumption DEF Workspace
<1>2. ASSUME NEW m \in Locations, entry[m] # None
      PROVE  /\ entry'[m] # None
             /\ entry'[m].dir = entry[m].dir
             /\ entry'[m].ext <= entry[m].ext
  <2>1. CASE m = l
    BY <1>1, <2>1, ProlongedIn
  <2>2. CASE m # l
    <3>1. entry'[m] = entry[m]
      BY <2>2, ProlongedIn
    <3>2. entry[m].ext \in Nat
      BY <1>2 DEF LocTypeOK, Workspace
    <3> QED BY <1>2, <3>1, <3>2
  <2> QED BY <2>1, <2>2
<1> QED BY <1>2 DEF Keeps, Unreplaced

\* All that the calls of ws_allocate do to the workspaces that exist.
LEMMA AllocatesKeeps ==
    ASSUME LocTypeOK, Configured, DefaultsAdmit, ColleaguesAdmitted, NEW f \in Given, Allocates(f)
    PROVE  Keeps
<1>1. ASSUME Reuse(f) PROVE Keeps
  <2>1. UNCHANGED <<conf, default, entry>>
    BY <1>1, ReuseFinds
  <2> QED BY <2>1, SameUnreplaced DEF Keeps
<1>2. ASSUME NEW days \in Days, Extend(f, days) PROVE Keeps
  BY <1>2, ProlongedKeeps, ExtendProlongs
<1>3. ASSUME NEW days \in Days, ExtendFor(f, days) PROVE Keeps
  BY <1>3, ProlongedKeeps, ExtendForProlongs
<1>4. ASSUME NEW days \in Days, NEW s \in Spaces, NEW cmd \in {"allocate", "extend"},
             Create(cmd, f, days, s)
      PROVE  Keeps
  <2>1. PICK l \in Locations, w \in Workspace : Made(cmd, f, l, w)
    BY <1>4, CreateMakes
  <2> USE DEF Made
  <2>2. entry[l] = None
    BY <1>4, <2>1, CreateInFree DEF Create
  <2>3. \A m \in Locations : entry[m] # None => entry'[m] = entry[m]
    BY <2>1, <2>2 DEF LocTypeOK
  <2>4. Unreplaced
    BY <2>3, SameUnreplaced
  <2> QED BY <2>1, <2>3, <2>4 DEF Keeps
<1>5. ASSUME NEW days \in Days, NEW s \in Spaces PROVE ~CreateFor(f, days, s)
  BY ColleagueCreatesNothing
<1> QED BY <1>1, <1>2, <1>3, <1>4, <1>5 DEF Allocates

LEMMA AllocatesTyped ==
    ASSUME LocTypeOK, NEW f \in Given, Allocates(f)
    PROVE  LocTypeOK'
BY AllocateTyped DEF Allocates

\* ... and what they never do, whatever the lists are.
LEMMA AllocatesFixed ==
    ASSUME LocTypeOK, NEW f \in Given, Allocates(f)
    PROVE  /\ UNCHANGED <<conf, default>>
           /\ \A l \in Locations : entry[l] # None => entry'[l] # None
<1>1. ASSUME NEW days \in Days, NEW s \in Spaces, NEW cmd \in {"allocate", "extend"},
             Create(cmd, f, days, s)
      PROVE  UNCHANGED <<conf, default>>
  BY <1>1 DEF Create
<1>2. ASSUME NEW l \in Locations, NEW w \in Workspace, entry' = [entry EXCEPT ![l] = w]
      PROVE  \A m \in Locations : entry[m] # None => entry'[m] # None
  BY <1>2, NoneAssumption DEF LocTypeOK
<1>3. ASSUME NEW days \in Days, NEW s \in Spaces, CreateFor(f, days, s)
      PROVE  /\ UNCHANGED <<conf, default>>
             /\ \A m \in Locations : entry[m] # None => entry'[m] # None
  BY <1>2, <1>3, CreateForMakes
<1>4. ASSUME NEW days \in Days, NEW s \in Spaces, NEW cmd \in {"allocate", "extend"},
             Create(cmd, f, days, s)
      PROVE  \A m \in Locations : entry[m] # None => entry'[m] # None
  BY <1>2, <1>4, CreateMakes DEF Made
<1>5. ASSUME NEW l \in Locations, NEW new \in Nat, Prolonged(l, new), UNCHANGED <<conf, default>>
      PROVE  \A m \in Locations : entry[m] # None => entry'[m] # None
  BY <1>5, ProlongedKeeps DEF Keeps
<1>6. ASSUME NEW days \in Days, Extend(f, days) \/ ExtendFor(f, days)
      PROVE  /\ UNCHANGED <<conf, default>>
             /\ \A m \in Locations : entry[m] # None => entry'[m] # None
  BY <1>5, <1>6, ExtendProlongs, ExtendForProlongs
<1> QED BY <1>1, <1>3, <1>4, <1>6, ReuseFinds DEF Allocates

\* What ws_allocate has just printed is found by ws_find.
LEMMA AllocatesFound ==
    ASSUME LocTypeOK, Configured, DefaultsAdmit, ListsFilled, NEW f \in Given, Allocates(f)
    PROVE  FindsAllocated'
<1> SUFFICES ASSUME last'.cmd \in {"allocate", "extend"} PROVE Finds(last.at)'
  BY DEF FindsAllocated
<1>1. UNCHANGED conf /\ \A l \in Locations : entry[l] # None => entry'[l] # None
  BY AllocatesFixed
<1>2. ASSUME NEW l \in Locations, May(l), entry'[l] # None, last'.at = l
      PROVE  Finds(last.at)'
  <2>1. FindMay(l)
    BY <1>2, FilledListsAgree
  <2> QED BY <1>1, <1>2, <2>1 DEF Finds, FindMay, InGroup
<1>3. CASE Reuse(f)
  <2>1. PICK l \in Locations :
           l \in Search("allocate", f) /\ entry[l] # None /\ Called("allocate", l)
    BY <1>3, ReuseFinds
  <2>2. May(l)
    BY <1>3, <2>1, SearchAdmits DEF Reuse
  <2> QED BY <1>1, <1>2, <2>1, <2>2 DEF Called
<1>4. ASSUME NEW days \in Days, Extend(f, days) PROVE Finds(last.at)'
  <2>1. PICK l \in Locations, new \in Nat :
           l \in Search("extend", f) /\ Prolonged(l, new) /\ Called("extend", l)
    BY <1>4, ExtendProlongs
  <2>2. May(l)
    BY <1>4, <2>1, SearchAdmits DEF Extend
  <2> QED BY <1>1, <1>2, <2>1, <2>2 DEF Called, Prolonged
<1>5. ASSUME NEW days \in Days, ExtendFor(f, days) PROVE Finds(last.at)'
  <2>1. PICK l \in Locations : Called("extend for", l)
    BY <1>5, ExtendForProlongs
  <2> QED BY <2>1 DEF Called
<1>6. ASSUME NEW days \in Days, NEW s \in Spaces, NEW cmd \in {"allocate", "extend"},
             Create(cmd, f, days, s)
      PROVE  Finds(last.at)'
  <2>1. PICK l \in Locations, w \in Workspace : Made(cmd, f, l, w)
    BY <1>6, CreateMakes
  <2> USE DEF Made
  <2>2. May(l)
    BY <1>6, <2>1, HomeAdmits DEF Create
  <2>3. entry'[l] # None
    BY <2>1, NoneAssumption DEF LocTypeOK, Workspace
  <2> QED BY <1>2, <2>1, <2>2, <2>3 DEF Called
<1>7. ASSUME NEW days \in Days, NEW s \in Spaces, CreateFor(f, days, s)
      PROVE  Finds(last.at)'
  BY <1>7 DEF CreateFor, Called
<1> QED BY <1>3, <1>4, <1>5, <1>6, <1>7 DEF Allocates

-----------------------------------------------------------------------------
(* Putting away and getting back                                           *)

RecTypeOK ==
    /\ kept \in [Locations -> Spaces \cup {None}]
    /\ place \in [Data -> Place \cup {None}]
    /\ listing \in [who : {"user", "root"}, at : SUBSET Locations]

LEMMA PlaceOfIn ==
    ASSUME LocTypeOK, NEW f \in Given, NEW who, NEW cmd, Allowed(who, cmd, f)
    PROVE  PlaceOf(who, cmd, f) \in Locations
BY HomeIn DEF PlaceOf, Allowed, LocTypeOK

LEMMA MovedTyped ==
    ASSUME RecTypeOK, NEW x, NEW y \in Place \cup {None}, Moved(x, y)
    PROVE  place' \in [Data -> Place \cup {None}]
BY DEF RecTypeOK, Moved

LEMMA PutAwayTyped ==
    ASSUME LocTypeOK, RecTypeOK, NEW l \in Locations, PutAway(l), UNCHANGED listing
    PROVE  RecTypeOK'
<1>1. CASE entry[l] = None
  BY <1>1 DEF PutAway, RecTypeOK
<1>2. CASE entry[l] # None
  <2>1. entry[l].dir.space \in Spaces
    BY <1>2, DirIn
  <2>2. <<"removed", l, entry[l].dir.space>> \in Place
    BY <2>1 DEF Place
  <2>3. place' \in [Data -> Place \cup {None}]
    BY <1>2, <2>2, MovedTyped DEF PutAway
  <2> QED BY <1>2, <2>1, <2>3 DEF PutAway, RecTypeOK
<1> QED BY <1>1, <1>2

\* A file that is in no directory is in no directory of a workspace.
LEMMA NoneNoPlace ==
    \A l \in Locations : /\ \A dir \in Dirs : None # <<"live", l, dir>>
                         /\ \A s \in Spaces : None # <<"removed", l, s>>
<1>1. ASSUME NEW l \in Locations, NEW dir \in Dirs PROVE None # <<"live", l, dir>>
  <2>1. <<"live", l, dir>> \in Place
    BY DEF Place
  <2> QED BY <2>1, NowhereAssumption
<1>2. ASSUME NEW l \in Locations, NEW s \in Spaces PROVE None # <<"removed", l, s>>
  <2>1. <<"removed", l, s>> \in Place
    BY DEF Place
  <2> QED BY <2>1, NowhereAssumption
<1> QED BY <1>1, <1>2

\* What the files of the datum d say of a location m.
LEMMA ReachAt ==
    ASSUME Reachable, NEW m \in Locations, NEW t, NEW dir, NEW d \in Data
    PROVE  /\ dir \in Dirs /\ place[d] = <<"live", m, dir>> =>
                 entry[m] # None /\ entry[m].dir = dir
           /\ t \in Spaces /\ place[d] = <<"removed", m, t>> => kept[m] = t
<1>1. ASSUME dir \in Dirs, place[d] = <<"live", m, dir>>
      PROVE  entry[m] # None /\ entry[m].dir = dir
  BY <1>1 DEF Reachable
<1>2. ASSUME t \in Spaces, place[d] = <<"removed", m, t>>
      PROVE  kept[m] = t
  BY <1>2 DEF Reachable
<1> QED BY <1>1, <1>2

\* What changes no entry, removed workspace or file keeps the files reachable.
LEMMA SameReachable ==
    ASSUME Reachable, UNCHANGED <<entry, kept, place>> PROVE Reachable'
BY DEF Reachable

\* Where a workspace has been put away, no file is left behind and none is lost.
LEMMA PutAwayReachable ==
    ASSUME LocTypeOK, RecTypeOK, Reachable, NEW l \in Locations, PutAway(l),
           entry' = [entry EXCEPT ![l] = None]
    PROVE  Reachable'
<1>1. /\ entry'[l] = None /\ \A m \in Locations : m # l => entry'[m] = entry[m]
      /\ entry[l] # None => entry[l].dir.space \in Spaces
  BY DirIn DEF LocTypeOK
<1>2. CASE entry[l] = None
  BY <1>1, <1>2 DEF PutAway, Reachable
<1>3. CASE entry[l] # None
  <2> DEFINE s == entry[l].dir.space
             x == <<"live", l, entry[l].dir>>
             y == <<"removed", l, s>>
  <2>1. /\ kept[l] = None /\ kept'[l] = s
        /\ \A m \in Locations : m # l => kept'[m] = kept[m]
        /\ \A d \in Data : place'[d] = IF place[d] = x THEN y ELSE place[d]
    BY <1>3 DEF PutAway, Moved, RecTypeOK
  <2> SUFFICES ASSUME NEW m \in Locations, NEW t, NEW dir, NEW d \in Data
               PROVE  /\ dir \in Dirs /\ place'[d] = <<"live", m, dir>> =>
                            entry'[m] # None /\ entry'[m].dir = dir
                      /\ t \in Spaces /\ place'[d] = <<"removed", m, t>> => kept'[m] = t
    BY DEF Reachable
  <2>2. /\ dir \in Dirs /\ place[d] = <<"live", m, dir>> => entry[m] # None /\ entry[m].dir = dir
        /\ t \in Spaces /\ place[d] = <<"removed", m, t>> => kept[m] = t
    BY ReachAt
  <2>3. CASE place[d] = x
    BY <2>1, <2>3
  <2>4. CASE place[d] # x
    <3>1. place'[d] = place[d]
      BY <2>1, <2>4
    <3>2. dir \in Dirs /\ place[d] = <<"live", m, dir>> => m # l
      BY <2>2, <2>4
    <3>3. t \in Spaces /\ place[d] = <<"removed", m, t>> => m # l
      BY <2>1, <2>2, DirIn
    <3> QED BY <1>1, <2>1, <2>2, <3>1, <3>2, <3>3
  <2> QED BY <2>3, <2>4
<1> QED BY <1>2, <1>3

\* Where a removed workspace goes back into a live one, its files do, too.
LEMMA RestoreReachable ==
    ASSUME LocTypeOK, RecTypeOK, NEW who \in Callers, NEW call \in Calls,
           RestoreInto(who, call)
    PROVE  RecTypeOK' /\ (Reachable => Reachable')
<1> DEFINE l == PlaceOf(who, "restore", call.f)
           x == <<"removed", l, kept[l]>>
           y == <<"live", l, entry[l].dir>>
<1>1. l \in Locations
  BY PlaceOfIn DEF RestoreInto, Calls
<1>2. /\ entry[l] # None /\ kept[l] # None
      /\ Moved(x, y) /\ kept' = [kept EXCEPT ![l] = None]
      /\ UNCHANGED <<entry, listing>>
  BY DEF RestoreInto
<1> HIDE DEF l
<1>3. y \in Place
  BY <1>1, <1>2, DirIn DEF Place
<1>4. /\ kept'[l] = None /\ \A m \in Locations : m # l => kept'[m] = kept[m]
      /\ \A d \in Data : place'[d] = IF place[d] = x THEN y ELSE place[d]
  BY <1>1, <1>2 DEF Moved, RecTypeOK
<1>5. RecTypeOK'
  <2>1. place' \in [Data -> Place \cup {None}]
    BY <1>2, <1>3, MovedTyped
  <2> QED BY <1>1, <1>2, <2>1 DEF RecTypeOK
<1>6. Reachable => Reachable'
  <2> SUFFICES ASSUME Reachable, NEW m \in Locations, NEW t, NEW dir, NEW d \in Data
               PROVE  /\ dir \in Dirs /\ place'[d] = <<"live", m, dir>> =>
                            entry'[m] # None /\ entry'[m].dir = dir
                      /\ t \in Spaces /\ place'[d] = <<"removed", m, t>> => kept'[m] = t
    BY DEF Reachable
  <2>1. /\ dir \in Dirs /\ place[d] = <<"live", m, dir>> => entry[m] # None /\ entry[m].dir = dir
        /\ t \in Spaces /\ place[d] = <<"removed", m, t>> => kept[m] = t
    BY ReachAt
  <2>2. CASE place[d] = x
    <3>1. place'[d] = y
      BY <1>4, <2>2
    <3> QED BY <1>2, <3>1
  <2>3. CASE place[d] # x
    <3>1. place'[d] = place[d]
      BY <1>4, <2>3
    <3>2. t \in Spaces /\ place[d] = <<"removed", m, t>> => m # l
      BY <2>1, <2>3
    <3> QED BY <1>2, <1>4, <2>1, <3>1, <3>2
  <2> QED BY <2>2, <2>3
<1> QED BY <1>5, <1>6

LEMMA PurgeReachable ==
    ASSUME LocTypeOK, RecTypeOK, NEW l \in Locations, Purge(l)
    PROVE  RecTypeOK' /\ (Reachable => Reachable')
<1> DEFINE x == <<"removed", l, kept[l]>>
<1>1. /\ Moved(x, None) /\ kept' = [kept EXCEPT ![l] = None]
      /\ UNCHANGED <<entry, listing>>
  BY DEF Purge
<1>2. RecTypeOK'
  <2>1. place' \in [Data -> Place \cup {None}]
    BY <1>1, MovedTyped
  <2> QED BY <1>1, <2>1 DEF RecTypeOK
<1>3. /\ kept'[l] = None /\ \A m \in Locations : m # l => kept'[m] = kept[m]
      /\ \A d \in Data : place'[d] = IF place[d] = x THEN None ELSE place[d]
  BY <1>1 DEF Moved, RecTypeOK
<1>4. Reachable => Reachable'
  <2> SUFFICES ASSUME Reachable, NEW m \in Locations, NEW t, NEW dir, NEW d \in Data
               PROVE  /\ dir \in Dirs /\ place'[d] = <<"live", m, dir>> =>
                            entry'[m] # None /\ entry'[m].dir = dir
                      /\ t \in Spaces /\ place'[d] = <<"removed", m, t>> => kept'[m] = t
    BY DEF Reachable
  <2>1. /\ dir \in Dirs /\ place[d] = <<"live", m, dir>> => entry[m] # None /\ entry[m].dir = dir
        /\ t \in Spaces /\ place[d] = <<"removed", m, t>> => kept[m] = t
    BY ReachAt
  <2>2. CASE place[d] = x
    <3>1. place'[d] = None
      BY <1>3, <2>2
    <3> QED BY <3>1, NoneNoPlace
  <2>3. CASE place[d] # x
    <3>1. place'[d] = place[d]
      BY <1>3, <2>3
    <3>2. t \in Spaces /\ place[d] = <<"removed", m, t>> => m # l
      BY <2>1, <2>3
    <3> QED BY <1>1, <1>3, <2>1, <3>1, <3>2
  <2> QED BY <2>2, <2>3
<1> QED BY <1>2, <1>4

LEMMA WriteReachable ==
    ASSUME LocTypeOK, RecTypeOK, NEW l \in Locations, NEW d \in Data, Write(d, l)
    PROVE  RecTypeOK' /\ (Reachable => Reachable')
<1> DEFINE y == <<"live", l, entry[l].dir>>
<1>1. entry[l] # None /\ place' = [place EXCEPT ![d] = y] /\ UNCHANGED <<entry, kept, listing>>
  BY DEF Write
<1>2. y \in Place
  BY <1>1, DirIn DEF Place
<1>3. RecTypeOK'
  BY <1>1, <1>2 DEF RecTypeOK
<1>4. /\ place'[d] = y
      /\ \A e \in Data : e # d => place'[e] = place[e]
  BY <1>1 DEF RecTypeOK
<1>5. Reachable => Reachable'
  <2> SUFFICES ASSUME Reachable, NEW m \in Locations, NEW t, NEW dir, NEW e \in Data
               PROVE  /\ dir \in Dirs /\ place'[e] = <<"live", m, dir>> =>
                            entry'[m] # None /\ entry'[m].dir = dir
                      /\ t \in Spaces /\ place'[e] = <<"removed", m, t>> => kept'[m] = t
    BY DEF Reachable
  <2>1. CASE e = d
    BY <1>1, <1>4, <2>1
  <2>2. CASE e # d
    <3>1. place'[e] = place[e] /\ UNCHANGED <<entry, kept>>
      BY <1>1, <1>4, <2>2
    <3>2. /\ dir \in Dirs /\ place[e] = <<"live", m, dir>> => entry[m] # None /\ entry[m].dir = dir
          /\ t \in Spaces /\ place[e] = <<"removed", m, t>> => kept[m] = t
      BY ReachAt
    <3> QED BY <3>1, <3>2
  <2> QED BY <2>1, <2>2
<1> QED BY <1>3, <1>5

-----------------------------------------------------------------------------
(* The invariant of the recovery                                           *)

Recovered == LocTypeOK /\ Configured /\ RecTypeOK

LEMMA RecoveryInitRecovered ==
    RecoveryInit => Recovered /\ Reachable /\ FindsAllocated
<1> SUFFICES ASSUME RecoveryInit PROVE Recovered /\ Reachable /\ FindsAllocated
  OBVIOUS
<1>1. LocTypeOK /\ Configured
  BY LocInitTyped DEF RecoveryInit
<1>2. RecTypeOK
  BY DEF RecoveryInit, RecTypeOK
<1>3. Reachable
  BY NoneNoPlace DEF RecoveryInit, Reachable
<1>4. FindsAllocated
  BY DEF RecoveryInit, Init, FindsAllocated
<1> QED BY <1>1, <1>2, <1>3, <1>4 DEF Recovered

\* The location a ws_release ends up in is one of ws.conf, for root, too.
LEMMA ReleasesEnds ==
    ASSUME LocTypeOK, NEW who \in Callers, NEW f \in Given, Releases(who, f)
    PROVE  \E l \in Locations :
              /\ PutAway(l) /\ entry' = [entry EXCEPT ![l] = None]
              /\ Called("release", l) /\ Forget(l)
              /\ UNCHANGED <<conf, default, link, listing>>
<1>1. PlaceOf(who, "release", f) \in Locations
  BY PlaceOfIn DEF Releases
<1> QED BY <1>1 DEF Releases

\* One step of the recovery keeps the types and every file reachable; only ws_allocate
\* depends on whom the locations admit.
LEMMA RecoveryNextKeeps ==
    ASSUME Recovered, [RecoveryNext]_recoveryVars
    PROVE  /\ Recovered'
           /\ DefaultsAdmit /\ ColleaguesAdmitted /\ Reachable => Reachable'
           /\ DefaultsAdmit /\ ListsFilled /\ FindsAllocated => FindsAllocated'
           /\ DefaultsAdmit /\ ColleaguesAdmitted => Unreplaced \/ UNCHANGED recoveryVars
<1> DEFINE Goal == /\ Recovered'
                   /\ DefaultsAdmit /\ ColleaguesAdmitted /\ Reachable => Reachable'
                   /\ DefaultsAdmit /\ ListsFilled /\ FindsAllocated => FindsAllocated'
                   /\ DefaultsAdmit /\ ColleaguesAdmitted =>
                         Unreplaced \/ UNCHANGED recoveryVars
<1> USE DEF Recovered
<1> SUFFICES Goal
  OBVIOUS
<1>1. CASE UNCHANGED recoveryVars
  <2>1. UNCHANGED <<conf, default, entry, link, last, printed, kept, place, listing>>
    BY <1>1 DEF recoveryVars, vars
  <2>2. Recovered'
    BY <2>1 DEF LocTypeOK, Configured, RecTypeOK
  <2>3. Reachable => Reachable'
    BY <2>1, SameReachable
  <2>4. FindsAllocated => FindsAllocated'
    BY <2>1 DEF FindsAllocated, Finds, FindMay, InGroup
  <2> QED BY <1>1, <2>2, <2>3, <2>4
<1>2. ASSUME NEW f \in Given, Allocates(f) PROVE Goal
  <2>1. UNCHANGED <<conf, default, kept, place, listing>>
    BY <1>2, AllocatesFixed DEF Allocates
  <2>2. Recovered'
    BY <1>2, <2>1, AllocatesTyped DEF Configured, RecTypeOK
  <2>3. DefaultsAdmit /\ ColleaguesAdmitted => Keeps
    BY <1>2, AllocatesKeeps
  <2>4. DefaultsAdmit /\ ColleaguesAdmitted /\ Reachable => Reachable'
    BY <2>1, <2>3 DEF Keeps, Unreplaced, Reachable
  <2>5. DefaultsAdmit /\ ListsFilled => FindsAllocated'
    BY <1>2, AllocatesFound
  <2> QED BY <2>2, <2>3, <2>4, <2>5 DEF Keeps
<1>3. ASSUME NEW l \in Locations, NEW cmd \in Commands, NEW at \in Locations \cup {None},
             PutAway(l), entry' = [entry EXCEPT ![l] = None],
             Called(cmd, at), cmd \notin {"allocate", "extend"}, Forget(l),
             UNCHANGED <<conf, default, link, listing>>
      PROVE  Goal
  <2>1. Recovered'
    BY <1>3, EndTyped, PutAwayTyped DEF Configured
  <2>2. Reachable => Reachable'
    BY <1>3, PutAwayReachable
  <2>3. FindsAllocated'
    BY <1>3 DEF Called, FindsAllocated
  <2>4. Unreplaced
    <3>1. \A m \in Locations : entry'[m] # None => entry'[m] = entry[m]
      BY <1>3 DEF LocTypeOK
    <3> QED BY <3>1, SameUnreplaced
  <2> QED BY <2>1, <2>2, <2>3, <2>4
<1>4. ASSUME NEW who \in Callers, NEW f \in Given, Releases(who, f) PROVE Goal
  <2>1. PICK l \in Locations :
           /\ PutAway(l) /\ entry' = [entry EXCEPT ![l] = None]
           /\ Called("release", l) /\ Forget(l)
           /\ UNCHANGED <<conf, default, link, listing>>
    BY <1>4, ReleasesEnds
  <2> HIDE DEF Goal
  <2> QED BY <1>3, <2>1 DEF Commands
<1>5. ASSUME NEW l \in Locations, Expires(l) PROVE Goal
  <2> HIDE DEF Goal
  <2> QED BY <1>3, <1>5 DEF Expires, Expire, Commands
<1>6. ASSUME Reachable => Reachable', RecTypeOK', UNCHANGED <<conf, default, entry, link, printed>>,
             NEW cmd \in Commands \ {"allocate", "extend"}, NEW at \in Locations \cup {None},
             Called(cmd, at)
      PROVE  Goal
  <2>1. Recovered'
    BY <1>6, CalledIn DEF Configured, LocTypeOK
  <2>2. FindsAllocated'
    BY <1>6 DEF Called, FindsAllocated
  <2>3. Unreplaced
    BY <1>6, SameUnreplaced
  <2> QED BY <1>6, <2>1, <2>2, <2>3
<1>7. ASSUME NEW who \in Callers, NEW call \in Calls, List(who, call) PROVE Goal
  <2>1. UNCHANGED <<conf, default, entry, link, printed, kept, place>> /\ Called("list", call.f)
    BY <1>7 DEF List
  <2>2. RecTypeOK'
    BY <1>7 DEF List, RecTypeOK, WithRestorable
  <2>3. Reachable => Reachable'
    BY <2>1, SameReachable
  <2>4. call.f \in Locations \cup {None}
    BY DEF Calls
  <2> HIDE DEF Goal
  <2> QED BY <1>6, <2>1, <2>2, <2>3, <2>4 DEF Commands
<1>8. ASSUME NEW who \in Callers, NEW call \in Calls, RestoreInto(who, call) PROVE Goal
  <2>1. /\ UNCHANGED <<conf, default, entry, link, printed, listing>>
        /\ Called("restore", PlaceOf(who, "restore", call.f))
        /\ PlaceOf(who, "restore", call.f) \in Locations
    BY <1>8, PlaceOfIn DEF RestoreInto, Calls
  <2>2. RecTypeOK' /\ (Reachable => Reachable')
    BY <1>8, RestoreReachable
  <2> HIDE DEF Goal
  <2> QED BY <1>6, <2>1, <2>2 DEF Commands
<1>9. ASSUME NEW l \in Locations, \/ Purge(l)
                                  \/ \E d \in Data : Write(d, l)
      PROVE  Goal
  <2>1. UNCHANGED <<conf, default, entry, link, printed, listing>> /\ Called("none", None)
    BY <1>9 DEF Purge, Write
  <2>2. RecTypeOK' /\ (Reachable => Reachable')
    BY <1>9, PurgeReachable, WriteReachable
  <2> HIDE DEF Goal
  <2> QED BY <1>6, <2>1, <2>2 DEF Commands
<1>10. ASSUME Edits PROVE Goal
  <2>1. /\ \/ \E l \in Locations : \E setting \in Settings[l] : Reconfigure(l, setting)
           \/ \E l \in Defaults : ChangeDefault(l)
        /\ listing' = [listing EXCEPT !.at = {}]
        /\ UNCHANGED <<kept, place>>
    BY <1>10 DEF Edits
  <2>2. UNCHANGED entry /\ Called("none", None)
    BY <2>1 DEF Reconfigure, ChangeDefault
  <2>3. Recovered'
    BY <2>1, EditTyped, EditConfigured DEF RecTypeOK
  <2>4. Reachable => Reachable'
    BY <2>1, <2>2, SameReachable
  <2>5. FindsAllocated' /\ Unreplaced
    BY <2>2, SameUnreplaced DEF Called, FindsAllocated
  <2> QED BY <2>3, <2>4, <2>5
<1> HIDE DEF Goal
<1> QED
  BY <1>1, <1>2, <1>4, <1>5, <1>7, <1>8, <1>9, <1>10 DEF RecoveryNext

-----------------------------------------------------------------------------
\* Every reachable state of the recovery is well typed, and ws.conf is one of those
\* the administrator sets.
THEOREM RecoveredAlways == RecoverySpec => []Recovered
<1>1. Recovered /\ [RecoveryNext]_recoveryVars => Recovered'
  BY RecoveryNextKeeps
<1> QED BY <1>1, RecoveryInitRecovered, PTL DEF RecoverySpec

\* No call of ws_allocate, of the user or of a colleague, replaces a workspace or gives
\* it extensions back, if no default names a location that does not admit the user,
\* and there is a location that admits his colleagues.
THEOREM EntriesKept ==
    ASSUME DefaultsAdmit, ColleaguesAdmitted
    PROVE  RecoverySpec => EntryKept
<1>1. Recovered /\ [RecoveryNext]_recoveryVars =>
        [\A l \in Locations : entry[l] # None /\ entry'[l] # None =>
           /\ entry'[l].dir = entry[l].dir
           /\ entry'[l].ext <= entry[l].ext]_vars
  BY RecoveryNextKeeps DEF Unreplaced, recoveryVars
<1> QED BY <1>1, RecoveredAlways, PTL DEF RecoverySpec, EntryKept

\* Every file of the user stays in a directory that an entry leads to, whatever he,
\* root and the expirer do, in whatever locations: with the same hypotheses, for a
\* workspace that ws_allocate replaced would leave its directory behind.
THEOREM FilesReachable ==
    ASSUME DefaultsAdmit, ColleaguesAdmitted
    PROVE  RecoverySpec => []Reachable
<1>1. Recovered /\ Reachable /\ [RecoveryNext]_recoveryVars => Reachable'
  BY RecoveryNextKeeps
<1> QED BY <1>1, RecoveredAlways, RecoveryInitRecovered, PTL DEF RecoverySpec

\* ws_find finds what ws_allocate has just printed, if no list is empty: ws_find takes
\* an empty list for one that admits nobody, ws_allocate for one that admits everybody.
THEOREM AllocatedIsFound ==
    ASSUME DefaultsAdmit, ListsFilled
    PROVE  RecoverySpec => []FindsAllocated
<1>1. Recovered /\ FindsAllocated /\ [RecoveryNext]_recoveryVars => FindsAllocated'
  BY RecoveryNextKeeps
<1> QED BY <1>1, RecoveredAlways, RecoveryInitRecovered, PTL DEF RecoverySpec
=============================================================================
