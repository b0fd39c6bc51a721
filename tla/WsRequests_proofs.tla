-------------------------- MODULE WsRequests_proofs --------------------------
(***************************************************************************)
(* Proofs about WsRequests: whatever a user asks of ws_allocate, the life  *)
(* of a workspace is bounded and a reminder is not forgotten.              *)
(***************************************************************************)
EXTENDS WsRequests, TLAPS

\* What a workspace has lived and may still live is within the lives that the
\* extensions used so far have paid for.
Paid == Readable => age + ws.left <= Limit * (MaxExtensions + 1 - ws.ext)

\* A reminder has an address, and as long as no mail was sent there is a
\* night left to send it.
Pending ==
    Readable /\ ws.rem >= 1 =>
        /\ ws.mail # None
        /\ asked >= 1 /\ ~mailed => ws.left >= 1

IInv == RequestTypeOK /\ Paid /\ Pending

-----------------------------------------------------------------------------
(* The command line                                                        *)

\* Whatever is asked for, the duration that counts is within the limit.
LEMMA ClampBounds ==
    ASSUME NEW d \in Int
    PROVE  Clamp(d) \in 0 .. Limit
  BY RequestAssumption DEF Clamp

\* A request states a number, and gets a reminder that is a number of days.
LEMMA RequestValues ==
    ASSUME NEW r \in Request, NEW f \in Files
    PROVE  Durations(r, f) \subseteq Int /\ Reminder(r, f) \in Nat
<1> f \in File
  BY RequestAssumption
<1>1. Durations(r, f) \subseteq Int
  BY RequestAssumption DEF Durations, Request, File
<1>2. Reminder(r, f) \in Nat
  BY RequestAssumption DEF Reminder, Request, File
<1> QED
  BY <1>1, <1>2

\* An accepted request has an address if it has a reminder.
LEMMA AcceptedMail ==
    ASSUME NEW r \in Request, NEW f \in Files, Accepted(r, f)
    PROVE  /\ MailOf(r, f) \in Addresses \cup {Local, None}
           /\ Reminder(r, f) # 0 => MailOf(r, f) # None
<1> f \in File
  BY RequestAssumption
<1>1. Address(r, f) \in Addresses \cup {Local, Illegal}
  BY RequestAssumption DEF Address, Request, File
<1>2. r.mail \in Addresses \cup {None}
  BY DEF Request
<1> QED
  BY <1>1, <1>2, RequestAssumption DEF MailOf, Accepted

\* One life more is worth Limit days more.
LEMMA OneMore ==
    ASSUME NEW k \in Nat
    PROVE  Limit * (k + 1) = Limit * k + Limit /\ Limit * k \in Nat
  BY RequestAssumption

LEMMA MoreLives ==
    ASSUME NEW k \in Nat, NEW m \in Nat, k <= m
    PROVE  Limit * k <= Limit * m
  BY RequestAssumption

-----------------------------------------------------------------------------
(* The steps                                                               *)

\* What the tools can read has the fields of an entry.
LEMMA ReadableTyped ==
    ASSUME RequestTypeOK, Readable
    PROVE  ws \in Workspace /\ ws # None /\ ws # Broken
  BY DEF RequestTypeOK, Readable

\* A new entry of the right kind keeps the invariant if it is paid for, and so
\* does a write of it that fails.
LEMMA WriteKeeps ==
    ASSUME IInv, NEW e \in Workspace, Write(e),
           file' \in Files, last' \in Request \cup {None}, age' \in Nat,
           Readable => age' = age,
           age' + e.left <= Limit * (MaxExtensions + 1 - e.ext),
           e.rem >= 1 => e.mail # None
    PROVE  IInv'
<1> USE DEF IInv
<1> e.left \in Nat
  BY DEF Workspace
<1>1. CASE ws' = e /\ asked' = e.left /\ mailed' = FALSE
  <2>1. RequestTypeOK'
    BY <1>1 DEF RequestTypeOK
  <2>2. Paid'
    BY <1>1 DEF Paid
  <2>3. Pending'
    BY <1>1 DEF Pending
  <2> QED
    BY <2>1, <2>2, <2>3
<1>2. CASE UNCHANGED <<ws, asked, mailed>>
  <2>1. RequestTypeOK'
    BY <1>2 DEF RequestTypeOK
  <2>2. Paid'
    BY <1>2 DEF Paid, Readable
  <2>3. Pending'
    BY <1>2 DEF Pending, Readable
  <2> QED
    BY <2>1, <2>2, <2>3
<1>3. CASE ws' = Broken /\ asked' = 0 /\ mailed' = FALSE
  BY <1>3 DEF RequestTypeOK, Paid, Pending, Readable
<1> QED
  BY <1>1, <1>2, <1>3 DEF Write

LEMMA CreateKeeps ==
    ASSUME IInv, NEW r \in Request, Create(r)
    PROVE  IInv'
<1> USE DEF IInv
<1>1. PICK d \in Durations(r, file) :
         Write([left |-> Clamp(d), ext |-> MaxExtensions,
                rem |-> Reminder(r, file), mail |-> MailOf(r, file)])
  BY DEF Create
<1> DEFINE e == [left |-> Clamp(d), ext |-> MaxExtensions,
                 rem |-> Reminder(r, file), mail |-> MailOf(r, file)]
<1>2. /\ file \in Files /\ Accepted(r, file) /\ last' = r /\ age' = 0 /\ file' = file
      /\ ~Readable
  BY DEF RequestTypeOK, Create, Readable
<1>3. Clamp(d) \in 0 .. Limit /\ Reminder(r, file) \in Nat
  BY <1>1, <1>2, ClampBounds, RequestValues
<1>4. /\ MailOf(r, file) \in Addresses \cup {Local, None}
      /\ Reminder(r, file) # 0 => MailOf(r, file) # None
  BY <1>2, AcceptedMail
<1>5. e \in Workspace
  BY <1>3, <1>4, RequestAssumption DEF Workspace
<1>6. age' + e.left <= Limit * (MaxExtensions + 1 - e.ext)
  <2>1. MaxExtensions + 1 - e.ext = 1
    BY RequestAssumption
  <2>2. Limit * 1 = Limit
    BY RequestAssumption
  <2> QED
    BY <1>2, <1>3, <2>1, <2>2, RequestAssumption
<1>7. e.rem >= 1 => e.mail # None
  BY <1>3, <1>4
<1> QED
  BY <1>1, <1>2, <1>5, <1>6, <1>7, WriteKeeps

\* An extension to a later day is paid for by one of the extensions.
LEMMA ExtensionPaid ==
    ASSUME RequestTypeOK, Readable, Paid,
           NEW d \in 0 .. Limit, NEW cost \in Costs(ws, d), Affordable(ws, cost)
    PROVE  LET left == IF d = 0 THEN ws.left ELSE d
           IN  /\ left \in 0 .. Limit
               /\ ws.ext - cost \in 0 .. MaxExtensions
               /\ age + left <= Limit * (MaxExtensions + 1 - (ws.ext - cost))
<1> DEFINE left == IF d = 0 THEN ws.left ELSE d
           k == MaxExtensions + 1 - ws.ext
<1>1. /\ ws.left \in 0 .. Limit /\ ws.ext \in 0 .. MaxExtensions
      /\ age \in Nat /\ Limit \in Nat /\ MaxExtensions \in Nat
  BY ReadableTyped, RequestAssumption DEF RequestTypeOK, Workspace
<1>2. age + ws.left <= Limit * k
  BY DEF Paid
<1>3. cost \in {0, 1} /\ (cost = 0 => left <= ws.left)
  BY <1>1 DEF Costs
<1>4. left \in 0 .. Limit /\ ws.ext - cost \in 0 .. MaxExtensions
  BY <1>1, <1>3 DEF Affordable
<1>5. k \in Nat
  BY <1>1
<1>6. Limit * (k + 1) = Limit * k + Limit /\ Limit * k \in Nat
  BY <1>5, OneMore
<1>7. CASE cost = 0
  <2>1. age + left <= Limit * k
    BY <1>1, <1>2, <1>3, <1>4, <1>6, <1>7
  <2>2. MaxExtensions + 1 - (ws.ext - cost) = k
    BY <1>1, <1>7
  <2> QED
    BY <1>4, <2>1, <2>2
<1>8. CASE cost = 1
  <2>1. age + left <= Limit * k + Limit
    BY <1>1, <1>2, <1>4, <1>6
  <2>2. MaxExtensions + 1 - (ws.ext - cost) = k + 1
    BY <1>1, <1>8
  <2> QED
    BY <1>4, <1>6, <2>1, <2>2
<1> QED
  BY <1>3, <1>7, <1>8

LEMMA ExtendKeeps ==
    ASSUME IInv, NEW r \in Request, Extend(r)
    PROVE  IInv'
<1> USE DEF IInv
<1> DEFINE rem == Reminder(r, file)
           mail == MailOf(r, file)
<1>1. PICK stated \in Durations(r, file) :
         \E cost \in Costs(ws, Clamp(stated)) :
            /\ Affordable(ws, cost)
            /\ Write(UseExtension(ws, Clamp(stated), cost, rem, mail))
  BY DEF Extend
<1> DEFINE d == Clamp(stated)
<1>2. PICK cost \in Costs(ws, d) :
         Affordable(ws, cost) /\ Write(UseExtension(ws, d, cost, rem, mail))
  BY <1>1
<1> DEFINE e == UseExtension(ws, d, cost, rem, mail)
<1>3. /\ file \in Files /\ Accepted(r, file) /\ Readable /\ ws \in Workspace
      /\ last' = r /\ age' = age /\ age \in Nat /\ file' = file
  BY ReadableTyped DEF RequestTypeOK, Extend
<1>4. d \in 0 .. Limit /\ rem \in Nat
  BY <1>1, <1>3, ClampBounds, RequestValues
<1>5. mail \in Addresses \cup {Local, None} /\ (rem # 0 => mail # None)
  BY <1>3, AcceptedMail
<1>6. /\ e.left \in 0 .. Limit /\ e.ext \in 0 .. MaxExtensions
      /\ age + e.left <= Limit * (MaxExtensions + 1 - e.ext)
  <2> HIDE DEF d
  <2> QED
    BY <1>2, <1>3, <1>4, ExtensionPaid DEF UseExtension
<1>7. e.rem \in Nat /\ e.mail \in Addresses \cup {Local, None}
  BY <1>3, <1>4, <1>5 DEF UseExtension, Workspace
<1>8. e \in Workspace
  BY <1>6, <1>7 DEF UseExtension, Workspace
<1>9. e.rem >= 1 => e.mail # None
  BY <1>3, <1>4, <1>5 DEF UseExtension, Pending, Workspace
<1> HIDE DEF e
<1> QED
  BY <1>2, <1>3, <1>6, <1>8, <1>9, WriteKeeps DEF e

\* The workspace ends, or only the file is edited.
LEMMA EndKeeps ==
    ASSUME IInv, End \/ UNCHANGED <<ws, age, asked, mailed>>,
           file' \in Files, last' \in Request \cup {None}
    PROVE  IInv'
<1>1. CASE End
  <2>1. ws' = None /\ age' = 0 /\ asked' = 0 /\ mailed' = FALSE
    BY <1>1 DEF End
  <2>2. Paid' /\ Pending'
    BY <2>1 DEF Paid, Pending, Readable
  <2>3. RequestTypeOK'
    BY <2>1 DEF RequestTypeOK
  <2> QED
    BY <2>2, <2>3 DEF IInv
<1>2. CASE UNCHANGED <<ws, age, asked, mailed>>
  <2>1. Paid' /\ Pending'
    BY <1>2 DEF IInv, Paid, Pending, Readable
  <2>2. RequestTypeOK'
    BY <1>2 DEF IInv, RequestTypeOK
  <2> QED
    BY <2>1, <2>2 DEF IInv
<1> QED
  BY <1>1, <1>2

\* A night takes one day of the rest, and sends the mail on the last one.
LEMMA KeepKeeps ==
    ASSUME IInv, Keep
    PROVE  IInv'
<1> USE DEF IInv
<1>1. /\ ws \in Workspace /\ Readable /\ ws.left \in 1 .. Limit /\ age \in Nat
      /\ ws' = [ws EXCEPT !.left = @ - 1]
      /\ last' = None /\ file' = file /\ asked' = asked
  BY ReadableTyped DEF Keep, Expired, RequestTypeOK, Workspace
<1>2. age' \in {age, age + 1}
  BY <1>1 DEF Keep
<1>3. IF MailDue(ws) THEN mailed' = TRUE ELSE mailed' = mailed
  BY Zenon DEF Keep, SendReminder
<1>4. /\ ws' \in Workspace
      /\ ws'.left = ws.left - 1 /\ ws'.ext = ws.ext
      /\ ws'.rem = ws.rem /\ ws'.mail = ws.mail
  BY <1>1, RequestAssumption DEF Workspace
<1>5. RequestTypeOK'
  <2>1. mailed' \in BOOLEAN
    BY <1>3 DEF RequestTypeOK
  <2> QED
    BY <1>1, <1>4, <1>2, <2>1 DEF RequestTypeOK
<1>6. Paid'
  <2>1. age + ws.left <= Limit * (MaxExtensions + 1 - ws.ext)
    BY <1>1 DEF Paid
  <2>2. age' + ws'.left <= age + ws.left
    BY <1>1, <1>4, <1>2
  <2>3. Limit * (MaxExtensions + 1 - ws.ext) \in Int
    BY <1>1, RequestAssumption DEF Workspace
  <2> QED
    BY <1>1, <1>4, <1>2, <2>1, <2>2, <2>3 DEF Paid
<1>7. Pending'
  <2> SUFFICES ASSUME ws'.rem >= 1
               PROVE  ws'.mail # None /\ (asked' >= 1 /\ ~mailed' => ws'.left >= 1)
    BY DEF Pending
  <2>1. ws.mail # None
    BY <1>1, <1>4 DEF Pending
  <2>2. ws.rem \in Nat
    BY <1>1 DEF Workspace
  <2>3. ws.left = 1 => MailDue(ws)
    BY <1>4, <2>1, <2>2 DEF MailDue
  <2>4. ws'.mail # None
    BY <1>4, <2>1
  <2>5. ASSUME asked' >= 1, ~mailed' PROVE ws'.left >= 1
    <3>1. ws.left # 1
      BY <1>3, <2>3, <2>5
    <3> QED
      BY <1>1, <1>4, <3>1
  <2> QED
    BY <2>4, <2>5
<1> QED
  BY <1>5, <1>6, <1>7

\* The invariant is inductive.
LEMMA Inductive == Spec => []IInv
<1>1. Init => IInv
  <2> SUFFICES ASSUME Init PROVE IInv
    OBVIOUS
  <2>1. Paid /\ Pending
    BY DEF Init, Paid, Pending, Readable
  <2>2. RequestTypeOK
    BY DEF Init, RequestTypeOK
  <2> QED
    BY <2>1, <2>2 DEF IInv
<1>2. IInv /\ [Next]_vars => IInv'
  <2> SUFFICES ASSUME IInv, [Next]_vars PROVE IInv'
    OBVIOUS
  <2>1. ASSUME NEW r \in Request, Create(r) PROVE IInv'
    BY <2>1, CreateKeeps
  <2>2. ASSUME NEW r \in Request, Reuse(r) PROVE IInv'
    BY <2>2, EndKeeps DEF Reuse, IInv, RequestTypeOK
  <2>3. ASSUME NEW r \in Request, Extend(r) PROVE IInv'
    BY <2>3, ExtendKeeps
  <2>4. CASE Release
    BY <2>4, EndKeeps DEF Release, End, IInv, RequestTypeOK
  <2>5. ASSUME NEW f \in Files, EditFile(f) PROVE IInv'
    BY <2>5, EndKeeps DEF EditFile
  <2>6. CASE Expire
    BY <2>6, EndKeeps DEF Expire, End, IInv, RequestTypeOK
  <2>7. CASE Keep
    BY <2>7, KeepKeeps
  <2>8. CASE UNCHANGED vars
    BY <2>8, EndKeeps DEF vars, IInv, RequestTypeOK
  <2> QED
    BY <2>1, <2>2, <2>3, <2>4, <2>5, <2>6, <2>7, <2>8 DEF Next, Night
<1> QED
  BY <1>1, <1>2, PTL DEF Spec

-----------------------------------------------------------------------------
(* What follows                                                            *)

\* Every reachable entry and history of a workspace is well typed.
THEOREM RequestTyped == Spec => []RequestTypeOK
<1>1. IInv => RequestTypeOK
  BY DEF IInv
<1> QED
  BY <1>1, Inductive, PTL

\* For every limit, number of extensions and behaviour of the user, no
\* workspace lives longer than maxextensions + 1 times the limit.
THEOREM LifeLimited == Spec => []LifeBounded
<1>1. IInv => LifeBounded
  <2> SUFFICES ASSUME IInv, Readable PROVE age + ws.left <= LongestLife
    BY DEF LifeBounded
  <2>1. /\ age + ws.left <= Limit * (MaxExtensions + 1 - ws.ext)
        /\ ws.ext \in 0 .. MaxExtensions /\ ws.left \in Nat /\ age \in Nat
    BY ReadableTyped DEF IInv, Paid, RequestTypeOK, Workspace
  <2> DEFINE k == MaxExtensions + 1 - ws.ext
             m == MaxExtensions + 1
  <2>2. k \in Nat /\ m \in Nat /\ k <= m
    BY <2>1, RequestAssumption
  <2>3. Limit * k <= Limit * m /\ Limit * k \in Nat /\ Limit * m \in Nat
    BY <2>2, MoreLives, OneMore
  <2> QED
    BY <2>1, <2>3 DEF LongestLife
<1> QED
  BY <1>1, Inductive, PTL

\* No workspace with a reminder expires without a mail, when a night was left
\* to send it after the last change of the entry.
THEOREM RemindersSent == Spec => ReminderSent
<1>1. IInv => (Expire /\ ws.rem >= 1 /\ asked >= 1 => mailed)
  BY ReadableTyped DEF IInv, Pending, Expire, Expired, Workspace
<1> QED
  BY <1>1, Inductive, PTL DEF ReminderSent

\* An extension without a reminder, on the command line or by default, leaves the
\* reminder and its address, and no address is lost by any step.
THEOREM RemindersKept == Spec => ReminderKept
<1> DEFINE Kept == Readable /\ Readable' =>
                     /\ ws.mail # None => ws'.mail # None
                     /\ last' # None =>
                           LET r == Reminder(last', file)
                           IN  /\ r = 0 => ws'.rem = ws.rem
                               /\ r = 0 /\ last'.mail = None => ws'.mail = ws.mail
<1>1. ASSUME NEW r \in Request, Create(r) PROVE Kept
  BY <1>1 DEF Create, Readable
<1>2. ASSUME NEW r \in Request, Reuse(r) PROVE Kept
  BY <1>2 DEF Reuse
<1>3. ASSUME NEW r \in Request, Extend(r) PROVE Kept
  <2>1. PICK d, cost : Write(UseExtension(ws, d, cost, Reminder(r, file), MailOf(r, file)))
    BY <1>3 DEF Extend
  <2>2. last' = r
    BY <1>3 DEF Extend
  <2>3. Reminder(r, file) = 0 => MailOf(r, file) = r.mail
    BY DEF MailOf
  <2>4. CASE ws' = ws
    BY <2>2, <2>4
  <2>5. CASE ws' = Broken
    BY <2>5 DEF Readable
  <2>6. CASE ws' = UseExtension(ws, d, cost, Reminder(r, file), MailOf(r, file))
    <3>1. /\ ws'.rem = IF Reminder(r, file) = 0 THEN ws.rem ELSE Reminder(r, file)
          /\ ws'.mail = IF MailOf(r, file) = None THEN ws.mail ELSE MailOf(r, file)
      BY <2>6 DEF UseExtension
    <3> QED
      BY <2>2, <2>3, <3>1
  <2> QED
    BY <2>1, <2>4, <2>5, <2>6 DEF Write
<1>4. ASSUME RequestTypeOK, Keep PROVE Kept
  <2>1. ws'.mail = ws.mail /\ last' = None
    BY <1>4, ReadableTyped, RequestAssumption DEF Keep, Workspace
  <2> QED
    BY <2>1
<1>5. ASSUME \/ Release \/ Expire
             \/ \E f \in Files : EditFile(f)
      PROVE  Kept
  BY <1>5 DEF Release, Expire, End, EditFile, Readable
<1>6. IInv /\ [Next]_vars =>
        [Readable /\ Readable' =>
          /\ ws.mail # None => ws'.mail # None
          /\ last' # None =>
                LET r == Reminder(last', file)
                IN  /\ r = 0 => ws'.rem = ws.rem
                    /\ r = 0 /\ last'.mail = None => ws'.mail = ws.mail]_vars
  BY <1>1, <1>2, <1>3, <1>4, <1>5 DEF Next, Night, IInv
<1> QED
  BY <1>6, Inductive, PTL DEF Spec, ReminderKept
=============================================================================
