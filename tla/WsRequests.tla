----------------------------- MODULE WsRequests -----------------------------
(***************************************************************************)
(* What ws_allocate makes of its command line, of ~/.ws_user.conf and of   *)
(* the defaults of ws.conf for one workspace, and what ws_expirer does     *)
(* about it night by night: the reminder mails and the expiration.  Users  *)
(* call the tools by day, ws_expirer runs every night.                     *)
(***************************************************************************)
EXTENDS Integers

CONSTANTS
    Limit,            \* "duration" of ws.conf: the longest life, in days
    MaxExtensions,    \* "maxextensions" of ws.conf
    DurationDefault,  \* "durationdefault" of ws.conf
    ReminderDefault,  \* "reminderdefault" of ws.conf
    Files,            \* the contents of ~/.ws_user.conf
    Days,             \* the arguments of -d
    Reminders,        \* the arguments of -r
    Addresses,        \* mail addresses
    Stray,            \* what an int holds that was never assigned
    Local,            \* the user's local account, as an address
    Illegal,          \* a line that is no address
    Broken,           \* an entry that a failed write has left without content
    None              \* no entry, no value

\* The file has one line with an address (the old format), or is YAML: its
\* first line is a key or a comment, or blank or missing, or the mark "---".
File == [form : {"old", "key", "blank", "mark"}, mail : Addresses \cup {None},
         rem : Nat \cup {None}, dur : Int \cup {None}]

ASSUME RequestAssumption ==
    /\ Limit \in Nat /\ MaxExtensions \in Nat
    /\ DurationDefault \in Int /\ ReminderDefault \in Nat
    /\ Files \subseteq File
    /\ Days \subseteq Int /\ Stray \subseteq Int /\ Reminders \subseteq Nat
    /\ None \notin Int /\ None \notin Addresses \cup {Local, Illegal}
    /\ Illegal \notin Addresses \cup {Local}

Request == [ext : BOOLEAN, dur : Days \cup {None}, rem : Reminders \cup {None},
            mail : Addresses \cup {None}]

VARIABLES
    file,    \* ~/.ws_user.conf
    ws,      \* the entry: left (days until the expiration), ext, rem, mail
    last,    \* the request to change the entry that was just made, or None
    age,     \* history: nights since the creation, up to one more than LongestLife
    asked,   \* history: days that were left at the last change of the entry
    mailed   \* history: sending a mail has been tried since that change

vars == <<file, ws, last, age, asked, mailed>>

Workspace == [left : 0 .. Limit, ext : 0 .. MaxExtensions, rem : Nat,
              mail : Addresses \cup {Local, None}]

\* A missing entry, or one without content, is not taken for a workspace.
ASSUME EntryAssumption == None \notin Workspace /\ Broken \notin Workspace

RequestTypeOK ==
    /\ file \in Files
    /\ ws \in Workspace \cup {None, Broken}
    /\ last \in Request \cup {None}
    /\ age \in Nat /\ asked \in Nat /\ mailed \in BOOLEAN

-----------------------------------------------------------------------------
(* The command line                                                        *)

\* Neither the file nor durationdefault is looked at when the file is in the
\* old format: the duration is then whatever main left on the stack.
Durations(r, f) ==
    IF r.dur # None THEN {r.dur}
    ELSE IF f.form = "old" THEN Stray
    ELSE IF f.dur # None THEN {f.dur}
    ELSE {DurationDefault}

\* The reminder starts at 0, and keeps that with a file in the old format.
Reminder(r, f) ==
    IF r.rem # None THEN r.rem
    ELSE IF f.form = "old" THEN 0
    ELSE IF f.rem # None THEN f.rem
    ELSE ReminderDefault

\* A first line without a colon is taken for the address itself.
Address(r, f) ==
    CASE r.mail # None -> r.mail
      [] r.mail = None /\ f.form = "mark" -> Illegal
      [] r.mail = None /\ f.form \in {"old", "key"} /\ f.mail # None -> f.mail
      [] OTHER -> Local

\* An address is only looked for when there is a reminder.
MailOf(r, f) == IF Reminder(r, f) # 0 THEN Address(r, f) ELSE r.mail

Accepted(r, f) ==
    IF Reminder(r, f) # 0 THEN Address(r, f) # Illegal
    ELSE r.mail = None \/ r.ext

\* Workspace::validate: durations that are too long or negative.
Clamp(d) == IF d > Limit \/ d < 0 THEN Limit ELSE d

-----------------------------------------------------------------------------
(* The calls of the day                                                    *)

Init ==
    /\ file \in Files
    /\ ws = None /\ last = None
    /\ age = 0 /\ asked = 0 /\ mailed = FALSE

\* The tools can read the entry; else they end with an error, and the expirer
\* passes over it.
Readable == ws \notin {None, Broken}

\* The entry is written, and what was sent before does not count any more.
\* write_dbfile only reports it when the file cannot be opened, which leaves
\* it as it is, or when the write fails, which leaves it without content.
Write(e) ==
    \/ ws' = e /\ asked' = e.left /\ mailed' = FALSE
    \/ UNCHANGED <<ws, asked, mailed>>
    \/ ws' = Broken /\ asked' = 0 /\ mailed' = FALSE

Create(r) ==
    /\ ws = None /\ ~r.ext
    /\ Accepted(r, file)
    /\ \E d \in Durations(r, file) :
          Write([left |-> Clamp(d), ext |-> MaxExtensions,
                 rem |-> Reminder(r, file), mail |-> MailOf(r, file)])
    /\ last' = r
    /\ age' = 0
    /\ UNCHANGED file

\* Without -x nothing is changed, whatever -r and -m say.
Reuse(r) ==
    /\ Readable /\ ~r.ext
    /\ Accepted(r, file)
    /\ last' = None
    /\ UNCHANGED <<file, ws, age, asked, mailed>>

\* WsDB::use_extension: an extension is used if the expiration moves to a
\* later second, which the same number of days may or may not do.
Costs(e, d) ==
    CASE d = 0 \/ d < e.left -> {0}
      [] d > e.left -> {1}
      [] OTHER -> {0, 1}

\* Mutation: an extension always takes the reminder and the address it has.
Overwritten(e, d, cost, rem, mail) ==
    [left |-> IF d = 0 THEN e.left ELSE d, ext |-> e.ext - cost,
     rem |-> rem, mail |-> mail]

\* Mutation: an extension renews the extensions.
Renewed(e, d, cost, rem, mail) ==
    [left |-> IF d = 0 THEN e.left ELSE d, ext |-> MaxExtensions,
     rem |-> IF rem = 0 THEN e.rem ELSE rem,
     mail |-> IF mail = None THEN e.mail ELSE mail]

UseExtension(e, d, cost, rem, mail) ==
    [left |-> IF d = 0 THEN e.left ELSE d, ext |-> e.ext - cost,
     rem |-> IF rem = 0 THEN e.rem ELSE rem,
     mail |-> IF mail = None THEN e.mail ELSE mail]

\* Mutation: the extensions that are left are not looked at.
Unchecked(e, cost) == TRUE

Affordable(e, cost) == e.ext >= cost

Extend(r) ==
    /\ Readable /\ r.ext
    /\ Accepted(r, file)
    /\ \E stated \in Durations(r, file) :
       LET d == Clamp(stated)
       IN  \E cost \in Costs(ws, d) :
              /\ Affordable(ws, cost)
              /\ Write(UseExtension(ws, d, cost, Reminder(r, file), MailOf(r, file)))
    /\ last' = r
    /\ UNCHANGED <<file, age>>

\* The entry is gone, and its history with it.
End == ws' = None /\ last' = None /\ age' = 0 /\ asked' = 0 /\ mailed' = FALSE

Release == Readable /\ End /\ UNCHANGED file

EditFile(f) == file' = f /\ last' = None /\ UNCHANGED <<ws, age, asked, mailed>>

-----------------------------------------------------------------------------
(* The night: a run of ws_expirer, some time after the calls of the day    *)

Expired(e) == e.left <= 0

Expire == Readable /\ Expired(ws) /\ End /\ UNCHANGED file

\* Mutation: one day too late.
MailDueLater(e) == e.left < e.rem /\ e.mail # None

\* A mail is sent every night from rem days before the expiration on.
MailDue(e) == e.left <= e.rem /\ e.mail # None

\* The longest time a user may keep a workspace.
LongestLife == Limit * (MaxExtensions + 1)

\* send_reminder: a mail that cannot be sent is only reported.
SendReminder == mailed' = TRUE

Keep ==
    /\ Readable /\ ~Expired(ws)
    /\ ws' = [ws EXCEPT !.left = @ - 1]
    /\ IF MailDue(ws) THEN SendReminder ELSE UNCHANGED mailed
    /\ age' = IF age <= LongestLife THEN age + 1 ELSE age
    /\ last' = None
    /\ UNCHANGED <<file, asked>>

Night == Expire \/ Keep

Next ==
    \/ \E r \in Request : Create(r) \/ Reuse(r) \/ Extend(r)
    \/ Release
    \/ \E f \in Files : EditFile(f)
    \/ Night

Spec == Init /\ [][Next]_vars

\* cron starts ws_expirer every night.
FairSpec == Spec /\ WF_vars(Night)

-----------------------------------------------------------------------------
(* What users and administrators rely on                                   *)

\* admin-guide.md: "Maximum lifetime in days" and "Maximum number of times a
\* user can extend a workspace": whatever sequence of extensions, shortenings
\* and changes of the reminder a user makes, he keeps a workspace no longer
\* than that many lives.
LifeBounded == Readable => age + ws.left <= LongestLife

\* user-guide.md: "To get a reminder email before the workspace expires, you
\* can set a reminder alarm": no workspace with a reminder expires without a
\* mail, if there was a night left to send it when it was last changed.
ReminderSent ==
    [][Expire /\ ws.rem >= 1 /\ asked >= 1 => mailed]_vars

\* An extension that says nothing about the reminder, neither on the command
\* line nor by a default, leaves it and the address as they are; it may get
\* an address, which never gets lost.
ReminderKept ==
    [][Readable /\ Readable' =>
          /\ ws.mail # None => ws'.mail # None
          /\ last' # None =>
                LET r == Reminder(last', file)
                IN  /\ r = 0 => ws'.rem = ws.rem
                    /\ r = 0 /\ last'.mail = None => ws'.mail = ws.mail]_vars

\* Every workspace comes to its end, however the user extends it; only one whose
\* entry was lost by a failed write stays for good.
EventuallyExpires == Readable ~> ws = None \/ ws = Broken

\* admin-guide.md on durationdefault: "Lifetimes in days attached to a
\* workspace if user does not specify it".
DefaultDuration ==
    [][ws = None /\ Readable' /\ last'.dur = None =>
          ws'.left = Clamp(IF file.dur # None THEN file.dur ELSE DurationDefault)]_vars
=============================================================================
