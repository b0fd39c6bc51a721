---------------------------- MODULE WsPrivileges ----------------------------
(***************************************************************************)
(* The ids and capabilities with which ws_allocate, ws_release and         *)
(* ws_restore make their system calls.  In the setuid build a tool moves   *)
(* between root, the DB user and the caller, in the other build it raises  *)
(* and lowers capabilities; raise_cap and lower_cap stand for both.  A     *)
(* tool is the sequence of its calls, and an operation on the file systems *)
(* may fail where the code looks at its result.                            *)
(***************************************************************************)
EXTENDS SequencesExt

CONSTANTS
    Builds,   \* "setuid" and "cap", with or without -DSETUID
    Callers,  \* "user" and "root"
    Squashed  \* the DB is on a file system where root has no rights (root_squash)

ASSUME PrivilegeAssumption ==
    /\ Builds \subseteq {"setuid", "cap"}
    /\ Callers \subseteq {"user", "root"}
    /\ Squashed \in BOOLEAN

Caps == {"DAC", "READ", "CHOWN", "FOWNER"}

VARIABLES
    build, caller,
    tool,    \* the tool that runs
    rest,    \* the calls left to make
    euid, egid,
    permitted, effective,
    refused  \* a change of ids or capabilities has failed, and the tool has ended

vars == <<build, caller, tool, rest, euid, egid, permitted, effective, refused>>

-----------------------------------------------------------------------------
(* The programs.  <<"do", x>> is an operation whose failure is only         *)
(* reported, <<"try", x, C>> one that ends the tool after lowering C.       *)

Raise(c) == <<"raise", c>>
Lower(c) == <<"lower", c>>
Do(x)    == <<"do", x>>
Work     == <<"work">>      \* nothing that needs a privilege

Raised(c, step) == <<Raise(c), step, Lower(c)>>

\* Workspace::Workspace reads ws_private.conf.
Construct == Raised("DAC", Do("private")) \o <<Work>>

\* Mutation: the entry is written before the capability is raised.
WriteDbUnraised == <<<<"db">>, Do("db write"), Raise("DAC")>>
                   \o Raised("FOWNER", Do("db chmod"))
                   \o <<<<"root">>, Lower("DAC"), <<"chown">>, Work>>

\* WsDB::write_dbfile; "db" and "root" are the blocks of the setuid build, and
\* the change of the owner is the one of the other build.
WriteDb == <<Raise("DAC"), <<"db">>, Do("db write")>>
           \o Raised("FOWNER", Do("db chmod"))
           \o <<<<"root">>, Lower("DAC"), <<"chown">>, Work>>

Drop(C, id) == <<<<"drop", C, id>>, Work>>

AllocateCaps == {"DAC", "CHOWN", "FOWNER"}

Release ==
    Drop(AllocateCaps, "db") \o Construct \o WriteDb
    \o <<Raise("DAC"), Raise("FOWNER"), <<"db">>, <<"try", "db rename", {"DAC", "FOWNER"}>>,
         Lower("DAC"), Lower("FOWNER"), Work>>
    \o Raised("DAC", <<"try", "dir rename", {"DAC"}>>) \o <<Work>>

Program ==
    [extend   |-> Drop(AllocateCaps, "caller") \o Construct \o WriteDb,
     allocate |-> Drop(AllocateCaps, "caller") \o Construct
                  \o Raised("DAC", <<"try", "dir make", {"DAC"}>>)
                  \o Raised("CHOWN", <<"try", "dir chown", {"CHOWN"}>>)
                  \o Raised("FOWNER", <<"try", "dir chmod", {"FOWNER"}>>)
                  \o <<Work>> \o WriteDb,
     release  |-> Release,
     wipe     |-> Release
                  \o <<Raise("FOWNER"), <<"caller">>, Do("data delete"), <<"euid root">>,
                       Lower("FOWNER"), Work, Do("dir delete"),
                       Raise("DAC"), <<"db">>, Do("db unlink"), Lower("DAC"), Work>>,
     restore  |-> Drop({"DAC", "READ"}, "db") \o Construct
                  \o <<Raise("DAC"), Raise("READ"), Do("dir rename"), <<"db">>,
                       Do("db unlink"), <<"root">>, Lower("DAC"), Lower("READ"), Work>>]

-----------------------------------------------------------------------------
(* What the system allows                                                  *)

Step == Head(rest)

\* seteuid and setegid: root may take any id, others only the real, the saved
\* and the effective one; the saved uid of a setuid program is root.
UidAllowed(id) == euid = "root" \/ id \in {caller, "root", euid}
GidAllowed(id) == euid = "root" \/ id \in {caller, egid}

\* The right a capability gives, which root has without it.
Has(c) == IF build = "setuid" THEN euid = "root" ELSE c \in effective

\* The DB and the spaces belong to the DB user, on a file system that squashes
\* root to him alone ...
OwnDb == build = "setuid" /\ euid = "db"
InDb(c) == OwnDb \/ (Has(c) /\ ~(build = "setuid" /\ Squashed))

\* ... and a workspace to the caller, whom the data are deleted as.
May(x) ==
    CASE x = "private"                              -> Has("DAC")
      [] x \in {"db write", "db rename", "db unlink"} -> InDb("DAC")
      [] x = "db chmod"                             -> InDb("FOWNER")
      [] x = "db chown"                             -> Has("CHOWN")
      [] x \in {"dir make", "dir delete"}           -> OwnDb \/ Has("DAC")
      [] x = "dir chown"                            -> Has("CHOWN")
      [] x = "dir chmod"                            -> Has("FOWNER")
      [] x = "dir rename"                           -> Has("DAC")
      [] x = "data delete"                          -> build = "cap" \/ euid = caller

-----------------------------------------------------------------------------
\* The caller starts a tool; --delete-data is not offered to root.
Init ==
    /\ build \in Builds /\ caller \in Callers
    /\ tool \in DOMAIN Program
    /\ tool = "wipe" => caller = "user"
    /\ rest = Program[tool]
    /\ euid = (IF build = "setuid" THEN "root" ELSE caller) /\ egid = caller
    /\ permitted = (IF build = "cap" THEN Caps ELSE {}) /\ effective = {}
    /\ refused = FALSE

\* A call that changes ids or capabilities; when it fails, the tool ends.
Change(allowed, uid, gid, perm, eff) ==
    /\ IF allowed
       THEN /\ euid' = uid /\ egid' = gid /\ permitted' = perm /\ effective' = eff
            /\ rest' = Tail(rest)
            /\ UNCHANGED refused
       ELSE /\ refused' = TRUE /\ rest' = <<>>
            /\ UNCHANGED <<euid, egid, permitted, effective>>
    /\ UNCHANGED <<build, caller, tool>>

Keep == UNCHANGED <<build, caller, tool, euid, egid, permitted, effective, refused>>

\* drop_cap
DropCaps ==
    /\ rest # <<>> /\ Step[1] = "drop"
    /\ IF build = "cap" THEN Change(Step[2] \subseteq permitted, euid, egid, Step[2], {})
       ELSE LET id == IF Step[3] = "caller" THEN caller ELSE Step[3]
            IN  Change(UidAllowed(id), id, egid, permitted, effective)

\* raise_cap
RaiseCap ==
    /\ rest # <<>> /\ Step[1] = "raise"
    /\ IF build = "cap"
       THEN Change(Step[2] \in permitted, euid, egid, permitted, effective \cup {Step[2]})
       ELSE Change(UidAllowed("root"), "root", egid, permitted, effective)

\* lower_cap
LowerCap ==
    /\ rest # <<>> /\ Step[1] = "lower"
    /\ IF build = "cap"
       THEN Change(TRUE, euid, egid, permitted, effective \ {Step[2]})
       ELSE Change(UidAllowed("db"), "db", egid, permitted, effective)

\* Mutation: seteuid before setegid.
BecomeDbUidFirst ==
    /\ rest # <<>> /\ Step[1] = "db"
    /\ IF build = "cap" THEN rest' = Tail(rest) /\ Keep
       ELSE Change(UidAllowed("db") /\ egid = "db", "db", "db", permitted, effective)

\* setegid(dbgid) || seteuid(dbuid), #ifdef SETUID
BecomeDb ==
    /\ rest # <<>> /\ Step[1] = "db"
    /\ IF build = "cap" THEN rest' = Tail(rest) /\ Keep
       ELSE Change(GidAllowed("db") /\ UidAllowed("db"), "db", "db", permitted, effective)

\* seteuid(0) || setegid(0), #ifdef SETUID
BecomeRoot ==
    /\ rest # <<>> /\ Step[1] = "root"
    /\ IF build = "cap" THEN rest' = Tail(rest) /\ Keep
       ELSE Change(UidAllowed("root"), "root", "root", permitted, effective)

\* seteuid(getuid()), and seteuid(0), around the deletion of data
BecomeCaller ==
    /\ rest # <<>> /\ Step[1] \in {"caller", "euid root"}
    /\ IF build = "cap" THEN rest' = Tail(rest) /\ Keep
       ELSE LET id == IF Step[1] = "caller" THEN caller ELSE "root"
            IN  Change(UidAllowed(id), id, egid, permitted, effective)

\* The owner of a new entry is set in the build that did not write it as DB user.
ChangeOwner ==
    /\ rest # <<>> /\ Step[1] = "chown"
    /\ rest' = (IF build = "cap" THEN Raised("CHOWN", Do("db chown")) ELSE <<>>) \o Tail(rest)
    /\ Keep

\* Mutation: a failed operation ends the tool without lowering anything.
OperateUnlowered ==
    /\ rest # <<>> /\ Step[1] \in {"do", "try"}
    /\ rest' = Tail(rest) \/ (Step[1] = "try" /\ rest' = <<Work>>)
    /\ Keep

\* An operation may fail for reasons of its own.
Operate ==
    /\ rest # <<>> /\ Step[1] \in {"do", "try"}
    /\ \/ rest' = Tail(rest)
       \/ /\ Step[1] = "try"
          /\ rest' = SetToSeq({Lower(c) : c \in Step[3]}) \o <<Work>>
    /\ Keep

Proceed == rest # <<>> /\ Step = Work /\ rest' = Tail(rest) /\ Keep

Next ==
    \/ DropCaps
    \/ RaiseCap
    \/ LowerCap
    \/ BecomeDb
    \/ BecomeRoot
    \/ BecomeCaller
    \/ ChangeOwner
    \/ Operate
    \/ Proceed

Spec == Init /\ [][Next]_vars

-----------------------------------------------------------------------------
\* Every operation is made with the rights it needs, in both builds and for
\* root as for others, whatever failed before.  Only ws_release without setuid
\* cannot delete the emptied directory, which it leaves to the expirer.
Entitled ==
    rest # <<>> /\ Step[1] \in {"do", "try"} =>
        May(Step[2]) \/ (build = "cap" /\ Step[2] = "dir delete")

\* No change of ids or capabilities fails: the group is changed while the
\* process is still root, and no capability is raised that was dropped.
NeverRefused == ~refused

\* admin-guide.md: "the setuid tools spend most of their time with the privileges
\* of that user": between the operations, and at every end, nothing is left
\* raised, and the process is not root.
NothingRaised ==
    rest = <<>> \/ Step = Work => effective = {} /\ euid \in {"db", caller}

\* wsdb.cpp: "for filesystem with root_squash, we need to be DB user here".
SquashSafe ==
    rest # <<>> /\ Step \in {Do("db write"), Do("db chmod"), Do("db unlink")} => May(Step[2])
=============================================================================
