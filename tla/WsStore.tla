------------------------------ MODULE WsStore ------------------------------
(***************************************************************************)
(* The two stores that every workspace tool shares, for one workspace      *)
(* location ("filesystem" in ws.conf): the DB directory with one entry     *)
(* file per workspace, and the spaces with one data directory per          *)
(* workspace.  Nothing locks either of them: the primitives below are the  *)
(* system calls the tools make, and only these are atomic.                 *)
(*                                                                         *)
(* Both stores hold live names ("user-name") and, in the "deleted"         *)
(* subdirectory, removed names ("user-name-timestamp").  A name is a pair  *)
(* of an Id and a label; the label Live stands for the live directory.     *)
(***************************************************************************)
EXTENDS Naturals

CONSTANTS
    Ids,        \* "user-name": the name of an entry and of its directory
    Spaces,     \* the data directories of the location
    Procs,      \* the tool processes that may run at the same time
    Data,       \* what the jobs of the users write into their workspaces
    MaxTime,    \* bound on the clock
    MaxExt,     \* maxextensions of ws.conf
    None,       \* no file, no process state
    Empty,      \* the content of an entry file between open and write
    Unwritten,  \* a datum that no job has written yet
    Gone        \* a datum that has been deleted

Live  == 0
Time  == 1 .. MaxTime          \* time(NULL), in ticks
Label == {Live} \cup Time
Key   == Ids \X Label          \* names in the DB directory
Path  == Spaces \X Ids \X Label \* names in the spaces

\* The fields of a DB entry that the tools act on.  The basename of the path
\* in "workspace" is always the entry's own name, so only its space is kept.
Entry == [space : Spaces, exp : Nat, ext : 0 .. MaxExt, rel : Label]

ASSUME StoreAssumption ==
    /\ MaxTime \in Nat \ {0}
    /\ MaxExt \in Nat
    /\ None \notin Entry /\ Empty \notin Entry /\ None # Empty
    /\ None \notin Key /\ None \notin Ids
    /\ Unwritten \notin Path /\ Gone \notin Path /\ Unwritten # Gone

VARIABLES
    now,    \* the clock
    entry,  \* [Key -> Entry \cup {Empty, None}]: the DB directory
    open,   \* [Procs -> Key \cup {None}]: the name of the file a process has
            \* open for writing; it follows the file when that is renamed
    dirs,   \* SUBSET Path: the directories in the spaces
    where   \* [Data -> Path \cup {Unwritten, Gone}]: where each datum is

storeVars == <<now, entry, open, dirs, where>>

StoreTypeOK ==
    /\ now \in Time
    /\ entry \in [Key -> Entry \cup {Empty, None}]
    /\ open \in [Procs -> Key \cup {None}]
    /\ dirs \in SUBSET Path
    /\ where \in [Data -> Path \cup {Unwritten, Gone}]

StoreInit ==
    /\ now = 1
    /\ entry = [k \in Key |-> None]
    /\ open = [p \in Procs |-> None]
    /\ dirs = {}
    /\ where = [d \in Data |-> Unwritten]

-----------------------------------------------------------------------------
Contents(path) == {d \in Data : where[d] = path}

\* fs::exists, and a read that finds a parsable entry
Exists(k)   == entry[k] # None
Readable(k) == entry[k] \in Entry

\* rename(2) of an entry file replaces a file of the new name; an open file
\* keeps its identity.
RenameEntry(from, to) ==
    /\ entry' = [entry EXCEPT ![to] = entry[from], ![from] = None]
    /\ open' = [p \in Procs |-> CASE open[p] = from -> to
                                  [] open[p] = to   -> None
                                  [] OTHER          -> open[p]]

\* unlink(2): an open file has no name any more.
UnlinkEntry(k) ==
    /\ entry' = [entry EXCEPT ![k] = None]
    /\ open' = [p \in Procs |-> IF open[p] = k THEN None ELSE open[p]]

\* ofstream(name): the file is created or truncated ...
OpenEntry(p, k) ==
    /\ entry' = [entry EXCEPT ![k] = Empty]
    /\ open' = [open EXCEPT ![p] = k]

\* ... and receives its content only when the stream is written and closed.
WriteEntry(p, e) ==
    /\ entry' = IF open[p] = None THEN entry
                ELSE [entry EXCEPT ![open[p]] = e]
    /\ open' = [open EXCEPT ![p] = None]

\* rename(2) of a directory: it fails on a missing source, and on a target
\* that exists and is not empty.
CanRename(from, to) == from \in dirs /\ (to \in dirs => Contents(to) = {})

\* The directory from becomes to (or, by mv, a part of it when it exists).
MoveDir(from, to) ==
    /\ dirs' = (dirs \ {from}) \cup {to}
    /\ where' = [d \in Data |-> IF where[d] = from THEN to ELSE where[d]]

\* A removal of a directory tree that leaves the data in rest behind.
RemoveTree(path, rest) ==
    /\ dirs' = IF rest = {} THEN dirs \ {path} ELSE dirs
    /\ where' = [d \in Data |->
                    IF where[d] = path /\ d \notin rest THEN Gone ELSE where[d]]

Tick ==
    /\ now < MaxTime
    /\ now' = now + 1
    /\ UNCHANGED <<entry, open, dirs, where>>
=============================================================================
