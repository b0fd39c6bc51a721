# Verification of the workspace tools

This directory holds TLA+ models of the workspace tools of hpc-workspace: the
C++ tools `ws_allocate`, `ws_release` and `ws_restore`, the scripts around them
and the cleaner `ws_expirer`.  The models are checked with TLC on small
instances, and the most important properties are proved with TLAPS for all
instances.  Line numbers refer to the files of the repository.

## The system

A *workspace* is a directory with a limited life.  `/etc/ws.conf` defines
*locations* ("filesystems"); each has a DB directory with one YAML entry per
workspace, and some *spaces* with one directory per workspace.  A name
`user-name` is used in both.  A workspace that is released or has expired is
renamed to `user-name-timestamp` in the `deleted` subdirectory of the DB and of
its space, and is deleted some days later.

| component | state | operations |
|---|---|---|
| store (`wsdb.cpp`, the file systems) | entry files, directories, data | create, truncate and write, rename, unlink an entry; make, rename, delete a directory |
| `ws_allocate` (`ws.cpp` 130-463) | its copy of an entry | reuse, create, extend (`-x`, `use_extension`) |
| `ws_release` (469-617) | copy of the entry, timestamp | mark as released, rename entry, rename directory, `--delete-data` |
| `ws_restore` (905-986) | target directory, copy of the entry | move a removed directory into a live workspace, unlink the entry |
| `sbin/ws_restore` | copy of the entry | check, rename entry, rename directory back |
| `ws_expirer` | lists of names, the entry at work | phase 1 stray directories, phase 2 expiration, phase 3 deletion |
| configuration (`ws.cpp` 624-846, 1182-1276) | `ws.conf` | default location, access lists, limits |
| `ws_find`, `ws_list`, `ws_register` | links in the user's directory | search, listing, synchronisation of links |
| privileges (`ws.cpp` 992-1180) | effective user, capabilities | raise, lower, drop |
| command line (`ws_allocate.cpp`, `~/.ws_user.conf`), reminders of `ws_expirer` | duration, extensions, reminder, address of an entry | defaults, extension, nightly mail, expiration |
| `ws_send_ical`, `ws_share`, `ruh`, `ws_prepare`, `ws_validate_config`, `old/` | none of their own | I/O |

The tools never talk to each other.  They share the two stores, there is no
lock, and everything is done with single system calls in a fixed order.  What is
hard is therefore

* every interleaving of the system calls of several tools and of the expirer,
  which lists files first and acts on the lists later;
* the window inside `write_dbfile` in which the entry is empty;
* a process killed between two steps that belong together, and a write of an
  entry that fails and is only reported;
* the clock, with a resolution of a second, as the source of unique names;
* that everything left over anywhere is cleaned up some day;
* moves between file systems, which are a `mv` in a forked child;
* the effective user and the capabilities around every system call;
* a DB that is not mounted while the cleaner runs;
* long sequences of extensions, shortenings and changes of the reminder;
* the agreement of tools in two languages on what `ws.conf` says, while the
  administrator edits it.

What makes the components correct:

* the expirer never takes away a workspace that is in use, and never deletes
  data before it may (`HeldNotStray`, `RetiredOnlyIfLapsed`, `KeptWhileHeld`,
  `RestorableUntilDue`), not even when a DB is not mounted (`DataKept`), and in
  the end deletes what it should (`EventuallyClean`, `Served`);
* no file is lost or left behind on its way to another file system
  (`NothingLost`, `NoneLeftBehind`), and every file stays in a directory that an
  entry leads to (`Reachable`);
* no entry stays empty unless its writer was killed or its write failed
  (`OneEmptyPerFault`);
* an entry names a directory that exists (`EntryHasDir`), extensions are
  limited (`ExtensionBudget`, `WithinLimit`), and with them the life of a
  workspace (`LifeBounded`, `EventuallyExpires`);
* no workspace expires without the reminder the user has asked for
  (`ReminderSent`), which no extension loses (`ReminderKept`);
* a user keeps getting the same path (`StablePath`), no call replaces a
  workspace (`EntryKept`), the tools find what was allocated
  (`FindsAllocated`), what is listed can be restored (`ListedRestorable`), and
  links are current (`LinksCurrent`): the last two the code does not live up to,
  nor to `EntryKept` with some colleagues and `ExtensionBudget` with several
  processes (see Known weaknesses);
* a tool has the rights for what it does, and no more than that in between
  (`Entitled`, `NeverRefused`, `NothingRaised`);
* all of it together looks to the users like a few atomic operations on
  workspaces (`LifeImplemented`).

`PROJECT.json` lists the hazards at their lines, with the properties that catch
each, and says of the others which configuration shows that the code goes wrong
there.

## The modules

| module | what it is |
|---|---|
| `WsStore` | the stores of one location and the system calls on them |
| `WsTools` | the tools of users and administrator, one system call per step |
| `WsExpirer` | the runs of `ws_expirer`, one system call or listing per step |
| `WsSystem` | the composition, crashes and failing writes, the clock, fairness, history variables |
| `WsProperties` | the properties of the composition and the invariant they rest on |
| `WsLife` | the abstract specification: the life of workspaces, one step per operation |
| `WsRefinement` | the mapping under which `WsSystem` implements `WsLife` |
| `MCSystem` | values for TLC (symmetry) |
| `WsProperties_proofs` | type correctness, the inductive invariant, the safety of the expirer and of the writers, proved |
| `WsQuiet_proofs` | the invariants of a quiet site, that data stay restorable there, and which sentences of the repository are true there, proved |
| `WsRefinement_proofs` | the refinement, proved |
| `WsLocations` | the locations of `ws.conf` as one user meets them, and their properties |
| `MCLocations` | configurations for TLC |
| `WsRecovery` | `WsLocations` with removed workspaces, their listing and their restore |
| `MCRecovery` | configurations for TLC |
| `WsRecovery_proofs` | the properties of `WsLocations` and `WsRecovery`, proved |
| `WsRequests` | the requests for one workspace, its reminders and its expiration, day by day |
| `MCRequests` | values for TLC |
| `WsRequests_proofs` | the bound on its life and the reminders, proved |
| `WsMove` | one workspace moved between file systems: `rename`, `fork`, `exec`, `mv` |
| `WsMove_proofs` | that no file is lost, proved |
| `WsRuns` | the nightly runs of `ws_expirer` over all locations |
| `MCRuns`, `WsRuns_proofs` | values for TLC; that data with an entry are kept, proved |
| `WsPrivileges` | the ids and capabilities of the tools |
| `WsPrivileges_proofs` | that the tools have the rights they need and no more in between, proved |

### WsStore, WsTools, WsExpirer, WsSystem

`entry` maps a name (an id and a label, `Live` or the timestamp of a removal)
to the fields the tools act on: the space, `expiration`, `extensions` and
`released`.  `Empty` is an entry between truncation and write.  `open` keeps
which file a process has open, since a rename does not stop a writer:
`write_dbfile` of a slow `ws_allocate -x` writes into the entry under its
removed name.  `dirs` and `where` are the directories and the place of every
datum.  `RenameEntry`, `UnlinkEntry`, `OpenEntry`, `WriteEntry`, `MoveDir` and
`RemoveTree` are the system calls.

Each process of `tool` runs one tool; its `pc` names the next step and its
other fields are the local variables of the C++ code.  The actions follow the
code in its order:

| tool | actions |
|---|---|
| `ws_allocate` | `Reuse`; or `Allocate`, `MakeDir`, `CreateEntry`, `FinishWrite` |
| `ws_allocate -x` | `ReadForExtend`, `UseExtension`, `FinishWrite` |
| `ws_release` | `ReadForRelease`, `MarkReleased`, `FinishWrite`, `RetireEntry`, `RetireDir`, and with `--delete-data` `WipeData`, `ForgetEntry` |
| `ws_restore` | `ReadTarget`, `ReadSource`, `Refill`, `UnlinkSource` |
| `sbin/ws_restore` | `CheckRevivable`, `ReviveEntry`, `PutBack` |
| `ws_expirer` | `StartRun`, `ScanSpace`, `ListEntries`, `CheckEntry`, `VisitDir`, `ListRemovedEntries`, `ScanTrash`, `VisitTrash`; `ListLive`, `VisitEntry`, `ExpireEntry`, `ExpireDir`; `ListRemoved`, `VisitRemoved`, `UnlinkRemoved`, `DeleteRemoved`, `FinishRun` |

Choices that need a word:

* `fs::exists` and the read that follows are one step.  A file that vanishes in
  between only ends the tool, which is also what `Crash` does.
* A glob is one step per directory, as no file that exists throughout it is
  missed.
* A tool that ends with an error message without having changed a store is not
  a step.
* `Crash` also stands for `mkdir`, `chown` and `chmod` failing in `ws_allocate`,
  which exits there.
* `write_dbfile` only reports that the entry could not be written
  (`wsdb.cpp`:131-132), and the tool goes on.  When the file cannot be opened
  (`OpenFails`), the entry stays what it was: `ws_allocate` prints the path of a
  directory without an entry, which the expirer takes for stray, `-x` grants
  what is not written down, and `ws_release` removes an entry that is not marked
  as released.  When the content is lost (`WriteFails`), the entry stays
  truncated.  An entry is smaller than a buffer of the stream, so that it is
  `fout.close()` that writes it, of which nothing is even reported; a part of
  the content counts as none.  `faults` counts the failures together with the
  kills, and `DiskFails` is the action of `WsSystem`.
* Two processes that have the same file open overwrite each other's content;
  the last one wins.
* `DelDir` may leave data behind when its alarm goes off, but makes progress.
* An uncaught exception of `os.rename` or `os.unlink`, and the exit on an
  unreadable entry in phase 1, end the run: `Abort`.
* The comparison of phase 1 is by name, as in the code; the list of paths read
  from the entries has the same basenames.
* Moving a removed directory into an existing one (the fallback `mv`, and
  `ws_restore`) is a merge of the data; the nesting is not represented.

Six history variables are added: `held` are the names whose entries have
existed since the run began, `lapsed` the workspaces that were expired at some
moment of the run, `clobbered` the removed entries a later removal replaced,
`waived` the removed names with data whose deletion the user asked for, `reaped`
the removed names the expirer unlinked because the grace of a release was over
(a deletion that hits its time limit leaves data of them behind), `unmarked` the
removed names whose release could not be written down.  `used`
counts the extensions granted to a workspace, `told` the paths printed.  No
guard reads them.

### WsLife, WsRefinement

`WsLife` is what users are promised, without files, lists and positions in a
program: a workspace is created, prolonged, marked as released, removed,
refilled, revived, discarded or purged in one step each.  Every datum is part
of a live workspace or of a removed one, has strayed (`Stray`: it is in a
directory that is no workspace) or is deleted (`Gone`).  Without being asked
the expirer deletes strayed data and no others (`Delete`).  Data stray when
their workspace is discarded or purged, and in three ways that nobody asked for:

* a kill or a failed write (`Fault`) damages the workspace at work, and no other:
  it loses its entry, it stays live without its data or without the mark of its
  release, or its removed data lose their entry; `RemoveBroken` is the
  `ws_release` that goes on with an entry it has damaged;
* two removals of one name at one time: the second one takes over the entry, and
  its own data may not get past those of the first (`Remove`);
* data that are in the way: who creates a workspace, removes one into a name or
  revives one gets what is in the directory already (`Found`), and `Revive`
  leaves the data of the workspace behind when their place is taken.

An earlier form let data stray at kills only, apart from simultaneous removals.
It held in the run with its three calls and could not be proved: two removals
under one name leave a directory that is live and has no entry, and a later
revival finds its place taken though nothing was ever killed.  With five calls
TLC finds that behaviour too.

`WsRefinement` says at which system call an operation takes effect.  A
workspace changes when its entry is opened for writing (`Content`: what the
entry says, or will say when the writer is done), and its data follow the
entry, not the directory (`Owner`: while a tool is between the two renames, the
files in the directory already are part of what the entry has become).  The
administrator's `ws_restore` takes effect at its end: in between, the workspace
is still shown as removed (`Reviving`).  So every system call is either one step
of `WsLife` or none.

### WsLocations

Here every call is one step, for one user and one workspace name, and the
administrator edits `ws.conf` between the calls.  `May` and `FindMay` are the
readings of the access lists by the C++ tools and by `ws_find`; `Pick`, `Home`,
`Search` and `First` say where `ws_allocate` creates and searches.  `Reuse`,
`Extend`, `Create`, `Release` and `Register` are the calls.  Access lists are
sets of users and groups that contain the caller or not; the limits have the
exceptions of `ws_private.conf` worked in.  A workspace is in a directory, the
`dir` of its entry, that begins with the name of the user whose call made it
and is in one of the spaces of the location.

`ExtendFor` is a colleague's `ws_allocate -x -u`, which looks through the
locations in another way than the owner's call.  If there is no location he may
use, nothing is searched at all: the workspace counts as one that does not exist,
and `CreateFor` makes a new one, in a directory under the colleague's name, over
the owner's entry (`ws.cpp`:288-457).  `Marked` is the default that
`ws_list -l` marks, kept by `ws_list` in a variable of its own that the last
match wins.

### WsRecovery

The other half of a workspace's life in the same locations.  `Releases`,
`Expires` and `Purge` fill and empty `kept`, the removed entry of a location;
`place` is the directory every file is in.  `List` is `ws_restore -l` and
`RestoreInto` is `ws_restore`, for the user and for root who works for him.
`ws_restore` has its own copy of the filter over the locations, and the
library checks the location once more when it restores.  One removed workspace
per location is enough to tell the locations apart.

### WsMove

On a file system where `rename` of a directory fails with `EXDEV`,
`Workspace::mv` forks a child that runs `mv`, which copies file by file and then
removes file by file.  The command is at `rename`, `fork`, `wait` or `finish`,
the child at `exec`, `copy` or `remove`.  The four `Faults` are `fork` and
`exec` failing, the child killed at any file, and `mv` giving up at any file.
When `execl` fails, the child *returns* from `Workspace::mv` and goes on as a
second tool, which the model follows; the status of a killed child is 0.
`ws_expirer` has no such fallback: its directory stays where it is.  Meanwhile
the expirer takes an emptied name for stray, and deletes stray directories and
what is due.

### WsRuns

The runs of `ws_expirer` over all locations: three phases, each with the list
`todo` of the locations it has not left, and in each location the check of
`.ws_db_magic` (`CheckMagic`), the listings, and the work on what was listed.
`Unmount` takes away the DB of a location, `Mount` brings it back; with `Steady`
none disappears during its own visit.  `--space` (`Selected`, and `Containing`
for the comparison of paths as strings), the time limit of deletions
(`Endless`) and deletions that raise (`Failing`) are constants.  Here the
expirer is alone, and a workspace is its entry and its directory: what happens
beside running tools is the subject of `WsExpirer`.

### WsPrivileges

`ws_allocate`, `ws_release` and `ws_restore` as the sequences of calls they
make: raise and lower a capability, drop all others, change to the DB user, to
root or to the caller, and the operations on the file systems between them,
each of which may fail where the code looks at the result.  `RaiseCap`,
`LowerCap`, `DropCaps`, `BecomeDb`, `BecomeRoot`, `BecomeCaller` and
`ChangeOwner` do what `wsdb.cpp` and `ws.cpp` do in each of the two builds, with
and without `-DSETUID`, and by the kernel's rules on who may change to which
id; `May` says which rights an operation needs.

### WsRequests

One workspace, whose user calls `ws_allocate` (`Create`, `Reuse`, `Extend`) and
`ws_release` and edits `~/.ws_user.conf` by day, and which a run of `ws_expirer`
visits every night (`Expire`, or `Keep` with its mail).  `file` is the
configuration file, reduced to the ways in which `ws_allocate.cpp` 190-260 reads
it: an old one with an address only, and YAML whose first line is a key, is
blank (or there is no file), or is `---`.  `ws` is the entry.  `Durations`,
`Reminder` and `Address` say what a request comes to: the duration of a user
with an old file and no duration on the command line is a variable that was
never assigned, so that any value of `Stray` is possible.  Time is counted in
days; as the code counts seconds, an extension to the same day may be later than
the old expiration and cost one extension, or not (`Costs`).  A mail is one
attempt, as in `send_reminder`.  The histories `age`, `asked` and `mailed` count
the nights, the days left at the last change, and whether a mail has been tried
since.  A failing write (`Write`) leaves the entry as it was, or `Broken`: without
content, so that no tool can use it any more and the expirer passes over it.

## What is checked

The runs of `MCSystem` have bounds on the clock (`MaxTime`), the number of tool
calls (`MaxCalls`) and of faults (`MaxFaults`: kills and failing writes), and so
has `WsMove` on the calls; a tool of `WsPrivileges` ends.  These systems stop in the end, so that `CHECK_DEADLOCK` is off there; it
is on in all others.  Processes, spaces and names are symmetric; data are not
made symmetric.  Symmetry is not used with a liveness property.

| run | question | instance |
|---|---|---|
| `race` | every interleaving of two tools with the expirer, with a kill or a failed write: what the expirer never takes away, which entries stay empty, and the invariant of the proofs | 1 name, 2 processes, 3 calls, 2 faults, 2 ticks |
| `clean` | is everything cleaned up in the end, whatever is killed or cannot be written | 1 name, 1 process beside the expirer, 2 calls, 1 fault, 3 ticks |
| `quiet` | a site that runs the expirer between the tools: entries have directories, data stay restorable; do the tools and the expirer implement `WsLife` | 2 names, 2 spaces, 1 datum, 3 calls, 1 fault, 3 ticks |
| `defaults` | does a user keep his path while the administrator moves defaults and sets maintenance flags | 2 locations, 2 spaces, no bound on the calls |
| `limits` | does every call keep to the limit of the location it ends up in, those of a colleague who can use a location or none as well | 2 locations, no bound on the calls |
| `recovery` | lists and defaults change while workspaces are allocated, extended (also by a colleague), removed, listed and restored, by the user and by root | 2 locations, 1 extension, 1 file, no bound on the calls |
| `reminders` | any sequence of requests, files and nights: life, extensions, mails, expiration | lives of 3 days, 1 extension, no bound on the calls |
| `moves` | a workspace moves between file systems, and everything may go wrong | 2 files, 4 calls, all faults |
| `nights` | nights in which a DB is missing, with a workspace that is too large to delete in time | 2 locations, 3 spaces, 3 workspaces, 2 outages |
| `privileges` | the rights of every call, in both builds, for a user and for root | complete |

The smallest scenarios of the hazards need two tool calls and a run of the
expirer (release and allocate again between two listings, an extension between
reading and renaming) or three (two generations under one removed name and a
reader).  `race` covers all sequences of three calls of all tools but
`--delete-data`, which `clean` and `quiet` have.  A run of the expirer takes
place in one tick or over several.  In `quiet`, with `KeepTime = 1`,
`Grace = 0` and durations of at most one tick, three ticks suffice for a
workspace to be made, to expire or be released, to be removed and to be
deleted; `clean` uses durations and a keeptime of 0 so that all of that, and
the run that repairs what a fault left, fits under the bound.  In `reminders`
the values are chosen around the boundaries: durations that are negative, zero,
between, at and beyond the limit, and reminders of zero, one and two days in a
life of three.  `age` is counted to one more than `LongestLife`, which is where
`LifeBounded` would fail.  In `recovery` the lists of the second location are
open, of the user's group, of another user, and of the user as his default,
which are the cases the two filters could read differently; the first one stays
open, so that a colleague always has a location (`MCLocations_foreign.cfg` shows
what happens when he has none).  In `moves` two
files are enough for a copy that stops in the middle and one that stops between
copying and removing, and four calls for a release or an expiration and up to three
restores of what it left, one of them of what the others left behind.  In `nights` there are a
location before and one after, a space besides the one at work, and one
workspace for each, so that what one visit does to the next one shows.

Each property has a mutation of the model (an operator defined before the one
it replaces, commented "Mutation") under which it fails.

`EntryHasDir`, `RestorableUntilDue` and `LifeImplemented`
are about a quiet site, where no tool runs during a run of the expirer
(`Quiet`), and one process.  Kills and failing writes are allowed in all of
them; but `RestorableUntilDue` speaks of runs before the first of these, since a
kill can lose data, as `MCSystem_keeptime.cfg` shows, and `WsLife` says which.
It also
excepts what is `reaped`: a deletion that hits its time limit leaves data
without an entry, which phase 1 of a later run deletes as strayed.  The
administrator's `ws_restore` is not among the tools of `quiet`: it renames the
entry first and the directory second, so that a live entry has no directory in
between.  That `LifeImplemented` holds with it as well is proved
(`LifeIsImplemented`).

### Disagreements between the code and what the repository says

Two runs have to find a violation; `PROJECT.json` quotes the sentences.

| run | what happens |
|---|---|
| `release_race` | a release between the two listings of removed names loses its data at once |
| `closed_default` | a user not admitted to his default location overwrites his workspace with every call |

## Known weaknesses

Other sentences of the repository that the code does not live up to are stated
as properties too.  Their configurations are not among the runs; each ends with
a counterexample when it is run by hand, with
`tlc -config MCSystem_same_path.cfg MCSystem` and so on.  A configuration is
named after its module.

Under which hypotheses `ReleaseRaceFree`, `NewEntriesIgnored`, `NothingReplaced`,
`ExtensionBudget`, `StablePath` and `EntryKept` are true all the same is proved:
see `ReleaseIsRaceFree`, `EntriesAreIgnored`, `NothingIsReplaced`,
`ExtensionsLimited`, `PathIsStable` and `EntriesKept` below.

| configuration | property | what happens | what the repository says |
|---|---|---|---|
| `MCSystem_new_entries` | `NewEntriesIgnored` | a workspace being created while phase 1 lists is moved away as stray | "entries created during this run of expirer will be ignored" (`sbin/ws_expirer`:354) |
| `MCSystem_extensions` | `ExtensionBudget` | two extensions at one time read the same number of extensions left, and both are granted | "Maximum number of times a user can extend a workspace" (`admin-guide.md`:226) |
| `MCSystem_same_path` | `SamePath` | two simultaneous `ws_allocate` print different paths | "it always returns the same path" (`user-guide.md`:53) |
| `MCSystem_keeptime` | `RecoverableForKeepTime` | a kill between the two renames of the expirer: data deleted before `keeptime` | "Users or administrators can still recover the data" (`admin-guide.md`:276) |
| `MCSystem_revived` | `NothingReplaced` | the administrator's `ws_restore` renames over an entry made after its check | "workspace with same name %s exists, resolve it by hand!" (`sbin/ws_restore`:57) |
| `MCRequests_duration` | `DefaultDuration` | with an address only in `~/.ws_user.conf`, the duration is never assigned | "Lifetimes in days attached to a workspace if user does not specify it" (`admin-guide.md`:221) |
| `WsMove_restored` | `RestoreSuccessful` | `fork` fails, `mv` returns 0: the entry is unlinked, the data are left | "Info: restore successful, database entry removed." (`src/ws.cpp`:968) |
| `WsMove_fallback` | `AllFallBack` | `os.rename` fails: the entry is removed, the directory stays live | "all the tools fall back from os.rename() to the Linux command mv if needed" (`admin-guide.md`:535) |
| `MCLocations_marked` | `MarkedIsChosen` | `ws_list -l` marks a default of the group although the user has one | "The default one will be chosen if you do not specify a filesystem" (`user-guide.md`:48) |
| `MCLocations_colleague` | `ColleagueExtends` | `-x -u` gives up at the first location | "can extend it with ws_allocate -x -u" (`user-guide.md`:115) |
| `MCLocations_released` | `ReleaseEndsPrinted` | after a change of the default, `ws_release` does not find what `ws_allocate` prints | "Releasing means that the ID can be reused" (`user-guide.md`:74) |
| `MCLocations_links` | `LinksCurrent` | in a location with two spaces, `ws_register` keeps the link to the old directory of a workspace that was made again in the other space | "delete links to no longer valid workspaces" (`bin/ws_register`:10) |
| `MCLocations_foreign` | `EntryKept` | the `ws_allocate -x -u` of a colleague who may use no location makes a new workspace over the owner's entry | "to extend a workspace if he has rights on the workspace" (`src/ws.cpp`:219) |
| `MCRecovery_unrestorable` | `ListedRestorable` | `ws_restore -l` lists what is in a location with `restorable: false` | "see ws_restore -l for available names" (`man1/ws_restore.1`:49) |
| `MCRecovery_unlisted` | `ListedAll` | a default that does not admit the user is not listed, and restored from all the same | "has to be used to list the restorable workspaces" (`man1/ws_restore.1`:18) |
| `WsPrivileges_squash` | `SquashSafe` | the `chmod` of the entry is made as root | "for filesystem with root_squash, we need to be DB user here" (`src/wsdb.cpp`:125) |
| `MCRuns_unmounted` | `DataKept` | a DB disappears after the check of its magic | "to avoid that DB is not existing and all workspaces get wiped by accident" (`sbin/ws_expirer`:361) |
| `MCRuns_stuck` | `Served` | a directory that cannot be deleted ends every run | "it checks the DB entries if any of them are expired" (`admin-guide.md`:529) |
| `MCRuns_space` | `Served` | `--space` raises in a location that does not have the space | "pass a single space (inside a workspace) to clean up" (`sbin/ws_expirer`:274) |
| `MCRuns_prefix` | `OthersUntouched` | `--space /ws1` expires workspaces of `/ws10` | the same |

A write of an entry that fails is reported at most: after it `ws_allocate` has
printed the path of a workspace whose directory the next run of `ws_expirer`
deletes as stray, without any keeptime, and a live entry without content ends
every run of `ws_expirer` before it has done anything.  Two removals of one name
in one second leave one removed entry for both.  The models have all of this
(`OpenFails`, `WriteFails`, `clobbered`); the repository says nothing of what
should happen, so that the properties except it.

A YAML file `~/.ws_user.conf` that starts with a blank line or with `---` has
its first line taken for the address.  `WsRequests` models this; nothing in the
repository says what should happen, so that no property is about it.

### Fairness and liveness

`FairSpec` assumes that the clock runs, that a process that has been started
goes on (unless it is killed), and that cron starts `ws_expirer` again and
again and each run goes on.  Nothing obliges anybody to start a tool.  Without
these the operating system or cron would be broken; the tools have no loops and
wait for nothing.

`EventuallyClean` then says that in the end every directory is accounted for.
Two exceptions come from the code and the bound: an entry left empty by a kill
or a failed write stops the expirer for good ("Manual intervention required!"),
and as the clock stops at `MaxTime`, what becomes due only after it may stay.

`FairSpec` of `WsRequests` assumes that cron runs `ws_expirer` every night
(`WF_vars(Night)`; a night is possible whenever there is a workspace, so weak
fairness is enough).  `EventuallyExpires` then holds although the user may
extend, shorten and release as he likes, unless a failed write leaves the entry
without content.

`WsRuns` assumes that cron starts the expirer and that a run goes on
(`WF_vars(Expirer)`), and that a DB that is missing is mounted again
(`WF_vars(Mount(l))` for each location).  `Served` then says that every
workspace whose time is over is dealt with some night, and every directory
without an entry deleted, whichever DBs are missing at times and however
long the deletion of another workspace takes; one that itself runs into its time
limit every night is excepted.  The run is without `--space` and without
deletions that raise, which `MCRuns_space.cfg` and `MCRuns_stuck.cfg` have.

## What is proved

`WsProperties_proofs` proves, for any constants, under every interleaving, every
kill and every failing write:

* `TypeCorrect`: `Spec => []TypeOK`
* `RunInvariant`: `Spec => []RunInv`
* `StraySafe`: `Spec => HeldNotStray`
* `RetireSafe`: `Spec => RetiredOnlyIfLapsed`
* `DataSafe`: `Spec => KeptWhileHeld`
* `EmptiedByFaults`: `Spec => []OneEmptyPerFault`

`TypeOK` is inductive as it stands because `WellFormed` says for every position
of a process which of its local variables are set.

The three after `RunInvariant` are about the expirer.  They are properties of
steps, and hold because of what the lists and copies of the expirer still say
about the stores when it acts on them.  That is `RunInv`, inductive together
with `TypeOK`, with three parts.
`HistoryInv` ties the history variables to the stores: what is `held` exists,
and what is expired now is `lapsed`.  `ListInv` says that a name held until now
is in the list made earlier in the run; it needs `HistoryInv` at the moment of
the listing, and afterwards only that `held` shrinks.  `JobInv` says that the
entry at work was expired, or due, when it was read; it needs
`Expired \subseteq lapsed` at the reading, and afterwards that `lapsed` grows
and time does not run backwards.  None of the parts depends on what the tools
do in between, which is why the proofs need one lemma for all steps of the
tools (`Observe` keeps the invariant whatever happens to the stores) and one
step per action of the expirer.

`OneEmptyPerFault` counts the `Orphans`, empty entries that no process has open.
With the fact that they are finitely many (`FewOrphans`) it is inductive.  All
steps but a kill and a failing write leave the orphans as they are, remove some,
or rename one
(`NoMoreOrphans`, with a lemma for each system call); those two add the file that
the process had open, if nobody else has it open.  That an open file keeps its
identity when it is renamed is what the proof rests on: the mutation, in which
the content is written to the name, fails in the run.

`WsQuiet_proofs` first proves three properties of a site where one process runs at a
time and the administrator's `ws_restore` is not used (`UsersTurn`), for any
number of names, spaces, data, calls, kills and failing writes:

* `ExtensionsLimited`: `UsersTurn` implies `Spec => []ExtensionBudget`
* `LiveEntryHasDir`: `UsersTurn` and `Quiet` imply `Spec => []EntryHasDir`
* `DataRestorable`: `UsersTurn` and `Quiet` imply `Spec => RestorableUntilDue`

`ExtensionBudget` is not inductive, since it does not say what is left.
`Budget` does: the extensions granted and those left in the entry are together
at most `MaxExt`, and so they are in the copy of the entry a tool holds, from
the reading of the entry to the end of its writing, because no other tool runs
in between; the expirer only removes entries, and a removed one that is
restored by `ws_restore` stays removed.  `Places` does the same for
`EntryHasDir`: the directory a tool writes an entry for is there, a directory
being moved has lost its entry already, and the lists of the expirer are
current because the tools rest during its run, so that no directory looks stray
that has an entry.  It is inductive together with `TypeOK`, `RunInv` and
`Budget`.

`Records` adds what `RestorableUntilDue` needs, as long as no process was
killed and no write failed.  Every live directory is the one its entry names, or the one a tool is
at work on (`DirsOwned`); removed data have a removed entry that names their
directory, or may be deleted (`DataOwned`).  `LabelsPast` is what makes a
removed name unique: data were removed in the past, and a workspace expires no
sooner than the last removal of its name that left data, so that the next
removal has a later time.  `ToolRecords` and `ExpirerRecords` say what the copies
and lists at each position still say of the stores.  The proof found that
`RestorableUntilDue` was too strong as it was first stated: hence `reaped`.

It then shows how far three sentences are true that the system does not live up
to in general (see above).  Any number of processes, all tools, kills and failing
writes are allowed in the first two, and the expirer runs beside the tool in the
third:

* `ReleaseIsRaceFree`: `Quiet` implies `Spec => ReleaseRaceFree`
* `EntriesAreIgnored`: `Quiet` implies `Spec => NewEntriesIgnored`
* `NothingIsReplaced`: one process at a time implies `Spec => NothingReplaced`

The first two rest on `ListsCurrent`: in a run that has the site for itself,
what was listed is still complete when it is used.  The third one rests on
`StillFree`: the expirer makes no live entry, so that what the administrator's
`ws_restore` found missing is missing when it renames.  `release_race`,
`MCSystem_new_entries.cfg` and `MCSystem_revived.cfg` show that none of the
hypotheses can be left out.

`WsRefinement_proofs` proves the refinement.  `OneAtATime` is that there is one
process besides the expirer and that the expirer runs between the tools; the
administrator's `ws_restore` is allowed, and so are kills of all programs at
any step and failing writes of entries.

* `LifeIsImplemented`: `OneAtATime` implies `Spec => LifeImplemented`

Its invariant `Follows` says, for each position of a tool and of the expirer,
what the program's copy of an entry still says of the entry and that the lists
of the expirer are current (`FollowsInductive`).  Under it the mapping has a
closed form (`LifeMapped`): `MapContent` gives what each name shows and `MapOwner`
what each directory is part of, without the choices in their definitions.  Then there is one
lemma for each action (`CreateEntryLives`, `RetireDirLives`, `CrashLives`, ...)
that names the step of `WsLife` it is, or shows that it is none, and `NextLives`
and `VarsStutter` put them together.  `WaivedFollows` is needed besides, for
`ForgetEntry`: whose entry is dropped there has been waived.

`WsRequests_proofs` proves for every limit, number of extensions and default,
and for any set of files, durations and reminders:

* `RequestTyped`: `Spec => []RequestTypeOK`
* `LifeLimited`: `Spec => []LifeBounded`
* `RemindersSent`: `Spec => ReminderSent`
* `RemindersKept`: `Spec => ReminderKept`

`LifeBounded` is not inductive: nothing in it says that a later extension is
paid for.  `Paid` does: what a workspace has lived and may still live is within
`Limit` times the number of lives used so far, so that moving the expiration to
a later day is worth one extension, and a night moves a day from one side to
the other.  `Pending` says that a reminder has an address, and that as long as
no mail was sent there is a night left to send it.  The lemmas `OneMore` and
`MoreLives` hold the products that the SMT solver needs, `WriteKeeps` what the
two writers of the entry have in common.

`WsRecovery_proofs` proves the properties of `WsLocations` and `WsRecovery`, for
any number of locations, any lists, limits, defaults and any edits of `ws.conf`.
Where it depends on how the administrator sets the lists, that is a hypothesis:
`DefaultsAdmit` is that a default of the user or of his group admits him,
`ColleaguesAdmitted` that some location always admits his colleagues,
`ListsFilled` that no list is empty, `AccessFixed` that edits leave alone who is admitted.

| theorem | hypotheses | conclusion |
|---|---|---|
| `LocTyped` | none | `Spec => []LocTypeOK` |
| `LimitKept` | none | `Spec => WithinLimit` |
| `PathIsStable` | `DefaultsAdmit`, `ColleaguesAdmitted`, `AccessFixed`, no location on the command line | `Spec => StablePath` |
| `RecoveredAlways` | none | `RecoverySpec => []Recovered` |
| `EntriesKept` | `DefaultsAdmit`, `ColleaguesAdmitted` | `RecoverySpec => EntryKept` |
| `FilesReachable` | `DefaultsAdmit`, `ColleaguesAdmitted` | `RecoverySpec => []Reachable` |
| `AllocatedIsFound` | `DefaultsAdmit`, `ListsFilled` | `RecoverySpec => []FindsAllocated` |

The hypotheses are not there to help the proofs: `closed_default` shows what
becomes of `StablePath` without the first, `MCLocations_foreign.cfg` what becomes
of `EntryKept` without the second (`CreateFor` is the only step it rules out,
`ColleagueCreatesNothing`), and an empty list admits everybody in the C++
code and nobody in `ws_find`.  The runs are of settings that satisfy the hypotheses.
The first location of a set, which `ws_allocate` takes, exists because the sets
of smaller elements are well-founded under inclusion (`LeastExists`), which
avoids an induction.  `Configured` (what is set is one of the `Settings`),
`OnlyWorkspace` (a user who never names a location has one workspace at most, in
a location that admits him) and
`Recovered` (`Configured`, and the types of both modules) are the invariants.

`WsMove_proofs` proves, for any set of files and of faults:

* `MoveTyped`: `Spec => []MoveTypeOK`
* `NothingIsLost`: `Spec => []NothingLost`
* `NoneIsLeftBehind`: `Spec => NoneLeftBehind`
* `RestoreIsSuccessful`: if `Faults` is at most `{"mv"}`, `Spec => RestoreSuccessful`

The invariant is `MoveInv`.  Its core is that a file leaves its source only when
every file of the source is in the target (`Copies`), and that nothing is left
under the removed name once it has no entry (`EntryGone`), so that the expirer
finds no file to delete before the keeptime.  `Truth` says what a returned
0 is worth as long as `lied` is false.  The last theorem has no run: `moves`
has all faults, and `WsMove_restored.cfg` shows that it fails with `fork`.

`WsRuns_proofs` proves for any number of locations, spaces and workspaces:

* `DataIsKept`: if `Steady`, `Spec => []DataKept`
* `OthersAreUntouched`: if the path of no other space contains the selected one,
  `Spec => OthersUntouched`

`DataInv` says that what is about to be moved or deleted in phase 1 has no entry
(`StraysOnly`), because the DB has been there since its check (`StillMounted`)
and what was seen still is in its place (`SeenInPlace`).  `MCRuns_unmounted.cfg`
and `MCRuns_prefix.cfg` show that neither theorem holds without its hypothesis.

`WsPrivileges_proofs` proves, for any set of builds and callers, with and
without `root_squash`, for every tool, and whatever operation fails:

* `AllowedChanges`: `Spec => []NeverRefused`
* `LoweredBetween`: `Spec => []NothingRaised`
* `OperationsEntitled`: if the location squashes root only where no setuid tools
  are used, `Spec => []Entitled`
* `SquashedOnlyChmod`: without that hypothesis, the change of the mode of the
  entry is the only operation that may lack its rights

A tool is a sequence of calls, so that what a process may do depends on all it
has left to do.  `PrivilegeInv` says that there is a trace of rights along the
calls that are left: `Path(b, c, r, s, t)` is that the calls of `r` take a
process with the rights `s` to the rights `t`, every call being allowed, every
operation entitled, and every piece of work done with nothing raised (`Does`).  A
step takes the first call off the path (`PathTail`), and programs are put
together from blocks as paths are (`PathBoth`), so that the proof has a lemma for
each block (`BlockConstruct`, `BlockWriteDb`, ...), none for each position, and
no induction.  A failed operation replaces what is left by a sequence of
`lower` calls in any order; `LoweringPath` says that it is a path whatever the
order.  `WsPrivileges_squash.cfg` shows what becomes of the hypothesis of
`OperationsEntitled`, and `SquashedOnlyChmod` that nothing else does.

The assumptions are those of the modules, named in the module that declares the
constants: `StoreAssumption`, `ToolAssumption`, `ExpirerAssumption`,
`QuietAssumption`, `LifeAssumption`, `LocationAssumption`, `NoneAssumption`,
`RecoveryAssumption`, `NowhereAssumption`, `RequestAssumption`,
`MoveAssumption`, `RunsAssumption` and `PrivilegeAssumption`.  They only say what kind of values the
constants are and that the special values differ from the others.

Only checked with TLC are the liveness properties `EventuallyClean`,
`EventuallyExpires` and `Served`: fairness is out of the prover's reach.  So are
the counterexamples, of course, and that the history and the bounds are such
that the interesting cases happen, which the mutations show.

## What is not modelled

* In `ws_allocate`: root as its caller, group workspaces, the Lua prefix
  callout, the comment and the check of the workspace name.
* Entry files of the old, line-based format.
* `duration*24*3600` in an `int` (`ws.cpp`:442): the models count days, and the
  width matters only for limits beyond 24855 days, of which the repository does
  not say what they should do.
* `userexceptions`, apart from their effect on the limits; a build with
  `CHECK_ALL_GROUPS`.
* What `ws_list` and `ws_find` print of the entries; the search of
  `sbin/ws_restore` over several locations.
* The dry run of `ws_expirer`, which changes nothing.
* `ruh`, a question on the terminal without state; `ws_share`, `ws_send_ical`,
  `ws_prepare` and `ws_validate_config`, which keep no state of their own or run
  once before the system is in use; `old/`, which is not built any more.

## The plan

Done: the stores, the tools, the expirer, their composition and its safety; the
locations of `ws.conf`, their removed workspaces and listings; requests,
extensions and reminders; moves between file systems; the runs over all
locations; privileges; the abstract specification and the refinement; the
proofs of all safety properties, and of the refinement.

Left:

1. *Proofs:* what remains true of `RestorableUntilDue` when the administrator's
   `ws_restore` is used, which takes the removed entry away before it finds that
   the place of the directory is taken.
2. *Model:* group workspaces and root as the caller of `ws_allocate`; the
   administrator's `ws_restore` over several locations; expirations in 32 bits.
