# A TLA+ model of offlinefs

offlinefs is a FUSE file system that presents files stored on media that need
not be inserted (CDs, DVDs, external disks) as one tree.  The tree itself -
names, attributes, link counts, and where the contents of each file are - is
kept in Berkeley DB databases; the contents are ordinary files in a directory
of each medium.  This directory holds TLA+ modules that model the parts of the
program in which order, sharing and failure matter, the configurations with
which TLC checks them on small instances, and proofs of their main invariants
that TLAPS checks for every instance.

Paths below are relative to the repository; the library is `src/libofflinefs`,
the file system `src/offlinefs`, the tools `src/tools`.

    tlc -config MCNamespace.cfg MCNamespace       (and so on for each .cfg)
    tlapm NamespaceProofs.tla
    tlapm BackingFilesProofs.tla
    tlapm PathFsProofs.tla
    tlapm OpenFilesProofs.tla
    tlapm CacheThreadsProofs.tla
    tlapm FsTxnProofs.tla
    tlapm SContextCacheProofs.tla
    tlapm MediaProofs.tla

`PROJECT.json` lists the runs, the lines of code each definition stands for,
the hazards the properties were written for, the findings, the theorems, and
for each property a mutated definition (`..._Bug`, defined beside the right
one and used by no specification) that makes TLC refute it.


## 1. Inventory of the system

| Component | State it keeps | Operations | Talks to |
|---|---|---|---|
| **Database layer** (`database.*`, `register.hxx`, `fsdb.*`) | an environment with four databases: nodes, directories, media, and, through them, registers: attribute -> value; the locks and the log of Berkeley DB | `createregister` (id = last + 1), `getattr`/`setattr`/`delattr`, `remove`, `Txn` (commits in its destructor), `FsTxn` (three transactions, one per database), `rebuild`, deadlock detection (`set_lk_detect`) | everything |
| **Nodes and directories** (`nodes/*`) | registers: mode, nlink, times, owner; a directory's second register maps names, `.` and `..` to ids | `create`, `link`, `unlink` (removes at zero), `remove`, `addchild`, `delchild`, `getchild` | database layer, sources |
| **Path and path cache** (`path.hxx`, `pathcache.*`, `token.hxx`) | `PathCache_hash`: a hash map and a queue of at most 4096 entries path -> node id, owner, group, mode, parent; a mutex | `getnode`, `withPath`, `initEntry`, `addEntry`, `clean`, `invalidate`; `Path::create` | nodes, security contexts; called by each handler |
| **FS handlers** (`fs.*`) | the table of 512 open files, its mutex | `getattr` ... `utimens`: all of FUSE's | everything |
| **Sources and chunks** (`sources/*`, `chunks/*`) | for each open file: size, access and modification time, a flag for each, a file descriptor | `getsource`, `read`, `write`, `flush`, `truncate`, `remove` | nodes, media |
| **Media** (`media/*`) | registers of the media database: label, directory, check and insert commands, `unlink_files`; the directory on disk | `getmedium`, `addfile`, `getfile`, `delfile`, `insert` | chunks, external commands |
| **Security contexts** (`scontext.*`, `scontextcache.*`) | groups of at most 40 users, the time of the last check of `/etc/passwd` and `/etc/group`; a mutex | `get` | path cache, handlers |
| **FUSE glue** (`main.cxx`) | command line | wrappers around `FS` | libfuse |
| **Tools** (`tools/*`) | none of their own | `offmedia` adds, changes, removes, lists media; `offimport` makes a node for each file of a medium; a format parser | database layer, nodes, media |

What happens in a call: libfuse calls a handler in a thread of its own; the
handler opens an `FsTxn`, resolves its path in the path cache (mutex held, the
databases read through the same transaction), checks permissions, changes
registers, invalidates paths, and the destructor of `FsTxn` commits - also
when an exception ends the handler.  An open file goes through a table of
`Source` objects instead, which keep sizes and times to themselves until
`flush()`.

**What is hard to get right here**, and where it is covered:

* link counts kept by hand over handlers that fail halfway - `Namespace`;
* a cache of paths that is told of each change by the path it was made
  through, while a node has many paths and a directory is part of many -
  `PathCache`, `PathFs`;
* a mutex and database locks that are waited for while the other is held -
  `CacheThreads`;
* a table shared between `open()` and `release()` without a common lock, and
  attributes cached by several objects of one node - `OpenFiles`;
* the name of a file on its medium, fixed at the first open while the node
  moves on - `BackingFiles`;
* three transactions that commit one after the other without a sync, ids that
  are given again, locks of pages that lookups keep and that the deadlock
  detector sees only in part - `CacheThreads`, `FsTxn`;
* a cache of the groups of users with a clock of seconds, and an iterator that
  is read after the unlock - `SContextCache`;
* one drive for several volumes, asked for by several threads; media that are
  found by labels or by ids that are given again, changed by a tool in another
  process, and locked by another for as long as its input lasts - `Media`.

**What makes each component correct**: registers and names agree (a node
exists exactly while a name leads to it, link counts are the number of names,
directories form a tree, a refused call leaves no trace in them); the cache
answers as
the databases would; threads go on; an open file's place is its own; nothing
written is lost from the size or the time of a node; the bytes of a node stay
its own and stay where they are found; a file on a medium goes when its last
name goes; after a crash the databases agree with each other; the groups of a
user are those of the system files; of two threads that want a medium each
gets it, one after the other.


## 2. Modules

    FsTree                        what the tree promises
      ^ implemented by
    Namespace <--- NamespaceProofs
      ^        ^
      |         \---- BackingFiles <--- BackingFilesProofs    contents of files, media
    PathFs ---> PathCache               handlers called with paths, cache
      ^---- PathFsProofs
    OpenFiles <--- OpenFilesProofs      table of open files, sizes and times
    CacheThreads <--- CacheThreadsProofs    threads, mutex, locks
    FsTxn <--- FsTxnProofs              transactions, deadlocks, crashes
    SContextCache <--- SContextCacheProofs  groups of users
    Media <--- MediaProofs              media, volumes, offmedia, offimport

`PathFs` and `BackingFiles` extend `Namespace` with its state and take its
handlers whole; `PathFs` uses `PathCache` as an instance;
`PathFsProofs` and `BackingFilesProofs` extend `NamespaceProofs` too.  An `MC...` module
gives TLC its symmetry and start states.

### Namespace, FsTree

State: `kind` and `nlink` are the attributes of the registers of the nodes
database (`"free"` means no register), `directories` the registers of the
directories database with `.` and `..` among the names, as in the code.  Each
*method* is an operator from a state of the databases to a state (`AddChild`,
`DelChild`, `LinkNode`, `UnlinkNode`, `NewNode`, `PathCreate`, ...),
and each *handler* is their composition in the order of the code, committed
in one step, including what it has done before it throws (`Commit` of a
partial state).  Berkeley DB's write locks
are taken with each read (`DB_RMW`) and kept until the handler ends, and
libfuse runs `unlink`, `rmdir` and `rename` alone, so one step is enough.

`FsTree` is the abstract specification: a tree of names without link counts
and without dots, in which a node exists because it is named.  `TreeSpec` in
`Namespace` is `FsTree!Spec` under the mapping that forgets `.` and `..`.

### PathCache, PathFs

`PathCache` has the methods of `PathCache_hash` as operators on a queue of
entries, and `Resolve`, which is `PathCache_null`: the reference for what a
path leads to.  `PathFs` calls the handlers with a caller and with paths:
resolve the parent (or the path) through the cache, change the name space,
invalidate the paths the code names, let the cache evict.  The owner, the
group and the mode that decide search permission are one bit of a directory
for an unprivileged caller (`search`), flipped by chmod, chown and setxattr.
The auxiliary variable `suspect` holds the paths below which entries *may* be
stale, because a directory was moved away from there.

### CacheThreads

Two threads on a chain of nodes run `getattr`, `chmod`, `mknod`, `link` and
`readdir` as lists of calls.  `getnode` takes the mutex (`Enter`), asks for one
lock at a time while it makes entries (`Lookup`), evicts and lets go of the
mutex (`Leave`), and reads the id from the entry it found (`Use`).
`UseDeleted` is what the read does once the entry's data has been deleted and
its pointer is null: the process ends, and starts again.

Locks are of *pages*, as a B-tree's are: `NodePage` is the page with the
register of a node, `DirPages` are those a directory is on, `EntryPage` the one
of them with an entry.  `Reads` is the order of `initEntry`: the node above, its
entry for the name in the other database, the node itself.  The pages stay
locked until the handler ends, so whoever looks a path up has pages of the
directories when it asks for further nodes.  `Victim` is `set_lk_detect`: of the
threads in a circle of locks *of one database* one gets an exception, and its
handler gives up its locks and the mutex.

### OpenFiles

The table `openFiles`, the object each file has, and the steps of `open()`
that other threads can come between: the look without the mutex (`Look`), the
second look with it (`Take`); and the two of `release()`: delete the object
(`Release`), clear the place (`Clear`).  `Write`, `Flush` (also fsync with
data and attributes), `Truncate` and `Utimens` are a step each (`truncate` commits the
time of the change before it cuts the file; as the sizes and the times do not
depend on each other, one step tells no less).  `Locked(n)`
is the write lock of a node's register, which `open()` holds from `getsource`
to its return: it is why a second `open()` of the node, `flush` and
`truncate` wait.  Auxiliary: `uncut` and `above` remember that the medium has
refused something or that a truncation met an object with a larger size,
`told` which time was last set while no object knew a later one.

### BackingFiles

`phid` is the attribute under which a node's file is found on its medium;
`files` and `bytes` are the medium's directory: which files, and with bytes
of which nodes.  `Naming` is any handler of `Namespace` followed by
`File::remove` for the register that went (`RemoveFiles`), where the medium may
refuse and the exception is swallowed.  `Open`, `Truncate`, `Import` (of
offimport), `Write` and `Release` complete it.  `wrote`, `mixed` and `left`
are auxiliary: they record what was written, which nodes came to share a
phid, and which files `delfile` was told or forced to leave.

### FsTxn

Two threads run `mknod`, `link`, `getattr` (for all handlers that read a node),
`readdir` and `unlink` as lists of steps, each of which asks for the lock of one
page (`Asked`, `Granted`) of the nodes (`N`) or of the directories (`D`).  A
handler begins with the lookup of its path, of which any prefixes may not be
cached (`cold`); `Lookup` reads them one page after the other, in the order of
`withPath` and `initEntry` (`Way`, `NextMade`, `Reads`), and `link` looks up two
paths.  Then come, as the handler has it, the parent's node, the lock of
`createregister` and the page of the last register, the node, the directory.
`Addchild` takes the link count and a new node back when the name is taken, and
so does `Victim` when a deadlock in the directories is resolved at the cost of a
thread in there.  Which thread that is, is open: any in the circle.
`Ending` is the order in which the destructors of `FsTxn` commit.  `Commit` puts
one of the two halves into the log, `WriteLog` carries the oldest to `disk` at
any later time (`DB_TXN_NOSYNC`), and `Crash` starts again from `disk`.
`Detected` are the circles Berkeley DB can see: of lockers in *one* database.
`half` and `torn` record which files have one half of a change on disk, now or
at a crash.

### SContextCache

`get()` in four steps: `Call`, `Enter` (mutex, `stat` of both files), `Clear` (when
they are newer than `checktime`), one of `Hit`, `Miss`, `Fail` (mutex given back), and
`Read`, which follows the iterator without the mutex.  Beside them `Tick` and
`Change` of one of the files, with any time up to now.  What the groups of a user
are is the number of changes the files had seen.  `live` says whether the
iterator still stands for an element; `since` and `cleared` record what has
happened since the unlock.

### Media

`media` is the media database (label, type, and the age of each medium, which
is also its volume), `mediumid` the attribute of the nodes, `drive` the volume
that is inserted, `held` the locks on the pages of the media database.  A handler
(`Open`, also truncate; `Unlink`, also rename) finds its medium by id
(`GetMedium`) or by the default label (`List`, `Choose`), and for an "insert" medium
goes through `Check`, `Insert`, `Recheck`; `OpenFile` is the system call behind
both, and the end of the handler.  `Add`, `Relabel`, `Retype`, `Remove` are
offmedia's, each one step: offmedia locks what it reads as the handlers do, and
writes only that.

`import` is an offimport that was given a medium.  It finds the medium by its
label (`ImportStart`, `ImportList`, `ImportMedium`), in a transaction that it
keeps until its input ends (`ImportEnd`): meanwhile it has all pages of the media
database locked, and waits, line after line (`ImportLine`, `ImportFile`), for
files that handlers have locked (`Around`).  If no medium has the label the
process ends with an exception and leaves its locks (`"dead"`).


## 3. What the runs show

| Run | Checks | Result |
|---|---|---|
| `namespace` | `TypeOK`, `LinkCountExact`, `NodeIffNamed`, `TreeShape`, `AllAttached`, `NoTraceOfFailure`, refinement `TreeSpec` | hold |
| `path_cache` | `CacheTypeOK`, `StaleOnlyBelowMoved`, `AnswersLikeUncached` | hold |
| `path_moves` | `LinkCountExact`, with three nested directories moved about | holds |
| `open_files` | `TypeOK`, `SizeCoversFile`, `TimeCoversWrites`, `SlotsExclusive`, `SizeWithinFile`, `UtimensStays`, liveness `OpenReturns` | hold |
| `backing_files` | `StorageTypeOK`, `WrittenStays`, `NoForeignBytes`, `NoFileForgotten` | hold |
| `cache_threads` | `TypeOK`, `OldEntriesGo`, `DirectoryWaitsForNeighbour`, action property `UsedEntryLost` | hold |
| `fs_txn` | `TypeOK`, `CountsAgree`, `DirectoriesLead`, `HangsNeedNeighbours` | hold |
| `scontext_cache` | `TypeOK`, `QueueOfCache`, `OldOnlyWithinSecond`, `GoneOnlyForReason` | hold |
| `media` | `TypeOK`, `OldIdsLeadOnlyToNewer`, `StaysFirst`, `OnOwnVolume`, liveness `HandlersEnd` | hold |
| `rename_same_node` | `SameNodeRenameIsNoOp` | violated |
| `path_detached` | `NoDirectoryBelowItself` | violated |
| `cache_deadlock` | `ThreadsGoOn` | violated |

What holds, in words:

* the counting of links is right under every sequence of handlers, failing
  ones included, and with handlers interleaved at their locks, also when
  Berkeley DB makes a handler give way that has counted a link already;
* the invalidations of the path cache are enough for every path but those
  strictly below the old path of a directory that was moved, and there the link counts survive
  the first handler that acts on a wrong node;
* the table of open files never gives a place away twice and an `open()` ends
  however places come and go; no order of flushes loses a size or a time;
* but for shared phids, a node keeps its bytes and gets nobody else's;
* whatever deadlock is resolved, the cache's mutex is free afterwards and no
  outdated entry outlives the transaction that made it outdated;
* a crash costs a file at most one name or one count: the directories are on
  disk before the nodes, so that a name without a node or a node without a name
  may remain, but never a name whose node went on purpose;
* threads that wait for each other's database locks for ever, unseen by Berkeley
  DB, need one of two things: the lock of `createregister`, or two directories on
  one page of the directories database, of which one thread has an entry read
  and the other adds or reads an entry;
* the cache of groups keeps its three members in agreement, and answers with
  older groups than there were at the call only when the change is dated in the
  second of the reading or before;
* a node whose medium was removed never gets an older medium by its id, a
  medium chosen by label stays the first of that label until the handler ends,
  and every handler ends if every offimport with a medium does.

Several properties say precisely *when* something goes wrong.  Their exceptions
are facts about the code: hazards that are there, which these properties permit
and do not catch; what they say is that nothing else has the same effect.

* `SizeWithinFile`: a file that is truncated while an object with a larger
  size is open gets the old size back with the next flush.  `UtimensStays`: a
  time that is set while an object of a later write is open is overwritten
  when that is flushed.
* `UsedEntryLost`: `getnode` reads its entry after it has unlocked the mutex;
  another thread may have deleted it.
* `GoneOnlyForReason`: the same in `SContextCache::get`.
* `OnOwnVolume`: two threads whose media lie on different pages of the database
  can take each other's volume out between `check` and `open`; a file is then
  opened, and created (`O_CREAT`), on the other volume.  Deleting cannot meet
  this, as libfuse runs it alone.
* `HangsNeedNeighbours`: one thread has the creation lock and waits for the last
  register's page, and another waits for the creation lock with its parent
  locked, which may be on that page or on one that a third thread needs before
  it gives that page up; or a lookup has an entry of one directory and waits for
  a node, and the thread that has that node waits in `addchild` for another
  directory on the same page.
* `HandlersEnd`: offimport waits for a node that a handler in `open()` has, which
  waits for the media database that offimport has locked.
* `OldIdsLeadOnlyToNewer`: the id of the last medium that was removed is given
  to the next one, and the nodes that still have it are then looked for there.
* `WrittenStays` and `NoForeignBytes`: two nodes get the same file on the medium
  when one is opened, renamed, and another of the first name is made and opened.
  `NoForeignBytes` and `NoFileForgotten`: a file that the medium refuses to delete,
  or is told to keep, is found by the next node of its path.

What does not hold (details, with the comment of the source that each
contradicts, in `PROJECT.json` "findings"):

* `rename` of one hard link onto another of the same node removes one of the
  two; POSIX and the comment above the check ask for nothing to happen.  The
  check compares paths.
* A path below the old name of a directory that was moved still resolves.
  Through it `rename` moves a directory below itself, for the loop that would
  notice runs only when a node is replaced; the subtree is then detached.
* A thread that holds the cache's mutex waits for a register lock, whose
  holder waits for the mutex (`chmod`'s `invalidate`, `link`'s second
  `getnode`); Berkeley DB cannot see the circle.
  Without the mutex threads hang, too, in the way that `HangsNeedNeighbours`
  describes: the two requests are of different transactions, and so of different
  lockers.

Seen while modelling and not given a run: `createregister` gives the id of the
last removed node again (which the models include, in `IsNextId`); `link` asks
for write permission on the directory only; a medium whose type was unset can
be neither mended nor removed with offmedia (theorem `BrokenMediaStay`); offimport
with a medium and a handler in `open()` can wait for each other for ever, and an
offimport that does not find its medium leaves the media database locked (both
are in `Media`, and outside of the premise of `HandlersEnd`).


## 4. Bounds, and why they are enough

* `namespace`, `MaxId = 3`, two names: a tree of the root and three more
  nodes has room for a directory in a directory, a moved directory with a
  child, a file with three links, and a replaced empty directory.  The handlers
  touch at most two directories and two nodes at a time.
* `path_cache`, `MaxId = 2`, `MaxEntries = 2`, `MaxDepth = 2`: a path of two
  tokens needs three entries (root, parent, leaf), so each lookup evicts, also
  entries it is just using; the id of a removed node is given again within
  the same run; names are changed by the unprivileged caller only
  (`Writers`), permissions by both.
* `path_moves` and `path_detached`, `MaxId = 3`, `MaxEntries = 3`: the stale
  entries need three nested directories, so the run starts with them and only
  looks up and moves (`MovesSpec`), until the first handler that has acted
  through a wrong node (`suspect # {<<>>}`; a step that would happen after
  that is not of interest) and for at most two suspect paths.  Both stop
  there, hence `CHECK_DEADLOCK FALSE`.
* `open_files`: three files and two places, so that a place is lost between
  the two looks, passed by, and the table runs full (`ENFILE`); two nodes,
  because two `open()`s of one node are never in the loop at once; only one
  of them is changed (`Changing`), to size 0 or 1 and at time 0 or 1: the
  comparisons of `flush` tell apart no more than "ahead" and "not ahead".
  `Refused` says that the medium may store less than was asked for and may
  refuse a truncation.  Two of the three files are opened of either node (`Opening`):
  a flush meets what one other object has written or holds; the third, of the
  other node, is for the table.
* `backing_files`, `MaxId = 2`, `MaxDepth = 2`, `MaxLeft = 2`: two nodes of
  files or one in a directory, four paths that can become a phid, at most two
  files left behind.  `UnlinkFiles = FALSE` would make `KeepFile` the only
  choice, which `Refusing = TRUE` allows as well.
* `cache_threads` and `cache_deadlock`, `Depth = 2`, two threads: two directories
  and a file, so that a path has proper prefixes of which some are cached and
  some not; each node on a page of its own, both directories on
  one page, and the second one on another besides, so that a thread meets
  others on a page over one directory and over two; two threads are what each
  circle found needs.  A run may end with all threads waiting (that is the
  finding), hence `CHECK_DEADLOCK FALSE`.
* `fs_txn`: two threads, which is what each circle needs; four directories, `/`,
  `/3`, `/3/1` and `/2`, two on a page of the directories database, so that a
  thread which looks up and then writes comes to both pages, and to the one of
  `/3/1` again; two names, in `/3/1` and `/2`, so that a file can have both; ids 0 to
  5, so that two files can be made at once, and the last directory on one page
  with the first file.  A lookup finds at most one prefix missing, and that only
  while there is one file at most, the log is written and no crash has been
  (`FewMissing`); a handler that goes on may then meet all the rest.  One is
  enough: what it takes is a page of the directories that is not the handler's
  own, and `link` has two lookups; several prefixes at once are missing in
  `cache_threads`, and in the proofs.  `MaxLog = 2` commits in the log, which are the
  two halves of one handler or one half of each of two;
  `MaxCrashes = 1`, after which a torn id is given again.  Both hangs, and a thread
  that gives way in `addchild`, occur within these bounds; as threads may all
  wait, `CHECK_DEADLOCK FALSE`.
* `scontext_cache`: three users for two places, so that an element is evicted
  while another thread reads it; two changes and the seconds 0 to 2 tell
  "before", "in" and "after" the second of a check apart.
* `media`: two threads and two files, two ids of media on pages of their own
  (the proofs are for any layout) and three media ever made, so that an id is
  given again; one label, which media have or have not, and types, of which
  `FewKinds` keeps some for one of the ids: what matters are two media with
  volumes, and one medium that gets or loses the label before another has it.
  An offimport that is dead, or that waits for a handler that waits for it, may
  keep everybody waiting, hence `CHECK_DEADLOCK FALSE`.

Symmetry is used for names and for threads, and only where no liveness is
checked.


## 5. Fairness

`OpenReturns` needs weak fairness of `Look(f)` and `Take(f)`, the
steps of the loop in `open()`.  The thread of an `open()` runs on by itself,
and waits for nothing but the table's mutex, which is held for one step
(`Take`) at a time; the handlers of other threads have no fairness, so it is not
assumed that anybody ever releases a file or calls `flush`.  The
loop counts up, which is why it ends.

`HandlersEnd` in `Media` needs strong fairness of `Step(t)`, the next step of a
handler: Berkeley DB grants a lock in the order of the requests, so a thread
that waits for a page gets it when it becomes free again and again; and the
user answers an insertcmd.  Nothing is assumed of when offmedia runs, or of new
handlers.  Of offimport it is a premise of the property, not a fairness
condition, that each run with a medium ends: offimport reads its input with all pages
of the media locked, the input may be a terminal, and a line of it may need a node
whose handler waits for those pages.  That threads do not wait in a circle
otherwise follows from the order of the pages in which `getregisters` reads, not
from the fairness.

Assumed of code outside of `src/` (EXTERNAL in the modules): the kernel checks
what its VFS checks before `rename`, `link` and `rmdir` reach the file system;
libfuse runs `unlink`, `rmdir` and `rename` alone (its tree lock) and renames
open files out of the way instead of unlinking them; the kernel calls an open
file's handlers between the return of `open` and `release`, serialises the
writes and truncations of a file, and flushes after the last write; Berkeley
DB writes its log in the order of the commits and rolls back what has not
committed; the clock is not set back; the volume in the drive changes only by
an insertcmd.


## 6. What is proved

Every invariant and action property of section 3 is proved for every value of
the constants; each of the arguments below rests on an inductive invariant that
TLC checked on the small instances first.

`NamespaceProofs` (for every finite set of names and every number of ids):
`TypeOK`, `LinkCountExact`, `NodeIffNamed` and `TreeShape` are invariants of
`Namespace!Spec`.  `LinkCountExact` alone is not inductive: `rmdir` and `rename`
drop `.`, `..` and then the name of a directory and rely on the count reaching
zero exactly there, which needs that the directory had *one* name
(`OneName`), that this name is in the directory `..` leads to
(`NamedByParent`), that both dots are there (`DotsHeld`), and that nothing is
held by a node that is no directory (`Owned`).  `IInv` is the conjunction.
The argument goes method by method: a lemma on how the number of entries that
name a node changes when one entry is made or cleared (`CountMake`,
`CountClear`), then one lemma for each method (`AddChildFree`,
`DelChildRemoves`, ...), for each of the larger pieces of rename (`MoveLeaf`,
`MoveDir`, `DropLeaf`, `DropEmptyDir`), and for each handler.

What a handler does to the names is put together in `Effect`: nothing, one name
made with or without a new node, one name removed, or one name moved, where it
may replace another (`NextEffect`).  From it follow, without another look at
the methods, `NoTraceOfFailure`, since two good states with the same names are
the same (`EffectShows`); the refinement `TreeSpec`, since each kind of effect is
a step of the tree; and `Attached`, that a set of directories that holds the
parent of each of its own holds the root (`EffectAttached`).  That says without
a word on lengths that every way up ends at the root, and it survives a rename
because the kernel lets no directory be moved into its own subtree: the way up
from the new parent, which no handler has changed, is a way to the root without
the directory that moves.  `AllAttached` then needs that no way up is longer than
there are nodes (`UpReachesRoot`, by the pigeonhole principle).

`PathFsProofs` (for any names, ids, depth of paths and size of the cache), on
top of the invariant of the name space: `CacheTypeOK`, `StaleOnlyBelowMoved`,
`AnswersLikeUncached`, and once more `LinkCountExact`, `NodeIffNamed` and
`TreeShape`, now for handlers that act on whatever node the cache finds.  The
inductive invariant `PInv` adds to `IInv` what a cache may hold (`Kept`: entries
with one for each path, each of which fits its node or is below a suspect
path) and what the databases must be for that (`Well`).  Three facts carry it:

* A directory has one name, so it is found on one path only (`OnePath`).  A
  handler that changes a name in a directory therefore changes what paths lead
  to only at and below the one path it was given, which is the one it
  invalidates.
* Below a name that is new, removed or replaced there was nothing to cache: an
  empty directory, or no directory (`DropKeeps`, `MoveKeeps`).  Only a name that
  is moved away leaves entries behind.
* The root is never stale: an entry of the path `/` is that of the root and no
  other entry is.  So the handlers never act on the root as on a child, however
  stale the rest is, which is what `DatabasesAgree` needs.

`AnswersUncached` compares the cached walk with the uncached one prefix by
prefix (`Answers`): the walk may start at any cached prefix, may find that its
parent was evicted, and may stop at a directory that the caller may not search.
`Lookup`, `Searched` and `Resolve` are recursive functions over the tokens; each
is unfolded with a predicate on what holds after `i` of them (`LookedTo`,
`SearchedTo`, `Way`).  The proof also showed the model to be too cautious: it
had marked the new path of a moved directory as suspect too, which only the old
one is.

`BackingFilesProofs` (for any depth of paths, with and without a medium that
refuses), on top of the invariant of the name space: `StorageTypeOK`,
`WrittenStays`, `NoForeignBytes`, `NoFileForgotten`.  The last is what
`remove` must not break, and it rests on how many nodes a handler can remove:
at most one (`OneFileGoes`), so that one `delfile` is enough.  For the bytes,
`BytesOK` says whose bytes a file may hold, `MixedOK` that nodes with a phid in
common are known as such, and `ObjectOK` that only such a node can have its
file taken away while it is open, so that a write goes to a file that is there.

`OpenFilesProofs` (for any number of files, nodes, places, sizes, times):
`TypeOK`, `SlotsExclusive`, `SizeCoversFile` and `TimeCoversWrites` are
invariants of `OpenFiles!Spec`.  `SlotsExclusive` needs the place that a file
between its two looks has in hand (`LocksPlace`).  `SizeCoversFile` is not
inductive: `release` deletes an object, so the object on which a size relies
must be one that `release` cannot delete yet, i.e. one that has not been
flushed since it was written to (`dirty`); `SizeHeld` and `TimeHeld` say so.
`SizeWithinFile` and `UtimensStays` rest on `Kept` besides (`KeptInvariance`):
as long as a time that was set is to stay, no object of the node knows a later
one.

`CacheThreadsProofs` (for any number of threads, any depth of a path and any
layout of nodes and directories on pages): `TypeOK`, `OldEntriesGo` and
`DirectoryWaitsForNeighbour` are invariants of `CacheThreads!Spec`.  Neither of the
last two is inductive: nothing in them says that `chmod` or `mknod` has locked
the register it changes.  `Underway` adds how far a thread is in its handler and,
once the first `getnode` has returned, the node whose lock it relies on until it
ends; `OldEntryHeld` that the writer of an outdated entry has only the
invalidation left to do, for which it asks for no lock, so that the deadlock
detector never picks it.  For the directories the invariant has that whoever has
one of their pages has the node of a directory on it locked: a lookup reads the
node before its entry, and `addchild` comes after the parent's `getnode`.  So the
two threads that meet on a page are there for two directories.  `UsedEntryLost`
is an action property: an entry is invalidated by a thread that has its register
locked, and otherwise goes only when another `getnode` makes room.

`FsTxnProofs` (for any finite number of threads and names, any ids, paths and
layout of both databases on pages, any number of crashes): all four invariants of
`fs_txn`.  The inductive invariant has four parts.

* `Rest`: the steps a thread has left are the end of one of the five handlers.
* `Locks`: who holds what: whoever has changed a file or a name still has its
  page, and whoever has a page of the directories has the node of a directory on
  it, and of the one it is about to read or write (`Guarded`).
* `Counts`: in memory, a count and the number of names differ by the name that
  `addchild` has yet to make, and by what crashes tore.  `CountsAgree` follows.
* `Logged`: there is a sequence of states of the disk that begins with the disk,
  follows the records of the log one by one, and ends with the memory but for
  what has not committed; each of them is one that a crash may leave.  So
  `Crash` is only a choice of one of them, `WriteLog` drops the first, `Commit`
  adds one, and `DirectoriesLead` is what holds of the first.

A thread that gives way is anywhere in its handler.  Only in `addchild` has it
counted a link, and it has the page of that file then, so that taking the link
back is between it and the file (`TakenBack`), and `CountsAgree` survives.

`HangsNeedNeighbours` is about sets of waiting threads of any size, on which
`Stuck` says that each waits only for others of the set.  If somebody in the set
waits in the directories for one who does not, the two are the neighbours of the
property: each has the node of its directory locked (`Guarded`), and these are
two nodes.  If whoever waits in the directories waits for threads that do so,
too, those are a circle in one database, which Berkeley DB sees.  If nobody waits
there, all wait in the nodes, which it sees as well, or somebody waits for the
lock of `createregister`, whose holder is then in the set.

`SContextCacheProofs` (for any number of threads, users, places, seconds and
changes): `OldOnlyWithinSecond` needs that every element was read
no earlier than the last check (`CacheOK`), and that, while a thread is between
its check and its answer, every element is one that it may answer with
(`FindingOK`): one as new as what its `stat` has seen, or read no earlier than
the time of that.  `TypeOK`, `QueueOfCache` and `GoneOnlyForReason` are proved
together.  The last needs where the element that a thread has in hand can be:
it is in the queue, and whatever is in front of it has been asked for since the
unlock (`LiveOK`); at the back of a full queue it therefore has the others all
asked for, and the one that pushes it out besides.

`MediaProofs` (for any number of threads, nodes, labels and media, and *any*
layout of registers on pages that keeps their order): `TypeOK`, which says that
a handler's medium is registered and locked until it ends;
`OldIdsLeadOnlyToNewer`, by the order of the ids among the ages and the files;
`StaysFirst`, since a handler that has found its medium by the label holds the
locks of all pages (`AllLocked`); `OnOwnVolume`, since whoever asks for a volume
holds the page of its medium and nobody is beside unlink (`UnlinkAlone`); and
the action property `BrokenStays`.

The assumptions are those that the modules state for their constants, and TLC
evaluates them in each run: finite sets of names and threads, the dots not
among the names, at least one directory, paths of directories that end with the
directory they are of, natural bounds, null values outside of the sets they are
null values of, and, for the media, pages that keep the order of the ids, as those
of a B-tree do (`DB_BTREE`, database.hxx:274).

What an argument by induction needs is derived where it is used: the library's
induction theorems take an operator as a parameter, which no prover here can
instantiate, but `LeastNatural` (every nonempty set of naturals has a least
element), from the well-foundedness of `<`, and `SetInduction` and `Iteration`
(functions that are defined by recursion) serve for numbers, and the theorems
on finite sets and cardinality for sets.


## 7. What is only model-checked, and what is not modelled

Only checked: `OpenReturns` and `HandlersEnd`, since liveness under fairness is
out of the prover's reach.

Not modelled: who may do what (`access`, the sticky bit, owner and group
rules) beyond search permission; times other than the modification time of
files, so that `NoTraceOfFailure` says nothing of the ctime that a failed `link`
leaves behind (fs.cxx:388); `read`, `statfs`, `readlink`, and what a listing
lists; the extended attributes other than mode and owner, and `removexattr` (only
the super-user may take an attribute of offlinefs away, and what is left is no
node to any handler); the contents of files beyond whose they are; directories on
the media; `cleanlogs`' counter, which is changed without a lock but decides
nothing but when the log is written; the command lines, the format parser and
the output of the tools, which are pure text.

What is simpler in the model than in the program:

* `AnswersLikeUncached` tells a node from a failure and no failure from another:
  `PathCache_hash` looks the whole parent up before it asks for search permission
  and `PathCache_null` prefix by prefix, so that one may answer `ENOENT` where the
  other answers `EACCES`.
* The register of a node is on one page, and a page is never split.  A directory
  has one page or more in `CacheThreads` and one in `FsTxn`, so `FsTxn` does not see
  that a handler asks for two pages of one directory.  `CacheThreads` has one
  chain of nodes and no `createregister`, and `FsTxn` has these.
* `FsTxn` has no mutex of the cache, which allows more behaviours than the program
  has, and lets any prefixes be missing, whoever has just looked them up.
* `Media` leaves the transactions of the nodes to `FsTxn`: a handler has its file to
  itself, and `Around` says which files offimport needs to be free of handlers
  before it can make one.  A run of offmedia is one step, also `--list`, which
  keeps its locks while it prints.
* The tools run in processes of their own, which the path cache knows nothing of;
  in `BackingFiles` the import of a file is one step beside the handlers.


## 8. Plan

Done: all modules of section 2, and proofs of all their invariants and action
properties.

Left to model: the rules of access and of the sticky bit as guards of
`PathFs`, and `removexattr` as a handler that makes a node one that nobody can
get.
