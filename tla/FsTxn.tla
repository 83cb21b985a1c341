-------------------------------- MODULE FsTxn --------------------------------
(***************************************************************************)
(* The three transactions of a handler (FsTxn), the locks they hold, the   *)
(* order in which they end, and a crash between any two steps.             *)
(*                                                                         *)
(* Directories are fixed; mknod, link and unlink make and remove the names *)
(* of files in them, getattr and readdir stand for the handlers that only  *)
(* read.  The nodes database has the link count of a file (0 is no         *)
(* register), the directories database the names.  A read takes the write  *)
(* lock of the page (DB_RMW), which a transaction keeps until its commit.  *)
(* createregister has a lock besides, for a locker of its own.             *)
(*                                                                         *)
(* A path is looked up in the path cache, and what the cache has not is    *)
(* read from both databases, a page after the other.  Anything may be      *)
(* missing there, at any time; how entries come and go, and the mutex of   *)
(* the cache, which would allow fewer behaviours, are of CacheThreads.     *)
(*                                                                         *)
(* A commit puts a record into the log, which is written some time later   *)
(* (DB_TXN_NOSYNC).  After a crash the databases are what the written part *)
(* of the log makes of them.  The media transaction is left out: these     *)
(* handlers do not write with it.                                          *)
(*                                                                         *)
(* EXTERNAL.  libfuse runs unlink alone.  Berkeley DB writes the log in    *)
(* the order of the commits, and rolls back a transaction that has not     *)
(* committed when it recovers.                                             *)
(***************************************************************************)
EXTENDS Integers, Sequences, FiniteSets, FiniteSetsExt

CONSTANTS
    Threads,    \* the threads of libfuse
    NoThread,   \* no thread
    Keys,       \* the names, with the directory that each is in
    MaxId,      \* BOUND: node ids are 0..MaxId
    NoNode,     \* what a name that is not in a directory maps to
    Dirs,       \* the ids of the directories
    PathOf,     \* the path of a directory: the directories from the root to it
    PageOf,     \* the page of the nodes database that has a node
    DirPage,    \* the page of the directories database that has a directory
    MaxLog,     \* BOUND: commits that are not written yet
    MaxCrashes  \* BOUND: crashes

Ids   == 0..MaxId
Files == Ids \ Dirs
N(i)  == <<"nodes", PageOf[i]>>
D(d)  == <<"directories", DirPage[d]>>
Items == {N(i) : i \in Ids} \cup {D(d) : d \in Dirs}

ASSUME ThreadsAssumption == IsFiniteSet(Threads) /\ NoThread \notin Threads
ASSUME IdsAssumption ==
    MaxId \in Nat /\ Dirs \subseteq Ids /\ Dirs # {} /\ NoNode \notin Ids
ASSUME KeysAssumption == IsFiniteSet(Keys) /\ \A k \in Keys : k[1] \in Dirs
ASSUME PathsAssumption ==
    \A d \in Dirs : PathOf[d] \in Seq(Dirs) /\ PathOf[d] # <<>> /\ PathOf[d][Len(PathOf[d])] = d
ASSUME BoundsAssumption == MaxLog \in Nat \ {0} /\ MaxCrashes \in Nat

VARIABLES
    nlink,      \* nodes: "offlinefs.nlink" of each file, also uncommitted
    entry,      \* directories: <<directory, name>> -> file or NoNode
    holder,     \* who has the lock of a page
    creating,   \* who has the lock of createregister
    call,       \* the handler that a thread runs
    todo,       \* the steps it has yet to take
    cold,       \* of the path it looks up: the prefixes that are not in the cache
    log,        \* the commits that are not written yet
    disk,       \* both databases as the written log makes them
    half,       \* auxiliary: files with only the first commit of the two on disk
    torn,       \* auxiliary: files that were half when the program crashed
    crashes     \* auxiliary: how often it has

vars == <<nlink, entry, holder, creating, call, todo, cold, log, disk, half, torn, crashes>>
data == <<log, disk, half, torn, crashes>>

(* The name that is made or removed, the file and the name it is found by. *)
NoCall == [op |-> "none", key |-> NoNode, node |-> NoNode, by |-> NoNode, done |-> FALSE]

Last     == Max(Dirs \cup {n \in Files : nlink[n] > 0})
Idle(t)  == todo[t] = <<>>
NamesOf(e, n) == {k \in Keys : e[k] = n}

(* Files with ids between those of the directories have a name each already. *)
Old == {n \in Files : n < Max(Dirs)}

Init ==
    /\ nlink = [n \in Files |-> IF n \in Old THEN 1 ELSE 0]
    /\ entry \in [Keys -> Old \cup {NoNode}]
    /\ \A n \in Old : Cardinality(NamesOf(entry, n)) = 1
    /\ holder = [x \in Items |-> NoThread]
    /\ creating = NoThread
    /\ call = [t \in Threads |-> NoCall]
    /\ todo = [t \in Threads |-> <<>>]
    /\ cold = [t \in Threads |-> {}]
    /\ log = <<>>
    /\ disk = [nlink |-> nlink, entry |-> entry]
    /\ half = {} /\ torn = {} /\ crashes = 0

-----------------------------------------------------------------------------
(* The handlers. *)

(* The destructors of FsTxn run in the reverse order of the declarations. *)
Ending_Bug == <<"nodes", "directories">>          \* the order of FsTxn::commit

Ending == <<"directories", "nodes">>

MknodSteps == <<"parent", "createregister", "last", "put", "addchild">> \o Ending

LinkSteps    == <<"parent", "node", "addchild">> \o Ending
GetattrSteps == <<"get">> \o Ending          \* also open, read, chmod and so on
ReaddirSteps == <<"parent", "list">> \o Ending

Alone == \A t \in Threads : Idle(t)

(* Of the path that is looked up first, any prefixes are not cached. *)
Begin(t, c, steps, path) ==
    /\ Idle(t)
    /\ \A u \in Threads : call[u].op # "unlink"
    /\ call' = [call EXCEPT ![t] = c]
    /\ todo' = [todo EXCEPT ![t] = steps]
    /\ \E missing \in SUBSET DOMAIN path : cold' = [cold EXCEPT ![t] = missing]
    /\ UNCHANGED data

FileWay(c) == Append(PathOf[c.by[1]], c.node)

(* As long as there is an id for it, and for all that are being made. *)
Mknod(t, k) ==
    /\ Last + Cardinality({u \in Threads : call[u].op = "mknod"}) < MaxId
    /\ Begin(t, [NoCall EXCEPT !.op = "mknod", !.key = k], MknodSteps, PathOf[k[1]])
    /\ UNCHANGED <<nlink, entry, holder, creating>>

(* The file is found by a name that it has. *)
Link(t, j, k) ==
    /\ entry[j] # NoNode
    /\ Begin(t, [NoCall EXCEPT !.op = "link", !.key = k, !.node = entry[j], !.by = j],
             LinkSteps, PathOf[k[1]])
    /\ UNCHANGED <<nlink, entry, holder, creating>>

Getattr(t, j) ==
    LET c == [NoCall EXCEPT !.op = "getattr", !.node = entry[j], !.by = j] IN
    /\ entry[j] # NoNode
    /\ Begin(t, c, GetattrSteps, FileWay(c))
    /\ UNCHANGED <<nlink, entry, holder, creating>>

(* Of the directory that the name k is in. *)
Readdir(t, k) ==
    /\ Begin(t, [NoCall EXCEPT !.op = "readdir", !.key = k], ReaddirSteps, PathOf[k[1]])
    /\ UNCHANGED <<nlink, entry, holder, creating>>

(* Node::unlink: the register goes with the last link. *)
Unlinked(n) == [nlink EXCEPT ![n] = @ - 1]

(* Nobody else has a lock.  A name that leads nowhere is ENOENT. *)
Unlink(t, k) ==
    LET n == entry[k] IN
    /\ Alone
    /\ n # NoNode /\ nlink[n] > 0
    /\ Begin(t, [op |-> "unlink", key |-> k, node |-> n, by |-> k, done |-> TRUE], Ending, <<>>)
    /\ nlink' = Unlinked(n)
    /\ entry' = [entry EXCEPT ![k] = NoNode]
    /\ holder' = [x \in Items |->
                    IF x \in {N(k[1]), N(n), D(k[1])} THEN t ELSE holder[x]]
    /\ UNCHANGED creating

-----------------------------------------------------------------------------
(* The steps between which another thread can come. *)

Dir(t) == call[t].key[1]
Due(t, s) == todo[t] # <<>> /\ Head(todo[t]) = s

(* The path that a thread looks up. *)
Way(t) == IF Due(t, "parent") THEN PathOf[Dir(t)] ELSE FileWay(call[t])

(* The longest proper prefix is looked up first, from its nearest ancestor   *)
(* in the cache on; then the shorter ones, and the whole path, the n-th, last. *)
NextMade(missing, n) ==
    LET above  == missing \ {n}
        sought == IF above = {} THEN n ELSE Max(above)
    IN  Min({j \in 1..sought : j..sought \subseteq missing})

Made(t) == NextMade(cold[t], Len(Way(t)))

(* What initEntry reads for the j-th prefix of the path q. *)
Reads_Bug(q, j) ==           \* the entry before the node it is in
    IF j = 1 THEN <<N(q[1])>> ELSE <<D(q[j - 1]), N(q[j - 1]), N(q[j])>>

Reads(q, j) == IF j = 1 THEN <<N(q[1])>> ELSE <<N(q[j - 1]), D(q[j - 1]), N(q[j])>>

Unread(t) ==
    LET reads == Reads(Way(t), Made(t)) IN {k \in DOMAIN reads : holder[reads[k]] # t}

(* The page whose lock the next step of a thread asks for. *)
Asked(t) ==
    CASE cold[t] # {} -> {Reads(Way(t), Made(t))[Min(K)] : K \in {Unread(t)} \ {{}}}
      [] cold[t] = {} /\ Due(t, "parent") -> {N(Dir(t))}
      [] Due(t, "last") -> {N(Last)}
      [] Due(t, "put") \/ (cold[t] = {} /\ (Due(t, "node") \/ Due(t, "get"))) ->
            {N(call[t].node)}
      [] Due(t, "addchild") \/ Due(t, "list") -> {D(Dir(t))}
      [] OTHER -> {}

Advance(t) == todo' = [todo EXCEPT ![t] = Tail(@)]

(* The lock is granted. *)
Grant(t) ==
    /\ \A x \in Asked(t) : holder[x] \in {t, NoThread}
    /\ holder' = [x \in Items |-> IF x \in Asked(t) THEN t ELSE holder[x]]

(* An entry of the cache is made when all that it is made of is read. *)
Lookup(t) ==
    LET reads == Reads(Way(t), Made(t)) IN
    /\ cold[t] # {} /\ Grant(t)
    /\ cold' = [cold EXCEPT ![t] =
                  IF \A k \in Unread(t) : reads[k] \in Asked(t) THEN @ \ {Made(t)} ELSE @]
    /\ UNCHANGED <<nlink, entry, creating, call, todo, data>>

Granted(t, s) == Due(t, s) /\ cold[t] = {} /\ Grant(t)

(* Path::Path, when its path is in the cache.  link then looks the file up. *)
Parent(t) ==
    /\ Granted(t, "parent") /\ Advance(t)
    /\ \E missing \in SUBSET (IF call[t].op = "link" THEN DOMAIN FileWay(call[t]) ELSE {}) :
          cold' = [cold EXCEPT ![t] = missing]
    /\ UNCHANGED <<nlink, entry, creating, call, data>>

(* The handlers that only read go to their end. *)
Read(t) ==
    /\ Granted(t, "get") \/ Granted(t, "list")
    /\ Advance(t)
    /\ UNCHANGED <<nlink, entry, creating, call, cold, data>>

(* createregister: its lock, the last register, the new one. *)
CreateLock_Bug(t) ==         \* no lock
    /\ Due(t, "createregister") /\ Advance(t)
    /\ UNCHANGED <<nlink, entry, holder, creating, call, cold, data>>

CreateLock(t) ==
    /\ Due(t, "createregister") /\ Advance(t)
    /\ creating = NoThread /\ creating' = t
    /\ UNCHANGED <<nlink, entry, holder, call, cold, data>>

LastId(t) ==
    /\ Granted(t, "last") /\ Advance(t)
    /\ call' = [call EXCEPT ![t].node = Last + 1]
    /\ UNCHANGED <<nlink, entry, creating, cold, data>>

(* The register is made, its creation lock given back, and addchild begins *)
(* with link().                                                            *)
Put(t) ==
    /\ Granted(t, "put") /\ Advance(t)
    /\ nlink' = [nlink EXCEPT ![call[t].node] = 1]
    /\ creating' = NoThread
    /\ UNCHANGED <<entry, call, cold, data>>

(* link: getnode of the file, then addchild begins with link(). *)
FindNode(t) ==
    LET n == call[t].node IN
    /\ Granted(t, "node")
    /\ IF nlink[n] = 0
       THEN todo' = [todo EXCEPT ![t] = Ending] /\ UNCHANGED nlink
       ELSE Advance(t) /\ nlink' = [nlink EXCEPT ![n] = @ + 1]
    /\ UNCHANGED <<entry, creating, call, cold, data>>

(* The rest of addchild: EEXIST takes link() and the new node back. *)
Addchild_Bug(t) ==           \* it does not
    LET k == call[t].key
    IN  /\ Granted(t, "addchild") /\ Advance(t)
        /\ IF entry[k] = NoNode
           THEN /\ entry' = [entry EXCEPT ![k] = call[t].node]
                /\ call' = [call EXCEPT ![t].done = TRUE]
           ELSE UNCHANGED <<entry, call>>
        /\ UNCHANGED <<nlink, creating, cold, data>>

Addchild(t) ==
    LET k == call[t].key
    IN  /\ Granted(t, "addchild") /\ Advance(t)
        /\ IF entry[k] = NoNode
           THEN /\ entry' = [entry EXCEPT ![k] = call[t].node]
                /\ call' = [call EXCEPT ![t].done = TRUE]
                /\ UNCHANGED nlink
           ELSE nlink' = Unlinked(call[t].node) /\ UNCHANGED <<entry, call>>
        /\ UNCHANGED <<creating, cold, data>>

(* One of the transactions ends: its record is in the log, its locks are free. *)
Record(t, db) ==
    [db |-> db, node |-> call[t].node, key |-> call[t].key,
     value |-> IF db = "nodes" THEN nlink[call[t].node] ELSE entry[call[t].key]]

Commit(t, db) ==
    /\ Due(t, db) /\ Advance(t)
    /\ IF call[t].done
       THEN Len(log) < MaxLog /\ log' = Append(log, Record(t, db))
       ELSE UNCHANGED log
    /\ holder' = [x \in Items |-> IF x[1] = db /\ holder[x] = t THEN NoThread ELSE holder[x]]
    /\ call' = IF Len(todo[t]) = 1 THEN [call EXCEPT ![t] = NoCall] ELSE call
    /\ UNCHANGED <<nlink, entry, creating, cold, disk, half, torn, crashes>>

-----------------------------------------------------------------------------
(* Waiting for each other. *)

(* To Berkeley DB each transaction is a locker, and so is createregister. *)
WaitsIn(t, db) == {holder[x] : x \in {y \in Asked(t) : y[1] = db}} \ {t, NoThread}
WaitsToCreate(t) == IF Due(t, "createregister") THEN {creating} \ {NoThread} ELSE {}
WaitsFor(t) == WaitsIn(t, "nodes") \cup WaitsIn(t, "directories") \cup WaitsToCreate(t)

Stuck(S, W(_)) == S # {} /\ \A t \in S : W(t) # {} /\ W(t) \subseteq S

(* set_lk_detect sees the circles of one kind of lockers. *)
Detected(t) ==
    \E S \in SUBSET Threads, db \in {"nodes", "directories"} :
        t \in S /\ Stuck(S, LAMBDA u : WaitsIn(u, db))

(* One of them, any, gets an exception, its handler ends, and its            *)
(* transactions are committed.  A request in addchild comes after link():    *)
(* addchild takes that back, and create() the new node.  (When the           *)
(* destructor of a Txn throws in turn, the program ends: Crash.)             *)
Released(t) ==
    /\ holder' = [x \in Items |-> IF holder[x] = t THEN NoThread ELSE holder[x]]
    /\ creating' = IF creating = t THEN NoThread ELSE creating
    /\ call' = [call EXCEPT ![t] = NoCall]
    /\ todo' = [todo EXCEPT ![t] = <<>>]
    /\ cold' = [cold EXCEPT ![t] = {}]
    /\ UNCHANGED <<entry, data>>

Victim_Bug(t) == Detected(t) /\ Released(t) /\ UNCHANGED nlink    \* link() stays

Victim(t) ==
    /\ Detected(t) /\ Released(t)
    /\ nlink' = IF Due(t, "addchild") THEN Unlinked(call[t].node) ELSE nlink

-----------------------------------------------------------------------------
(* The log and the disk. *)

(* By txn_checkpoint of cleanlogs, or because the buffer of the log is full. *)
WriteLog ==
    /\ log # <<>>
    /\ LET r == Head(log) IN
       IF r.db = "nodes"
       THEN /\ disk' = [disk EXCEPT !.nlink[r.node] = r.value]
            /\ half' = half \ {r.node}
       ELSE /\ disk' = [disk EXCEPT !.entry[r.key] = r.value]
            /\ half' = half \cup {r.node}
    /\ log' = Tail(log)
    /\ UNCHANGED <<nlink, entry, holder, creating, call, todo, cold, torn, crashes>>

(* The process ends and is started again: DB_RECOVER. *)
Crash ==
    /\ crashes < MaxCrashes
    /\ crashes' = crashes + 1
    /\ nlink' = disk.nlink /\ entry' = disk.entry
    /\ log' = <<>> /\ torn' = torn \cup half /\ half' = {}
    /\ holder' = [x \in Items |-> NoThread]
    /\ creating' = NoThread
    /\ call' = [t \in Threads |-> NoCall]
    /\ todo' = [t \in Threads |-> <<>>]
    /\ cold' = [t \in Threads |-> {}]
    /\ UNCHANGED disk

Next ==
    \/ \E t \in Threads :
          \/ \E k \in Keys :
                \/ Mknod(t, k)
                \/ Unlink(t, k)
                \/ \E j \in Keys : Link(t, j, k)
                \/ Getattr(t, k)
                \/ Readdir(t, k)
          \/ Lookup(t) \/ Read(t)
          \/ Parent(t) \/ CreateLock(t) \/ LastId(t) \/ Put(t)
          \/ FindNode(t) \/ Addchild(t)
          \/ \E db \in {"nodes", "directories"} : Commit(t, db)
          \/ Victim(t)
    \/ WriteLog
    \/ Crash

Spec == Init /\ [][Next]_vars

-----------------------------------------------------------------------------
(* Properties. *)

Count(e, n) == Cardinality(NamesOf(e, n))
Unlocked(n) == holder[N(n)] = NoThread

(* Each variable has its type; besides, a thread has locks only while its    *)
(* handler runs, and the lock of createregister only in createregister.      *)
TypeOK ==
    /\ nlink \in [Files -> Nat] /\ entry \in [Keys -> Files \cup {NoNode}]
    /\ disk \in [nlink : [Files -> Nat], entry : [Keys -> Files \cup {NoNode}]]
    /\ holder \in [Items -> Threads \cup {NoThread}]
    /\ creating \in Threads \cup {NoThread}
    /\ \A x \in Items : holder[x] # NoThread => ~Idle(holder[x])
    /\ \A t \in Threads : creating = t <=> Due(t, "last") \/ Due(t, "put")
    /\ \A t \in Threads : Idle(t) <=> call[t] = NoCall
    /\ \A t \in Threads : cold[t] # {} =>
          /\ Due(t, "parent") \/ Due(t, "node") \/ Due(t, "get")
          /\ cold[t] \subseteq DOMAIN Way(t)
    /\ half \subseteq Files /\ torn \subseteq Files
    /\ Len(log) <= MaxLog /\ crashes <= MaxCrashes

(* createregister and addchild in any number of threads, with their failures *)
(* and unlink in between: whenever nobody has a file locked, its link count  *)
(* is that of its names, unless a crash came between its handler's two       *)
(* commits; and each crash costs a file at most one name or one count, which *)
(* no later handler makes worse, not even one that is given the id again.    *)
CountsAgree ==
    \A n \in Files :
        Unlocked(n) =>
            LET off == nlink[n] - Count(entry, n) IN
            IF n \in torn THEN off \in -crashes..crashes ELSE off = 0

(* On disk the directories are never behind the nodes, and at most one       *)
(* handler ahead: ~FsTxn commits them first.  So a crash may leave a new     *)
(* name without its node, or a node that has lost its name, but never the    *)
(* name of a file whose node is already gone.                                *)
DirectoriesLead ==
    \A n \in Files \ torn :
        LET records == {i \in DOMAIN log : log[i].db = "nodes" /\ log[i].node = n} IN
        Count(disk.entry, n) =
            IF n \notin half THEN disk.nlink[n]
            ELSE IF records # {} THEN log[Min(records)].value
            ELSE nlink[n]

(* Threads wait for each other for ever, unseen by the detector, only in two *)
(* ways.  Either one has the lock of createregister, and waits for a page    *)
(* of another that waits for that lock: its locker has nothing to do with a  *)
(* transaction.  Or one has a page of the directories locked, from a lookup, *)
(* and waits elsewhere, and another waits for that page, for another         *)
(* directory on it: whoever comes to a directory has its node locked first.  *)
HangsNeedNeighbours ==
    \A S \in SUBSET Threads :
        Stuck(S, WaitsFor) =>
            \/ \E t \in S : Detected(t)
            \/ \E t, u \in S : creating = t /\ Due(u, "createregister")
            \/ \E t, u \in S : \E d, e \in Dirs :
                  /\ d # e /\ D(d) = D(e) /\ holder[D(d)] = t /\ D(d) \in Asked(u)
                  /\ holder[N(d)] = t /\ holder[N(e)] = u
                  /\ WaitsIn(t, "directories") = {}
=============================================================================
