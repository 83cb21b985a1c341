----------------------------- MODULE CacheThreads -----------------------------
(***************************************************************************)
(* The path cache under several threads: its mutex, the locks of Berkeley  *)
(* DB, and the handlers that hold the one while they wait for the other.   *)
(*                                                                         *)
(* The name space is one chain of nodes: 0 is the root, node i + 1 is the  *)
(* only child of node i, and the last one is a file.  So a path is a node, *)
(* and the prefixes of a path are the nodes from 0 up to it.               *)
(*                                                                         *)
(* Every read of a register asks for the write lock of its page (DB_RMW),  *)
(* and a handler keeps its locks until its FsTxn ends.  A page has the     *)
(* registers of several nodes, or entries of several directories.  The     *)
(* register of a node is on one page; a directory is on one or more, which *)
(* are those with its entries and the next, which a listing reads to find  *)
(* the end.  That an insertion splits a page is left out.                  *)
(*                                                                         *)
(* EXTERNAL.  libfuse runs unlink, rmdir and rename alone, so only the     *)
(* other handlers are here.  They are the calls they make, in order.       *)
(***************************************************************************)
EXTENDS Integers, Sequences

CONSTANTS
    Threads,    \* the threads of libfuse
    NoThread,   \* no thread
    Depth,      \* BOUND: the last node of the chain
    NodePage,   \* the page of the nodes database that has a node
    DirPages,   \* the pages of the directories database that a directory is on
    EntryPage   \* the one of them that has the entry for a node

Nodes == 0..Depth

ASSUME ThreadsAssumption == NoThread \notin Threads
ASSUME DepthAssumption == Depth \in Nat \ {0}
ASSUME LayoutAssumption ==
    /\ NodePage \in [Nodes -> Nat] /\ DirPages \in [Nodes -> SUBSET Nat]
    /\ \A i \in 1..Depth : EntryPage[i] \in DirPages[i - 1]

N(i)  == <<"nodes", NodePage[i]>>
D(p)  == <<"directories", p>>
Items == {N(i) : i \in Nodes} \cup {D(p) : p \in UNION {DirPages[i] : i \in Nodes}}

VARIABLES
    mutex,      \* PathCache_hash::mutex: the thread that holds it
    holder,     \* Items -> the thread that holds the page's lock
    cache,      \* Nodes -> "none", or is the entry "fresh" or "old"?
    todo,       \* the calls a thread has yet to make
    at,         \* where it is in the first of them
    valid       \* is the entry that getnode found still an entry?

vars == <<mutex, holder, cache, todo, at, valid>>

Calls == {"getnode", "setattr", "invalidate"} \X Nodes
         \cup UNION {{<<"addchild", i, p>> : p \in DirPages[i]} : i \in Nodes}

Init ==
    /\ mutex = NoThread
    /\ holder = [x \in Items |-> NoThread]
    /\ cache = [i \in Nodes |-> "none"]
    /\ todo = [t \in Threads |-> <<>>]
    /\ at = [t \in Threads |-> "idle"]
    /\ valid = [t \in Threads |-> FALSE]

-----------------------------------------------------------------------------
(* The handlers. *)

Getattr(i) == <<<<"getnode", i>>>>               \* and all that only read
Chmod_Bug(i) == <<<<"getnode", i>>, <<"setattr", i>>>>       \* no invalidation

Chmod_First(i) == <<<<"invalidate", i>>, <<"getnode", i>>, <<"setattr", i>>>>

(* Also chown, and setxattr of an owner or a mode. *)
Chmod(i) == <<<<"getnode", i>>, <<"setattr", i>>, <<"invalidate", i>>>>

(* Also mkdir and symlink. *)
Mknod(i, p) == <<<<"getnode", i>>, <<"addchild", i, p>>>>

(* It locks like addchild as it reads, here one page or two. *)
Readdir(i, p, q) == <<<<"getnode", i>>, <<"addchild", i, p>>, <<"addchild", i, q>>>>

(* The parent of the new name is found first, and read, then the file. *)
Link_Bug(i, p) == <<<<"addchild", i, p>>, <<"getnode", i>>, <<"getnode", Depth>>>>

Link(i, p) == <<<<"getnode", i>>, <<"getnode", Depth>>, <<"addchild", i, p>>>>

Handlers(i) ==
    {Getattr(i), Chmod(i)}
        \cup {Mknod(i, p) : p \in DirPages[i]} \cup {Link(i, p) : p \in DirPages[i]}
        \cup {Readdir(i, p, q) : p, q \in DirPages[i]}

Start(t) ==
    /\ at[t] = "idle"
    /\ \E i \in Nodes : \E h \in Handlers(i) : todo' = [todo EXCEPT ![t] = h]
    /\ at' = [at EXCEPT ![t] = "outside"]
    /\ UNCHANGED <<mutex, holder, cache, valid>>

(* The transactions end, and with them the handler. *)
End(t) ==
    /\ at[t] = "outside" /\ todo[t] = <<>>
    /\ holder' = [x \in Items |-> IF holder[x] = t THEN NoThread ELSE holder[x]]
    /\ at' = [at EXCEPT ![t] = "idle"]
    /\ UNCHANGED <<mutex, cache, todo, valid>>

-----------------------------------------------------------------------------

Calling(t, c) == todo[t] # <<>> /\ Head(todo[t])[1] = c
Node(t)       == Head(todo[t])[2]
Page(t)       == Head(todo[t])[3]

Return(t) ==
    /\ todo' = [todo EXCEPT ![t] = Tail(@)]
    /\ at' = [at EXCEPT ![t] = "outside"]

Grantable(t, x) == holder[x] \in {t, NoThread}
Granted(t, x)   == holder' = [holder EXCEPT ![x] = t]

(* The entries under the nodes in I are deleted: whoever has found one and   *)
(* let go of the mutex is left with an entry without data.                   *)
Invalidated(I) ==
    [u \in Threads |-> valid[u] /\ ~(at[u] = "using" /\ Node(u) \in I)]

(* withPath looks the proper prefixes up, the longest first, and getnode then *)
(* the path itself; of the prefixes of one of those, the shortest missing     *)
(* entry below the longest that is there is made first.                       *)
Missing(i) == {j \in 0..i : cache[j] = "none"}
NextMade(i) ==
    LET sought == IF Missing(i - 1) = {} THEN i
                  ELSE CHOOSE j \in Missing(i - 1) : \A k \in Missing(i - 1) : k <= j
    IN  CHOOSE j \in Missing(sought) :
            /\ \A k \in j..sought : k \in Missing(sought)
            /\ j = 0 \/ j - 1 \notin Missing(sought)

(* What initEntry reads: the node above, its entry for the name, the node. *)
Reads(j) ==
    IF j = 0 THEN <<N(0)>> ELSE <<N(j - 1), D(EntryPage[j]), N(j)>>

Unread(t, j) == {k \in DOMAIN Reads(j) : holder[Reads(j)[k]] # t}

(* The page whose lock a thread in lookup asks for next. *)
Asked(t, j) == Reads(j)[CHOOSE k \in Unread(t, j) : \A l \in Unread(t, j) : k <= l]

(* getnode *)
Enter(t) ==
    /\ at[t] = "outside" /\ Calling(t, "getnode")
    /\ mutex = NoThread /\ mutex' = t
    /\ at' = [at EXCEPT ![t] = "inside"]
    /\ UNCHANGED <<holder, cache, todo, valid>>

Lookup(t) ==
    /\ at[t] = "inside" /\ Missing(Node(t)) # {}
    /\ LET j == NextMade(Node(t)) IN
       IF Unread(t, j) = {}
       THEN cache' = [cache EXCEPT ![j] = "fresh"] /\ UNCHANGED holder
       ELSE /\ Grantable(t, Asked(t, j)) /\ Granted(t, Asked(t, j))
            /\ UNCHANGED cache
    /\ UNCHANGED <<mutex, todo, at, valid>>

(* The path's entry goes to the back of the queue.  How many entries in front *)
(* of it have to go depends on all the paths that are not modelled.           *)
Leave(t) ==
    /\ at[t] = "inside" /\ Missing(Node(t)) = {}
    /\ \E gone \in SUBSET (Nodes \ {Node(t)}) :
          /\ cache' = [i \in Nodes |-> IF i \in gone THEN "none" ELSE cache[i]]
          /\ valid' = [Invalidated(gone) EXCEPT ![t] = TRUE]
    /\ mutex' = NoThread
    /\ at' = [at EXCEPT ![t] = "using"]
    /\ UNCHANGED <<holder, todo>>

(* Node::getnode(txns,cen->data->nodeid), without the mutex. *)
Use(t) ==
    /\ at[t] = "using" /\ valid[t]
    /\ Grantable(t, N(Node(t))) /\ Granted(t, N(Node(t)))
    /\ Return(t)
    /\ UNCHANGED <<mutex, cache, valid>>

(* cen->data is null: the process dies, and is started again. *)
UseDeleted(t) ==
    /\ at[t] = "using" /\ ~valid[t]
    /\ mutex' = NoThread
    /\ holder' = [x \in Items |-> NoThread]
    /\ cache' = [i \in Nodes |-> "none"]
    /\ todo' = [u \in Threads |-> <<>>]
    /\ at' = [u \in Threads |-> "idle"]
    /\ valid' = [u \in Threads |-> FALSE]

(* setattr of a register that getnode has locked. *)
Setattr(t) ==
    /\ at[t] = "outside" /\ Calling(t, "setattr")
    /\ cache' = [cache EXCEPT ![Node(t)] = IF @ = "none" THEN @ ELSE "old"]
    /\ Return(t)
    /\ UNCHANGED <<mutex, holder, valid>>

Invalidate(t) ==
    /\ at[t] = "outside" /\ Calling(t, "invalidate")
    /\ mutex = NoThread
    /\ cache' = [cache EXCEPT ![Node(t)] = "none"]
    /\ valid' = Invalidated({Node(t)})
    /\ Return(t)
    /\ UNCHANGED <<mutex, holder>>

Addchild(t) ==
    /\ at[t] = "outside" /\ Calling(t, "addchild")
    /\ Grantable(t, D(Page(t))) /\ Granted(t, D(Page(t)))
    /\ Return(t)
    /\ UNCHANGED <<mutex, cache, valid>>

-----------------------------------------------------------------------------
(* Waiting. *)

(* The threads that a thread waits for: the holder of the mutex, or the       *)
(* holder of the lock that it asks for.                                       *)
WaitsForMutex(t) ==
    {u \in {mutex} : /\ u # NoThread /\ at[t] = "outside"
                     /\ Calling(t, "getnode") \/ Calling(t, "invalidate")}

LockAsked(t) ==
    CASE at[t] = "inside" /\ Missing(Node(t)) # {} ->
            {Asked(t, j) : j \in {j \in {NextMade(Node(t))} : Unread(t, j) # {}}}
      [] at[t] = "using" -> {N(Node(t))}
      [] at[t] = "outside" /\ Calling(t, "addchild") -> {D(Page(t))}
      [] OTHER -> {}

WaitsIn(t, db)  == {holder[x] : x \in {y \in LockAsked(t) : y[1] = db}} \ {t, NoThread}
WaitsForLock(t) == WaitsIn(t, "nodes") \cup WaitsIn(t, "directories")
WaitsFor(t)     == WaitsForMutex(t) \cup WaitsForLock(t)

(* The threads of S can only go on when a thread outside of S does. *)
Stuck(S, W(_)) == S # {} /\ \A t \in S : W(t) # {} /\ W(t) \subseteq S

(* set_lk_detect, DB_LOCK_RANDOM: any of the threads that wait for each       *)
(* other's locks may be the one to give way.  The transactions of an FsTxn   *)
(* are lockers of their own, so the detector sees the circles of one database.*)
Detected(t) ==
    \E S \in SUBSET Threads, db \in {"nodes", "directories"} :
        t \in S /\ Stuck(S, LAMBDA u : WaitsIn(u, db))

(* It gets an exception for its request, and its handler returns EIO.        *)
Victim_Bug(t) ==             \* no clean-up in getnode
    /\ Detected(t)
    /\ holder' = [x \in Items |-> IF holder[x] = t THEN NoThread ELSE holder[x]]
    /\ todo' = [todo EXCEPT ![t] = <<>>]
    /\ at' = [at EXCEPT ![t] = "idle"]
    /\ UNCHANGED <<mutex, cache, valid>>

Victim(t) ==
    /\ Detected(t)
    /\ mutex' = IF mutex = t THEN NoThread ELSE mutex
    /\ holder' = [x \in Items |-> IF holder[x] = t THEN NoThread ELSE holder[x]]
    /\ todo' = [todo EXCEPT ![t] = <<>>]
    /\ at' = [at EXCEPT ![t] = "idle"]
    /\ UNCHANGED <<cache, valid>>

-----------------------------------------------------------------------------

Step(t) ==
    \/ Start(t) \/ End(t)
    \/ Enter(t) \/ Lookup(t) \/ Leave(t) \/ Use(t) \/ UseDeleted(t)
    \/ Setattr(t) \/ Invalidate(t) \/ Addchild(t)
    \/ Victim(t)

Next == \E t \in Threads : Step(t)

Spec == Init /\ [][Next]_vars

-----------------------------------------------------------------------------
(* Properties. *)

(* Besides, the mutex is held by the thread inside of getnode and by no other *)
(* one, also after a request in there has failed.                             *)
TypeOK ==
    /\ mutex \in Threads \cup {NoThread}
    /\ \A t \in Threads : at[t] = "inside" <=> mutex = t
    /\ holder \in [Items -> Threads \cup {NoThread}]
    /\ cache \in [Nodes -> {"none", "fresh", "old"}]
    /\ \A t \in Threads : \A k \in DOMAIN todo[t] : todo[t][k] \in Calls
    /\ at \in [Threads -> {"idle", "outside", "inside", "using"}]
    /\ valid \in [Threads -> BOOLEAN]

(* An entry that does not say what the register says is seen only while the   *)
(* handler that changed the register still has its lock, and that handler has *)
(* yet to invalidate the entry: no other thread puts the old one back.        *)
OldEntriesGo ==
    \A i \in Nodes :
        cache[i] = "old" =>
            LET t == holder[N(i)] IN
            t # NoThread /\ \E k \in DOMAIN todo[t] : todo[t][k] = <<"invalidate", i>>

(* In the directories database a thread waits only for entries of another     *)
(* directory on its page: who asks for a page has the node of its directory   *)
(* locked, so that nobody else is in that directory, and who holds the page   *)
(* has that of another one.  If every directory had pages of its own, no      *)
(* thread would ever wait there with locks of nodes, and no circle would      *)
(* lead through both databases.                                               *)
DirectoryWaitsForNeighbour ==
    \A t \in Threads : \A u \in WaitsIn(t, "directories") :
        \E i, k \in Nodes :
            /\ i # k /\ holder[N(i)] = t /\ holder[N(k)] = u
            /\ \E p \in DirPages[i] \cap DirPages[k] : holder[D(p)] = u

(* pathcache.hxx:53 calls PathCache_hash a "Thread-safe implementation of     *)
(* PathCache": threads that use it do not wait for each other for ever, unless  *)
(* it is for locks of the databases alone.                                    *)
ThreadsGoOn ==
    \A S \in SUBSET Threads : Stuck(S, WaitsFor) => Stuck(S, WaitsForLock)

(* getnode reads the id from its entry after it has let go of the mutex, and  *)
(* another thread may have deleted the entry by then: to make room, or to     *)
(* invalidate it, which only a thread does that has the register locked.  So  *)
(* an entry that its reader has made itself, and locked, goes only for room.  *)
UsedEntryLost ==
    [][\A t \in Threads :
          at[t] = "using" /\ valid[t] /\ at'[t] = "using" /\ ~valid'[t] =>
              \/ \E u \in Threads \ {t} : at[u] = "inside" /\ at'[u] = "using"
              \/ holder[N(Node(t))] \in Threads \ {t}]_vars

=============================================================================
