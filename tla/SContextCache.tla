---------------------------- MODULE SContextCache ----------------------------
(***************************************************************************)
(* The cache of the groups of users: SContextCache::get in several         *)
(* threads, beside a clock in seconds and the two system files.            *)
(*                                                                         *)
(* get() is cut where something else can come between: before it has the   *)
(* mutex, after the stat() of the files, after the time() with which the   *)
(* cache is cleared, and after it has let go of the mutex.  What a user's  *)
(* groups are is the number of changes that the files had seen when they   *)
(* were read.                                                              *)
(*                                                                         *)
(* EXTERNAL.  The clock is never set back.  A file that is changed gets    *)
(* the time of the change, or an earlier one, when it was written          *)
(* somewhere else and then put in place.                                   *)
(***************************************************************************)
EXTENDS Integers, Sequences, FiniteSets, FiniteSetsExt

CONSTANTS
    Threads,        \* the threads of libfuse
    NoThread,       \* no thread
    Users,          \* the pairs of a uid and a gid
    NoUser,         \* no pair
    MaxElems,       \* SCONTEXTCACHE_MAX_ELEMS
    MaxTime,        \* BOUND: seconds on the clock
    MaxVersion      \* BOUND: changes of the files

ASSUME NullAssumption == NoThread \notin Threads /\ NoUser \notin Users
ASSUME BoundsAssumption == MaxElems \in Nat \ {0} /\ MaxTime \in Nat /\ MaxVersion \in Nat

SysFiles == {"/etc/passwd", "/etc/group"}
Times    == 0..MaxTime
Versions == 0..MaxVersion

VARIABLES
    now,        \* time(NULL)
    mtime,      \* st_mtime of each of the two files
    version,    \* how often they have changed
    mutex,      \* SContextCache::mutex: who holds it
    checktime,  \* SContextCache::checktime
    nelems,     \* SContextCache::nelems
    queue,      \* SContextCache::queue, front first
    cache,      \* SContextCache::cache: user -> what was read, and when
    at,         \* where get() of a thread is
    user,       \* the pair it asks for
    seen,       \* auxiliary: the files as its stat() saw them
    found,      \* the element that its iterator stands for
    live,       \* is that still an element of the cache?
    since,      \* auxiliary: what others have asked for since it left
    cleared     \* auxiliary: has the cache been cleared since?

files == <<now, mtime, version>>
shared == <<mutex, checktime, nelems, queue, cache>>
local == <<at, user, seen, found, live, since, cleared>>
vars  == <<files, shared, local>>

Empty  == [u \in {} |-> 0]
Elem   == [version |-> 0, read |-> 0]
Elems  == [version : Versions, read : Times]
Latest == Max({mtime[f] : f \in SysFiles})
Place(u) == CHOOSE i \in DOMAIN queue : queue[i] = u          \* CElem::qit
Without(i) == SubSeq(queue, 1, i - 1) \o SubSeq(queue, i + 1, Len(queue))
Forget(u) == [v \in DOMAIN cache \ {u} |-> cache[v]]

(* The constructor sets checktime and calls uptodate(): either way it is the *)
(* time from which seconds are counted here.                                 *)
Init ==
    /\ now = 0
    /\ mtime = [f \in SysFiles |-> 0]
    /\ version = 0
    /\ mutex = NoThread
    /\ checktime = 0
    /\ nelems = 0 /\ queue = <<>> /\ cache = Empty
    /\ at = [t \in Threads |-> "idle"]
    /\ user = [t \in Threads |-> NoUser]
    /\ seen = [t \in Threads |-> [version |-> 0, latest |-> 0]]
    /\ found = [t \in Threads |-> Elem]
    /\ live = [t \in Threads |-> FALSE]
    /\ since = [t \in Threads |-> {}]
    /\ cleared = [t \in Threads |-> FALSE]

-----------------------------------------------------------------------------
(* get *)

Call(t, u) ==
    /\ at[t] = "idle"
    /\ at' = [at EXCEPT ![t] = "locking"]
    /\ user' = [user EXCEPT ![t] = u]
    /\ UNCHANGED <<files, shared, seen, found, live, since, cleared>>

(* uptodate(): a file has a later time than the last check, or none. *)
Outdated_Bug == mtime["/etc/passwd"] > checktime      \* one file only

Outdated == \E f \in SysFiles : mtime[f] > checktime

Enter(t, missing) ==
    /\ at[t] = "locking"
    /\ mutex = NoThread /\ mutex' = t
    /\ at' = [at EXCEPT ![t] = IF missing \/ Outdated THEN "clearing" ELSE "finding"]
    /\ seen' = [seen EXCEPT ![t] = [version |-> version, latest |-> Latest]]
    /\ UNCHANGED <<files, checktime, nelems, queue, cache, user, found, live, since, cleared>>

Left(t) == at[t] = "reading"       \* t has let go of the mutex, but not read

Clear(t) ==
    /\ at[t] = "clearing"
    /\ checktime' = now
    /\ nelems' = 0 /\ queue' = <<>> /\ cache' = Empty
    /\ live' = [s \in Threads |-> live[s] /\ ~Left(s)]
    /\ cleared' = [s \in Threads |-> cleared[s] \/ Left(s)]
    /\ at' = [at EXCEPT ![t] = "finding"]
    /\ UNCHANGED <<files, mutex, user, seen, found, since>>

(* The thread leaves with the element in hand. *)
Leave(t, e) ==
    /\ mutex' = NoThread
    /\ at' = [at EXCEPT ![t] = "reading"]
    /\ found' = [found EXCEPT ![t] = e]
    /\ since' = [s \in Threads |->
                    IF s = t THEN {}
                    ELSE IF Left(s) THEN since[s] \cup {user[t]} ELSE since[s]]
    /\ cleared' = [cleared EXCEPT ![t] = FALSE]
    /\ UNCHANGED <<files, checktime, user, seen>>

(* In the cache: to the front of the queue. *)
Hit_Bug(t) ==                \* it keeps its place in the queue
    LET u == user[t] IN
    /\ at[t] = "finding" /\ u \in DOMAIN cache
    /\ live' = [live EXCEPT ![t] = TRUE]
    /\ Leave(t, cache[u])
    /\ UNCHANGED <<nelems, cache, queue>>

Hit(t) ==
    LET u == user[t] IN
    /\ at[t] = "finding" /\ u \in DOMAIN cache
    /\ queue' = <<u>> \o Without(Place(u))
    /\ live' = [live EXCEPT ![t] = TRUE]
    /\ Leave(t, cache[u])
    /\ UNCHANGED <<nelems, cache>>

(* Not in the cache: make room when it is full, ... *)
Full == nelems = MaxElems
Back == queue[Len(queue)]
Room ==
    [cache  |-> IF Full THEN Forget(Back) ELSE cache,
     queue  |-> IF Full THEN SubSeq(queue, 1, Len(queue) - 1) ELSE queue,
     nelems |-> IF Full THEN nelems ELSE nelems + 1]

(* whoever has yet to read the element that goes is left with nothing, ... *)
LiveWithRoom == [s \in Threads |-> live[s] /\ ~(Full /\ Left(s) /\ user[s] = Back)]

(* ... and read the files, ... *)
Miss(t) ==
    LET u == user[t]
        e == [version |-> version, read |-> now]
    IN  /\ at[t] = "finding" /\ u \notin DOMAIN cache
        /\ nelems' = Room.nelems
        /\ queue' = <<u>> \o Room.queue
        /\ cache' = [v \in DOMAIN Room.cache \cup {u} |-> IF v = u THEN e ELSE Room.cache[v]]
        /\ live' = [LiveWithRoom EXCEPT ![t] = TRUE]
        /\ Leave(t, e)

(* ... which may fail: getgrouplist, when the groups have become more.  The  *)
(* caller gets the exception.                                                *)
Fail_Bug(t) ==               \* the place in the queue stays taken
    /\ at[t] = "finding" /\ user[t] \notin DOMAIN cache
    /\ nelems' = Room.nelems
    /\ queue' = <<user[t]>> \o Room.queue
    /\ cache' = Room.cache
    /\ live' = LiveWithRoom
    /\ mutex' = NoThread
    /\ at' = [at EXCEPT ![t] = "idle"]
    /\ user' = [user EXCEPT ![t] = NoUser]
    /\ UNCHANGED <<files, checktime, seen, found, since, cleared>>

Fail_NoUnlock(t) ==          \* the exception passes the unlock by
    /\ at[t] = "finding" /\ user[t] \notin DOMAIN cache
    /\ at' = [at EXCEPT ![t] = "idle"]
    /\ user' = [user EXCEPT ![t] = NoUser]
    /\ UNCHANGED <<files, shared, seen, found, live, since, cleared>>

Fail(t) ==
    /\ at[t] = "finding" /\ user[t] \notin DOMAIN cache
    /\ nelems' = Room.nelems - 1
    /\ queue' = Room.queue
    /\ cache' = Room.cache
    /\ live' = LiveWithRoom
    /\ mutex' = NoThread
    /\ at' = [at EXCEPT ![t] = "idle"]
    /\ user' = [user EXCEPT ![t] = NoUser]
    /\ since' = [s \in Threads |-> IF Left(s) THEN since[s] \cup {user[t]} ELSE since[s]]
    /\ seen' = [seen EXCEPT ![t] = [version |-> 0, latest |-> 0]]
    /\ UNCHANGED <<files, checktime, found, cleared>>

(* return it->second.sctx, without the mutex.  Of an element that is gone it *)
(* returns whatever is there now, if the program survives that.              *)
Read(t) ==
    /\ at[t] = "reading"
    /\ at' = [at EXCEPT ![t] = "idle"]
    /\ user' = [user EXCEPT ![t] = NoUser]
    /\ found' = [found EXCEPT ![t] = Elem]
    /\ live' = [live EXCEPT ![t] = FALSE]
    /\ seen' = [seen EXCEPT ![t] = [version |-> 0, latest |-> 0]]
    /\ since' = [since EXCEPT ![t] = {}]
    /\ cleared' = [cleared EXCEPT ![t] = FALSE]
    /\ UNCHANGED <<files, shared>>

-----------------------------------------------------------------------------
(* The world. *)

Tick ==
    /\ now < MaxTime
    /\ now' = now + 1
    /\ UNCHANGED <<mtime, version, shared, local>>

Change(f, m) ==
    /\ version < MaxVersion
    /\ version' = version + 1
    /\ mtime' = [mtime EXCEPT ![f] = m]
    /\ UNCHANGED <<now, shared, local>>

Step(t) ==
    \/ \E missing \in BOOLEAN : Enter(t, missing)
    \/ Clear(t) \/ Hit(t) \/ Miss(t) \/ Fail(t) \/ Read(t)

Next ==
    \/ \E t \in Threads : Step(t) \/ \E u \in Users : Call(t, u)
    \/ Tick
    \/ \E f \in SysFiles : \E m \in 0..now : Change(f, m)

Spec == Init /\ [][Next]_vars

-----------------------------------------------------------------------------
(* Properties. *)

(* Each variable has its type, and the mutex is held by the one thread that  *)
(* is in between.                                                            *)
TypeOK ==
    /\ now \in Times /\ mtime \in [SysFiles -> Times] /\ version \in Versions
    /\ mutex \in Threads \cup {NoThread}
    /\ checktime \in 0..now
    /\ nelems \in 0..MaxElems
    /\ queue \in Seq(Users)
    /\ cache \in [DOMAIN cache -> Elems]
    /\ user \in [Threads -> Users \cup {NoUser}]
    /\ \A t \in Threads : mutex = t <=> at[t] \in {"clearing", "finding"}
    /\ found \in [Threads -> Elems] /\ live \in [Threads -> BOOLEAN]

(* The three members agree: the queue has each key of the map once, and      *)
(* nelems is their number - also after an element was evicted for one whose  *)
(* constructor then failed.                                                  *)
QueueOfCache ==
    /\ nelems = Len(queue)
    /\ {queue[i] : i \in DOMAIN queue} = DOMAIN cache
    /\ \A i, j \in DOMAIN queue : queue[i] = queue[j] => i = j

(* get() answers with the files as they were when it was called, or later,   *)
(* unless the last change has a time no later than the second in which the   *)
(* answer was read: what is in the same second, or was put in place with an  *)
(* earlier time, is missed, and nothing else.                                *)
OldOnlyWithinSecond ==
    \A t \in Threads :
        at[t] = "reading" =>
            found[t].version >= seen[t].version \/ seen[t].latest <= found[t].read

(* The iterator is read after the unlock.  The element may be gone by then,  *)
(* but only if the files have changed meanwhile, so that the cache was       *)
(* cleared, or other threads have asked for as many other users as the cache *)
(* has room for: what was asked for last goes last.                          *)
GoneOnlyForReason ==
    \A t \in Threads :
        at[t] = "reading" /\ ~live[t] =>
            cleared[t] \/ Cardinality(since[t] \ {user[t]}) >= MaxElems
=============================================================================
