-------------------------------- MODULE PathFs --------------------------------
(***************************************************************************)
(* The FUSE handlers as they are called, with paths: each resolves its     *)
(* paths through the path cache, changes the name space, and invalidates   *)
(* the paths that the code names.                                          *)
(*                                                                         *)
(* A handler that adds, removes or moves a name resolves the parent of its *)
(* path through the cache and looks the leaf up in the databases; the      *)
(* others resolve the whole path through the cache.  A handler that is     *)
(* refused has only resolved its paths, which is what Stat does.           *)
(***************************************************************************)
EXTENDS Namespace, Sequences

CONSTANTS
    MaxEntries,   \* PATHCACHE_MAX_ENTRIES
    MaxDepth,     \* BOUND: tokens of the paths the handlers are called with
    Writers       \* BOUND: the callers, "root" or "user", that change names

ASSUME MaxEntriesAssumption == MaxEntries \in Nat \ {0}
ASSUME MaxDepthAssumption == MaxDepth \in Nat

VARIABLES
    search,   \* may the unprivileged caller search that directory?
    cache,    \* PathCache_hash::queue
    suspect   \* auxiliary: the paths below which an entry may be stale

pathVars == <<kind, nlink, directories, search, cache, suspect>>

Cache == INSTANCE PathCache

Paths  == UNION {[1..i -> Names] : i \in 0..MaxDepth}
Leaves == Paths \ {<<>>}                \* the paths that have a leaf
Parent(p) == SubSeq(p, 1, Len(p) - 1)
Leaf(p)   == p[Len(p)]

IsBelow(p, q) == Len(q) < Len(p) /\ SubSeq(p, 1, Len(q)) = q

FsState == [kind |-> kind, dirs |-> directories, search |-> search]

(* Auxiliary.  A directory moved away from the paths in "moves"; a handler    *)
(* that changed something found its nodes as in "used", pairs of a path and   *)
(* a node.  Once one of those was not the node of that path, all is suspect.  *)
Suspects(used, moves) ==
    IF \E r \in used : Cache!Resolve(FsState, "root", r[1]) # r[2]
    THEN {<<>>}
    ELSE suspect \cup {p \in moves : Len(p) < MaxDepth}

PathInit ==
    /\ Init
    /\ search = [n \in Ids |-> TRUE]
    /\ cache = <<>>
    /\ suspect = {}

-----------------------------------------------------------------------------

(* A register that goes takes its permissions with it; a new directory is *)
(* made with the search bits set.                                         *)
KeepSearch ==
    search' = [n \in Ids |-> kind[n] = "dir" /\ kind'[n] = "dir" => search[n]]

(* getattr, access, opendir, getxattr, listxattr, and every handler that      *)
(* changes none of the state modelled here: the cache may still grow.         *)
Stat(u, p) ==
    /\ cache' = Cache!GetNode(cache, FsState, u, p).cache
    /\ UNCHANGED <<vars, search, suspect>>

(* Path<T>::Path *)
ParentOf(c, u, p) == Cache!GetNode(c, FsState, u, Parent(p))

(* Also symlink: the type of the new node makes no difference to any path. *)
MknodPath(u, p) ==
    LET r == ParentOf(cache, u, p) IN
    /\ \E id \in Ids : Mknod(r.node, Leaf(p), id)
    /\ cache' = r.cache
    /\ suspect' = Suspects({<<Parent(p), r.node>>}, {})
    /\ KeepSearch

MkdirPath(u, p) ==
    LET r == ParentOf(cache, u, p) IN
    /\ \E id \in Ids : Mkdir(r.node, Leaf(p), id)
    /\ cache' = r.cache
    /\ suspect' = Suspects({<<Parent(p), r.node>>}, {})
    /\ KeepSearch

UnlinkPath(u, p) ==
    LET r == ParentOf(cache, u, p) IN
    /\ Unlink(r.node, Leaf(p))
    /\ cache' = Cache!DelEntry(r.cache, p)
    /\ suspect' = Suspects({<<Parent(p), r.node>>}, {})
    /\ KeepSearch

RmdirPath(u, p) ==
    LET r == ParentOf(cache, u, p) IN
    /\ Rmdir(r.node, Leaf(p))
    /\ cache' = Cache!DelEntry(r.cache, p)
    /\ suspect' = Suspects({<<Parent(p), r.node>>}, {})
    /\ KeepSearch

(* The parent of the new path is resolved before the old path is. *)
LinkPath(u, p1, p2) ==
    LET r == ParentOf(cache, u, p2)
        n == Cache!GetNode(r.cache, FsState, u, p1)
    IN  /\ r.node # NoNode /\ n.node # NoNode
        /\ VfsAllowsLink(n.node)
        /\ Link(n.node, r.node, Leaf(p2))
        /\ cache' = n.cache
        /\ suspect' = Suspects({<<p1, n.node>>, <<Parent(p2), r.node>>}, {})
        /\ KeepSearch

(* EXTERNAL.  The kernel renames paths on which getattr shows it directories, *)
(* and compares the paths, not the nodes.                                     *)
VfsWalks(u, p) ==
    \A i \in 0..Len(p) - 1 :
        LET n == Cache!GetNode(cache, FsState, u, SubSeq(p, 1, i)).node IN IsDir(n)

VfsAllowsRenamePaths(p1, p2) == p1 # p2 /\ ~IsBelow(p1, p2) /\ ~IsBelow(p2, p1)

(* rename, when the paths lead to different places.  The new path is         *)
(* invalidated only when a node is replaced there.                           *)
RenamePath_Bug(u, p1, p2) ==  \* the old path is not invalidated
    LET r1 == ParentOf(cache, u, p1)
        r2 == ParentOf(r1.cache, u, p2)
        k1 == <<r1.node, Leaf(p1)>>
        k2 == <<r2.node, Leaf(p2)>>
    IN  /\ IsDir(r1.node) /\ Taken(Db, r1.node, Leaf(p1))
        /\ r2.node # NoNode
        /\ Rename(r1.node, Leaf(p1), r2.node, Leaf(p2))
        /\ cache' = IF directories[k2] = NoNode THEN r2.cache
                    ELSE Cache!DelEntry(r2.cache, p2)
        /\ suspect' = Suspects({<<Parent(p1), r1.node>>, <<Parent(p2), r2.node>>},
                               IF kind[directories[k1]] = "dir" THEN {p1} ELSE {})
        /\ KeepSearch

RenamePath(u, p1, p2) ==
    LET r1 == ParentOf(cache, u, p1)
        r2 == ParentOf(r1.cache, u, p2)
        k1 == <<r1.node, Leaf(p1)>>
        k2 == <<r2.node, Leaf(p2)>>
    IN  /\ IsDir(r1.node) /\ Taken(Db, r1.node, Leaf(p1))
        /\ r2.node # NoNode
        /\ Rename(r1.node, Leaf(p1), r2.node, Leaf(p2))
        /\ cache' = Cache!DelEntry(IF directories[k2] = NoNode THEN r2.cache
                                   ELSE Cache!DelEntry(r2.cache, p2), p1)
        /\ suspect' = Suspects({<<Parent(p1), r1.node>>, <<Parent(p2), r2.node>>},
                               IF kind[directories[k1]] = "dir" THEN {p1} ELSE {})
        /\ KeepSearch

(* rename, when two paths lead to the one place: the node is unlinked there  *)
(* as the node to replace.  If that was its last name, reading its mode      *)
(* throws and the old path keeps its entry; if not, the name is made again   *)
(* and then deleted as the old name.                                         *)
RenameSamePlace(u, p1, p2) ==
    LET r1 == ParentOf(cache, u, p1)
        r2 == ParentOf(r1.cache, u, p2)
        m  == Leaf(p1)
        n  == directories[<<r1.node, m>>]
        c  == Cache!DelEntry(r2.cache, p2)
    IN  /\ Leaf(p2) = m
        /\ IsDir(r1.node) /\ Taken(Db, r1.node, m)
        /\ r2.node = r1.node
        /\ kind[n] = "dir" => Cardinality(Children(Db, n)) <= 2    \* else ENOTEMPTY
        /\ Commit(DelChild(IF kind[n] = "dir" THEN DelDots(Db, n) ELSE Db, r1.node, m))
        /\ cache' = IF kind'[n] = "free" THEN c ELSE Cache!DelEntry(c, p1)
        /\ suspect' = {<<>>}             \* one of the two paths is stale
        /\ KeepSearch

(* chmod and chown: the attributes of the node may change, and its path is   *)
(* invalidated.                                                              *)
SetPerm_Bug(u, p) ==          \* no invalidation
    LET r == Cache!GetNode(cache, FsState, u, p) IN
    /\ r.node # NoNode
    /\ search' = IF kind[r.node] = "dir" THEN [search EXCEPT ![r.node] = ~@] ELSE search
    /\ cache' = r.cache
    /\ suspect' = Suspects({<<p, r.node>>}, {})
    /\ UNCHANGED vars

SetPerm(u, p) ==
    LET r == Cache!GetNode(cache, FsState, u, p) IN
    /\ r.node # NoNode
    /\ search' = IF kind[r.node] = "dir" THEN [search EXCEPT ![r.node] = ~@] ELSE search
    /\ cache' = Cache!DelEntry(r.cache, p)
    /\ suspect' = Suspects({<<p, r.node>>}, {})
    /\ UNCHANGED vars

(* setxattr of "offlinefs.mode", "uid" or "gid".  Other attributes, the only *)
(* ones that others than uid 0 may set, are not in the cache: that is Stat.  *)
Setxattr(u, p) == u = "root" /\ SetPerm(u, p)

-----------------------------------------------------------------------------

Moving(u) ==
    \E p1, p2 \in {p \in Leaves : VfsWalks(u, p)} :
        /\ VfsAllowsRenamePaths(p1, p2)
        /\ RenamePath(u, p1, p2) \/ RenameSamePlace(u, p1, p2)

PathNext ==
    \/ \E u \in Cache!Callers, p \in Paths :
          Stat(u, p) \/ SetPerm(u, p) \/ Setxattr(u, p)
    \/ \E u \in Writers :
          \/ \E p \in Leaves :
                \/ MknodPath(u, p)
                \/ MkdirPath(u, p)
                \/ UnlinkPath(u, p)
                \/ RmdirPath(u, p)
          \/ \E p1, p2 \in Leaves : LinkPath(u, p1, p2)
          \/ Moving(u)

PathSpec == PathInit /\ [][PathNext]_pathVars

-----------------------------------------------------------------------------
(* Properties. *)

BelowSuspect(p) == \E q \in suspect : IsBelow(p, q)

(* An entry says what the databases say of its path.  The search bit of a    *)
(* node that is not a directory is never used.                               *)
Coherent(e) ==
    /\ Cache!Resolve(FsState, "root", e.path) = e.node
    /\ e.search = search[e.node]

(* The paths that the handlers invalidate are enough for every entry of the  *)
(* cache but those strictly below the old path of a directory that was       *)
(* moved: whatever the order of calls and evictions, those alone can be      *)
(* stale, until a handler changes something through one of them.             *)
StaleOnlyBelowMoved ==
    \A i \in 1..Len(cache) : Coherent(cache[i]) \/ BelowSuspect(cache[i].path)

(* Where no directory was moved on the way, PathCache_hash::getnode finds    *)
(* the node that PathCache_null::getnode finds, or refuses as it does.       *)
AnswersLikeUncached ==
    \A u \in Cache!Callers, p \in Paths :
        ~BelowSuspect(p) =>
            Cache!GetNode(cache, FsState, u, p).node = Cache!Resolve(FsState, u, p)

(* Each path has one entry, and an entry was made for a node that existed.   *)
CacheTypeOK ==
    /\ search \in [Ids -> BOOLEAN]
    /\ suspect \subseteq Paths
    /\ \A i \in 1..Len(cache) :
          /\ cache[i].path \in Paths /\ cache[i].node \in Ids
          /\ cache[i].search \in BOOLEAN
          /\ \A j \in 1..Len(cache) : cache[i].path = cache[j].path => i = j

(* fs.cxx:324 says of rename "Check if dst is a subdirectory of src", which   *)
(* it answers with EINVAL: no rename puts a directory below itself.           *)
NoDirectoryBelowItself ==
    \A d \in Ids \ {Root}, i \in 1..MaxId : kind[d] = "dir" => Up(Db, d)[i] # d

=============================================================================
