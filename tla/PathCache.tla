------------------------------ MODULE PathCache ------------------------------
(***************************************************************************)
(* The path cache (libofflinefs/pathcache): from paths to nodes, with the  *)
(* search permission of each node on the way.                              *)
(*                                                                         *)
(* PathCache_hash keeps a hash map and a queue of the same entries; here a *)
(* cache is the queue, oldest entry first, and the map is "the entry of    *)
(* that path".  A path is the sequence of its tokens.  An entry is valid   *)
(* as long as it is in the queue, so its parent pointer is the entry of    *)
(* the path without its last token, looked up again if that has gone.      *)
(*                                                                         *)
(* The operators map a cache and a state s of the databases (s.kind,       *)
(* s.dirs and s.search) to what the method leaves and returns.  The owner, *)
(* the group and the mode that decide a caller's search permission are one *)
(* bit of a directory; uid 0 passes every check.                           *)
(***************************************************************************)
EXTENDS Integers, Sequences

CONSTANTS
    Root,         \* the root directory
    NoNode,       \* no such node: the exceptions ENotFound, EBadCast, EAccess
    MaxEntries    \* PATHCACHE_MAX_ENTRIES

Callers == {"root", "user"}

-----------------------------------------------------------------------------
(* What the databases say. *)

(* Directory::getchild, after the cast of the node to a directory. *)
GetChild(s, d, m) ==
    IF d \in DOMAIN s.kind /\ s.kind[d] = "dir" THEN s.dirs[<<d, m>>] ELSE NoNode

(* Node::getnode: the register of that id, if there is one. *)
Instance(s, n) == IF s.kind[n] = "free" THEN NoNode ELSE n

Prefix(p, i) == SubSeq(p, 1, i)

(* PathCache_null::getnode, which answers from the databases alone. *)
Resolve(s, u, p) ==
    LET at[i \in 0..Len(p)] ==
          IF i = 0 THEN Root
          ELSE LET d == at[i - 1] IN
               IF d # NoNode /\ (u = "root" \/ s.search[d])
               THEN GetChild(s, d, p[i])
               ELSE NoNode
    IN  at[Len(p)]

-----------------------------------------------------------------------------
(* The cache. *)

Entry(s, p, n) == [path |-> p, node |-> n, search |-> s.search[n]]

Cached(c, p)  == \E i \in DOMAIN c : c[i].path = p
QueueIt(c, p) == CHOOSE i \in DOMAIN c : c[i].path = p
EntryOf(c, p) == c[QueueIt(c, p)]

(* queue.erase of one entry. *)
Erase(c, i) == SubSeq(c, 1, i - 1) \o SubSeq(c, i + 1, Len(c))

(* delEntry, and invalidate when the path is cached: only that very path. *)
DelEntry(c, p) == IF Cached(c, p) THEN Erase(c, QueueIt(c, p)) ELSE c

(* lookup: from the longest cached prefix down, each missing entry is made   *)
(* from the node of the entry above it; what was made stays after a failure. *)
Lookup(c, s, p) ==
    LET upto[i \in 0..Len(p)] ==
          IF Cached(c, Prefix(p, i)) THEN [cache |-> c, found |-> TRUE]
          ELSE IF i = 0
          THEN [cache |-> Append(c, Entry(s, <<>>, Root)), found |-> TRUE]
          ELSE LET up == upto[i - 1]
                   n  == IF up.found
                         THEN GetChild(s, EntryOf(up.cache, Prefix(p, i - 1)).node, p[i])
                         ELSE NoNode
               IN  IF n = NoNode
                   THEN [cache |-> up.cache, found |-> FALSE]
                   ELSE [cache |-> Append(up.cache, Entry(s, Prefix(p, i), n)),
                         found |-> TRUE]
    IN  upto[Len(p)]

CheckAccess(u, e) == u = "root" \/ e.search

(* withPath(checkAccess): the proper prefixes of the path, longest first. *)
Searched(c, s, u, p) ==
    LET after[i \in 0..Len(p)] ==
          IF i = 0 THEN [cache |-> c, found |-> TRUE]
          ELSE LET before == after[i - 1]
                   q      == Prefix(p, Len(p) - i)
                   l      == Lookup(before.cache, s, q)
               IN  IF ~before.found THEN before
                   ELSE [cache |-> l.cache,
                         found |-> l.found /\ CheckAccess(u, EntryOf(l.cache, q))]
    IN  after[Len(p)]

(* The entry goes to the back of the queue; the oldest go from the front. *)
Promote_Bug(c, p) ==         \* the entry stays at its old place, too
    LET q == Append(c, EntryOf(c, p))
    IN  IF Len(q) > MaxEntries THEN SubSeq(q, Len(q) - MaxEntries + 1, Len(q)) ELSE q

Promote(c, p) ==
    LET q == Append(Erase(c, QueueIt(c, p)), EntryOf(c, p))
    IN  IF Len(q) > MaxEntries THEN SubSeq(q, Len(q) - MaxEntries + 1, Len(q)) ELSE q

(* getnode.  A failure is thrown before the queue is trimmed. *)
GetNode(c, s, u, p) ==
    LET above == Searched(c, s, u, p)
        l     == Lookup(above.cache, s, p)
    IN  IF ~above.found THEN [cache |-> above.cache, node |-> NoNode]
        ELSE IF ~l.found THEN [cache |-> l.cache, node |-> NoNode]
        ELSE [cache |-> Promote(l.cache, p),
              node  |-> Instance(s, EntryOf(l.cache, p).node)]

=============================================================================
