------------------------------ MODULE Namespace ------------------------------
(***************************************************************************)
(* The name space of offlinefs: the "nodes" and "directories" databases    *)
(* and the FUSE handlers that add, remove and move names.                  *)
(*                                                                         *)
(* A node is a register of the nodes database (libofflinefs/nodes), found  *)
(* by its id; a directory has a second register of the same id in the      *)
(* directories database, which maps names to node ids and holds "." and    *)
(* ".." like any other name.  Nothing but the "nlink" attribute says how   *)
(* many names a node has, and a node is removed when unlink() takes that   *)
(* attribute to zero.                                                      *)
(*                                                                         *)
(* A definition whose name ends in _Bug is the definition below it with a  *)
(* mistake; no specification uses it.  PROJECT.json pairs each with the    *)
(* property that notices the mistake.                                      *)
(*                                                                         *)
(* A handler runs inside an FsTxn and takes the write locks of Berkeley DB *)
(* as it reads (DB_RMW), so it is one step here.  The order of the updates *)
(* inside the step is the code's: each handler is the composition of the   *)
(* methods it calls, and each method maps a database state to a database   *)
(* state.  Times, owners and modes are left out; a handler that is refused *)
(* by access() or by check_sticky_bit() changes nothing.                   *)
(***************************************************************************)
EXTENDS Integers, FiniteSets

CONSTANTS
    Names,      \* the names a user can give, "." and ".." not among them
    MaxId,      \* BOUND: node ids are 0..MaxId (uint64_t in the code)
    NoNode      \* what a name that is not in a directory maps to

Dots     == {".", ".."}
AllNames == Names \cup Dots
Ids      == 0..MaxId
Root     == 0
Keys     == Ids \X AllNames
Kinds    == {"free", "reg", "lnk", "dir"}

ASSUME NamesAssumption == IsFiniteSet(Names) /\ Names \cap Dots = {}
ASSUME MaxIdAssumption == MaxId \in Nat
ASSUME NoNodeAssumption == NoNode \notin Ids

VARIABLES
    kind,         \* nodes: the type bits of "offlinefs.mode"; "free" is no register
    nlink,        \* nodes: "offlinefs.nlink", 0 where there is no register
    directories   \* directories: <<directory id, name>> -> node id or NoNode

vars == <<kind, nlink, directories>>

-----------------------------------------------------------------------------
(* States of the two databases as records, for the methods that compose. *)

Db == [kind |-> kind, nlink |-> nlink, dirs |-> directories]

Commit(s) ==
    /\ kind' = s.kind
    /\ nlink' = s.nlink
    /\ directories' = s.dirs

Taken(s, d, m) == s.dirs[<<d, m>>] # NoNode

(* countchildren(): the number of attributes of the directory's register. *)
Children(s, d) == {m \in AllNames : Taken(s, d, m)}

-----------------------------------------------------------------------------
(* Methods of Node and Directory. *)

(* Register::remove, and Directory::remove for a directory: the names in a *)
(* directory go with it, the link counts of what they named do not change. *)
RemoveNode_Bug(s, n) ==      \* the attributes of the register stay
    [kind  |-> [s.kind EXCEPT ![n] = "free"],
     nlink |-> s.nlink,
     dirs  |-> [k \in Keys |->
                  IF k[1] = n /\ s.kind[n] = "dir" THEN NoNode ELSE s.dirs[k]]]

RemoveNode(s, n) ==
    [kind  |-> [s.kind EXCEPT ![n] = "free"],
     nlink |-> [s.nlink EXCEPT ![n] = 0],
     dirs  |-> [k \in Keys |->
                  IF k[1] = n /\ s.kind[n] = "dir" THEN NoNode ELSE s.dirs[k]]]

LinkNode(s, n) == [s EXCEPT !.nlink[n] = @ + 1]

UnlinkNode_Bug(s, n) ==      \* the last link does not count as the last
    IF s.nlink[n] - 1 < 0
    THEN RemoveNode(s, n)
    ELSE [s EXCEPT !.nlink[n] = @ - 1]

UnlinkNode(s, n) ==
    IF s.nlink[n] - 1 <= 0
    THEN RemoveNode(s, n)
    ELSE [s EXCEPT !.nlink[n] = @ - 1]

SetEntry(s, d, m, v) == [s EXCEPT !.dirs[<<d, m>>] = v]

(* addchild: the link is counted first and taken back on EExists. *)
AddChild_Bug(s, d, m, n) ==  \* the link is not taken back
    IF Taken(s, d, m)
    THEN LinkNode(s, n)
    ELSE SetEntry(LinkNode(s, n), d, m, n)

AddChild(s, d, m, n) ==
    IF Taken(s, d, m)
    THEN UnlinkNode(LinkNode(s, n), n)
    ELSE SetEntry(LinkNode(s, n), d, m, n)

DelChild(s, d, m) ==
    LET child == s.dirs[<<d, m>>] IN
    IF child = NoNode THEN s ELSE UnlinkNode(SetEntry(s, d, m, NoNode), child)

(* createregister gives the id after the last register's. *)
IsNextId(s, id) ==
    /\ \A n \in Ids : s.kind[n] # "free" => n < id
    /\ id # 0 => s.kind[id - 1] # "free"

(* T::create of Node, File, Symlink and Directory: no link, but a new *)
(* directory holds itself.                                            *)
NewNode(s, id, k) ==
    LET s1 == [kind  |-> [s.kind EXCEPT ![id] = k],
               nlink |-> [s.nlink EXCEPT ![id] = 0],
               dirs  |-> s.dirs]
    IN  IF k = "dir" THEN AddChild(s1, id, ".", id) ELSE s1

(* Path<T>::create: make the node, name it, remove it if the name is taken. *)
PathCreate_Bug(s, d, m, id, k) ==   \* no clean-up in the handler of EExists
    AddChild(NewNode(s, id, k), d, m, id)

PathCreate(s, d, m, id, k) ==
    LET s1 == AddChild(NewNode(s, id, k), d, m, id) IN
    IF Taken(s, d, m) THEN RemoveNode(s1, id) ELSE s1

(* What rmdir and rename do to an empty directory before its name goes. *)
DelDots_Bug(s, d) == DelChild(s, d, ".")     \* the parent keeps the link

DelDots(s, d) == DelChild(DelChild(s, d, "."), d, "..")

-----------------------------------------------------------------------------
(* What the handlers find. *)

IsDir(d) == d \in Ids /\ kind[d] = "dir"

(* The directory reached from d by i steps to "..". *)
Up(s, d) ==
    LET up[i \in 0..MaxId] ==
          IF i = 0 THEN d
          ELSE IF up[i - 1] \in Ids THEN s.dirs[<<up[i - 1], "..">>] ELSE NoNode
    IN  up

(* The loop of rename over the parents of d: is n one of them (or d itself)? *)
IsWithin(s, d, n) == \E i \in 0..MaxId : Up(s, d)[i] = n /\ n # Root

(* EXTERNAL.  What the kernel's VFS lets through to the handlers: it renames *)
(* no directory into its own subtree and links no directory.                 *)
VfsAllowsRename(n, d) == n \in Ids /\ (kind[n] = "dir" => ~IsWithin(Db, d, n))
VfsAllowsLink(n) == kind[n] # "dir"

-----------------------------------------------------------------------------
(* FsDb::rebuild: the root directory is node 0 and its own parent. *)

EmptyDb ==
    [kind  |-> [n \in Ids |-> "free"],
     nlink |-> [n \in Ids |-> 0],
     dirs  |-> [k \in Keys |-> NoNode]]

Rebuilt == AddChild(NewNode(EmptyDb, Root, "dir"), Root, "..", Root)

Init ==
    /\ kind = Rebuilt.kind
    /\ nlink = Rebuilt.nlink
    /\ directories = Rebuilt.dirs

-----------------------------------------------------------------------------
(* The handlers.  d is the directory that the parent path resolves to, m the *)
(* leaf.                                                                     *)

Mknod(d, m, id) ==
    /\ IsDir(d) /\ IsNextId(Db, id)
    /\ Commit(PathCreate(Db, d, m, id, "reg"))

Symlink(d, m, id) ==
    /\ IsDir(d) /\ IsNextId(Db, id)
    /\ Commit(PathCreate(Db, d, m, id, "lnk"))

Mkdir(d, m, id) ==
    /\ IsDir(d) /\ IsNextId(Db, id)
    /\ LET s == PathCreate(Db, d, m, id, "dir")
       IN  Commit(IF Taken(Db, d, m) THEN s ELSE AddChild(s, id, "..", d))

Unlink(d, m) ==
    /\ IsDir(d) /\ Taken(Db, d, m)
    /\ kind[directories[<<d, m>>]] # "dir"           \* else EISDIR
    /\ Commit(DelChild(Db, d, m))

Rmdir_Bug(d, m) ==           \* one entry too many passes for empty
    LET n == directories[<<d, m>>] IN
    /\ IsDir(d) /\ Taken(Db, d, m)
    /\ kind[n] = "dir"
    /\ Cardinality(Children(Db, n)) <= 3
    /\ Commit(DelChild(DelDots(Db, n), d, m))

Rmdir(d, m) ==
    LET n == directories[<<d, m>>] IN
    /\ IsDir(d) /\ Taken(Db, d, m)
    /\ kind[n] = "dir"                               \* else ENOTDIR
    /\ Cardinality(Children(Db, n)) <= 2             \* else ENOTEMPTY
    /\ Commit(DelChild(DelDots(Db, n), d, m))

Link(n, d, m) ==
    /\ kind[n] # "free" /\ IsDir(d)
    /\ Commit(AddChild(Db, d, m, n))

(* May src replace the node dst at directory d? *)
MayReplace(src, dst, d) ==
    IF kind[src] = "dir"
    THEN /\ kind[dst] = "dir"                        \* else ENOTDIR
         /\ ~IsWithin(Db, d, src)                    \* else EINVAL
         /\ Cardinality(Children(Db, dst)) <= 2      \* else ENOTEMPTY
    ELSE kind[dst] # "dir"                           \* else EISDIR

(* The node at the destination goes; a directory that moves gets its new     *)
(* parent; src gets its new name before it loses the old one.                *)
Renamed_ParentBug(s, d1, m1, d2, m2) ==   \* ".." still names the old parent
    LET src == s.dirs[<<d1, m1>>]
        dst == s.dirs[<<d2, m2>>]
        s1  == IF dst = NoNode THEN s
               ELSE DelChild(IF s.kind[src] = "dir" THEN DelDots(s, dst) ELSE s, d2, m2)
    IN  DelChild(AddChild(s1, d2, m2, src), d1, m1)

Renamed(s, d1, m1, d2, m2) ==
    LET src == s.dirs[<<d1, m1>>]
        dst == s.dirs[<<d2, m2>>]
        s1  == IF dst = NoNode THEN s
               ELSE DelChild(IF s.kind[src] = "dir" THEN DelDots(s, dst) ELSE s, d2, m2)
        s2  == IF s.kind[src] = "dir"
               THEN AddChild(DelChild(s1, src, ".."), src, "..", d2)
               ELSE s1
    IN  DelChild(AddChild(s2, d2, m2, src), d1, m1)

(* Both paths equal is a success that changes nothing (a step left out). *)
Rename(d1, m1, d2, m2) ==
    LET src == directories[<<d1, m1>>]
        dst == directories[<<d2, m2>>]
    IN  /\ IsDir(d1) /\ IsDir(d2) /\ Taken(Db, d1, m1)
        /\ <<d1, m1>> # <<d2, m2>>
        /\ dst # NoNode => MayReplace(src, dst, d2)
        /\ Commit(Renamed(Db, d1, m1, d2, m2))

-----------------------------------------------------------------------------

Next ==
    \E d \in Ids, m \in Names :
        \/ \E id \in Ids :
              \/ Mknod(d, m, id)
              \/ Symlink(d, m, id)
              \/ Mkdir(d, m, id)
        \/ Unlink(d, m)
        \/ Rmdir(d, m)
        \/ \E n \in Ids : VfsAllowsLink(n) /\ Link(n, d, m)
        \/ \E d2 \in Ids, m2 \in Names :
              VfsAllowsRename(directories[<<d, m>>], d2) /\ Rename(d, m, d2, m2)

Spec == Init /\ [][Next]_vars

-----------------------------------------------------------------------------
(* Properties. *)

(* The entries of all directories that name the node n. *)
Refs(n) == {k \in Keys : directories[k] = n}

(* Each database holds what its columns may hold, and the attributes of a   *)
(* register go when remove() takes the register away.                       *)
TypeOK ==
    /\ kind \in [Ids -> Kinds]
    /\ nlink \in [Ids -> Nat]
    /\ directories \in [Keys -> Ids \cup {NoNode}]
    /\ \A n \in Ids : kind[n] = "free" => nlink[n] = 0

(* The "nlink" attribute, which addchild() and delchild() count up and down, *)
(* is the number of entries that name the node, "." and ".." included: every *)
(* sequence of handlers keeps the two databases in agreement.                *)
LinkCountExact == \A n \in Ids : nlink[n] = Cardinality(Refs(n))

(* unlink() removes a node exactly when nothing names it any more: no entry  *)
(* names a register that is gone, and no register is left without an entry.  *)
NodeIffNamed == \A n \in Ids : kind[n] # "free" <=> Refs(n) # {}

(* Directories form a tree: an entry belongs to a directory, "." is the      *)
(* directory itself, and ".." is the one directory that names it, which      *)
(* rename has to rewrite when a directory moves.                             *)
TreeShape ==
    /\ \A k \in Keys : directories[k] # NoNode => kind[k[1]] = "dir"
    /\ \A d \in Ids :
          kind[d] = "dir" =>
            /\ directories[<<d, ".">>] = d
            /\ {k \in Refs(d) : k[2] \in Names} =
                 IF d = Root THEN {}
                 ELSE {k \in Refs(d) : k[2] \in Names /\ k[1] = directories[<<d, "..">>]}
            /\ d # Root => Cardinality({k \in Refs(d) : k[2] \in Names}) = 1

(* No sequence of renames detaches a subtree: ".." leads from every directory *)
(* to the root, and every other node is named by a directory.                 *)
AllAttached ==
    \A n \in Ids :
        /\ kind[n] = "dir" => \E i \in 0..MaxId : Up(Db, n)[i] = Root
        /\ kind[n] \in {"reg", "lnk"} => \E k \in Refs(n) : k[2] \in Names

(* A handler that leaves every name as it was leaves registers, kinds and     *)
(* link counts as they were, too: mknod, mkdir, symlink and link on a taken   *)
(* name undo their updates.  (Not the times, which are not modelled: the      *)
(* ctime that link has set, fs.cxx:388, is committed.)                        *)
NoTraceOfFailure ==
    [][(\A k \in Ids \X Names : directories'[k] = directories[k])
          => UNCHANGED vars]_vars

(* The databases implement a tree of names in which nodes live as long as     *)
(* they are named.                                                            *)
Tree == INSTANCE FsTree
            WITH type <- kind, entry <- [k \in Ids \X Names |-> directories[k]]
TreeSpec == Tree!Spec

(* fs.cxx:307 says of rename "Check if both paths refer to the same node",    *)
(* and returns success without doing anything then: what rename makes of the  *)
(* databases, when its two paths are two names of one node, is no change.     *)
SameNodeRenameIsNoOp ==
    \A k1, k2 \in Ids \X Names :
        (directories[k1] # NoNode /\ directories[k1] = directories[k2] /\ k1 # k2)
            => Renamed(Db, k1[1], k1[2], k2[1], k2[2]) = Db

=============================================================================
