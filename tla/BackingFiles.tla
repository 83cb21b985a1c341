---------------------------- MODULE BackingFiles ----------------------------
(***************************************************************************)
(* Where the bytes of a file are: FS::getsource, Source and the media.     *)
(*                                                                         *)
(* A node made by mknod has no storage.  The first handler that needs its  *)
(* bytes, open() or truncate(), gives it the default medium and a "phid",  *)
(* the path of that call; from then on the bytes are the file of that name *)
(* in the medium's directory, wherever the node is moved or linked.  The   *)
(* register's remove() deletes the file, if the medium's attribute         *)
(* "unlink_files" says so.                                                 *)
(*                                                                         *)
(* The module composes the handlers on names (Namespace) with storage.     *)
(* Paths are resolved without the cache.  Of the bytes of a file is kept   *)
(* which nodes wrote them, or were imported for them.  There is one medium *)
(* and one object for each open node; the directories that delfile()       *)
(* removes on the medium are empty ones and are left out.                  *)
(*                                                                         *)
(* EXTERNAL.  libfuse gives a file that is unlinked or replaced while it   *)
(* is open another name until it is released (the default, no hard_remove).*)
(***************************************************************************)
EXTENDS Namespace, Sequences

CONSTANTS
    NoPath,         \* no "offlinefs.phid" attribute
    MaxDepth,       \* BOUND: tokens of a path
    MaxLeft,        \* BOUND: files that are left on the medium
    UnlinkFiles,    \* attribute "unlink_files" of the medium
    Refusing        \* BOUND: may the medium fail to open and to delete?

Paths == UNION {[1..i -> Names] : i \in 1..MaxDepth}
Old   == -1         \* bytes of nodes that are gone
Objects == {"none", "open", "unlinked"}

ASSUME MaxDepthAssumption == MaxDepth \in Nat /\ MaxLeft \in Nat
ASSUME FlagsAssumption == UnlinkFiles \in BOOLEAN /\ Refusing \in BOOLEAN
ASSUME NoPathAssumption == NoPath \notin Paths

VARIABLES
    phid,     \* nodes: "offlinefs.phid", with "offlinefs.source" and "mediumid"
    files,    \* the files on the medium
    bytes,    \* whose bytes are in the file
    object,   \* the Source object of an open node, "unlinked" when its file went
    wrote,    \* auxiliary: the nodes with bytes of their own since truncation
    mixed,    \* auxiliary: the nodes that had their phid in common with another
    left      \* auxiliary: the files that delfile() left, and nothing emptied

storage     == <<phid, files, bytes, object, wrote, mixed, left>>
backingVars == <<vars, storage>>

BackingInit ==
    /\ Init
    /\ phid = [n \in Ids |-> NoPath]
    /\ files = {}
    /\ bytes = [p \in Paths |-> {}]
    /\ object = [n \in Ids |-> "none"]
    /\ wrote = {} /\ mixed = {} /\ left = {}

(* The node of a path. *)
NodeAt(p) ==
    LET at[i \in 0..Len(p)] ==
          IF i = 0 THEN Root
          ELSE LET d == at[i - 1] IN IF IsDir(d) THEN directories[<<d, p[i]>>] ELSE NoNode
    IN  at[Len(p)]

-----------------------------------------------------------------------------
(* Source::getsource finds the attribute "offlinefs.source". *)
Stored(n) == phid[n] # NoPath

(* FS::getsource: a node that has no storage yet gets the path for its phid. *)
GetSource_Bug(n, p) == p     \* the attributes are written at every open

GetSource(n, p) == IF Stored(n) THEN phid[n] ELSE p

SharedWith(n, q) == {m \in Ids \ {n} : phid[m] = q}

Assign(n, q) ==
    /\ phid' = [phid EXCEPT ![n] = q]
    /\ mixed' = IF SharedWith(n, q) = {} THEN mixed
                ELSE mixed \cup SharedWith(n, q) \cup {n}

(* Chunk_file opens the file, or makes it and the directories above it. *)
MakeFile(q) == files' = files \cup {q}

(* A handler whose medium fails has assigned the storage all the same, for   *)
(* its transactions commit.                                                  *)
Open(p) ==
    LET n == NodeAt(p) IN
    /\ n # NoNode /\ kind[n] = "reg" /\ object[n] = "none"
    /\ Assign(n, GetSource(n, p))
    /\ \/ MakeFile(phid'[n]) /\ object' = [object EXCEPT ![n] = "open"]
       \/ Refusing /\ UNCHANGED <<files, object>>
    /\ UNCHANGED <<vars, bytes, wrote, left>>

(* truncate to nothing, with an object of its own; that the file was not cut *)
(* is not passed on.                                                         *)
Truncate(p) ==
    LET n == NodeAt(p) IN
    /\ n # NoNode /\ kind[n] = "reg"
    /\ Assign(n, GetSource(n, p))
    /\ \/ /\ MakeFile(phid'[n])
          /\ bytes' = [bytes EXCEPT ![phid'[n]] = {}]
          /\ wrote' = wrote \ {n}
          /\ left' = left \ {phid'[n]}
       \/ /\ Refusing
          /\ MakeFile(phid'[n]) \/ UNCHANGED files
          /\ UNCHANGED <<bytes, wrote, left>>
    /\ UNCHANGED <<vars, object>>

(* offimport: a node for a file that a medium has, under its path there. *)
Import(p) ==
    LET d == NodeAt(SubSeq(p, 1, Len(p) - 1)) IN
    \E id \in Ids :
        /\ IsDir(d) /\ ~Taken(Db, d, p[Len(p)])       \* else EExists, and skipped
        /\ Mknod(d, p[Len(p)], id)
        /\ Assign(id, p)
        /\ MakeFile(p)
        /\ bytes' = IF p \in files THEN bytes ELSE [bytes EXCEPT ![p] = {id}]
        /\ wrote' = IF p \in files THEN wrote ELSE wrote \cup {id}
        /\ UNCHANGED <<object, left>>

Write(n) ==
    /\ object[n] # "none"
    /\ bytes' = IF object[n] = "open" THEN [bytes EXCEPT ![phid[n]] = @ \cup {n}] ELSE bytes
    /\ wrote' = wrote \cup {n}
    /\ UNCHANGED <<vars, phid, files, object, mixed, left>>

Release(n) ==
    /\ object[n] # "none"
    /\ object' = [object EXCEPT ![n] = "none"]
    /\ UNCHANGED <<vars, phid, files, bytes, wrote, mixed, left>>

-----------------------------------------------------------------------------
(* File::remove *)

Orphaned(p, n) == [bytes EXCEPT ![p] = IF n \in @ THEN (@ \ {n}) \cup {Old} ELSE @]

(* Medium_directory::delfile, after Medium_insert's insert(). *)
DelFile(p) ==
    /\ UnlinkFiles
    /\ files' = files \ {p}
    /\ bytes' = [bytes EXCEPT ![p] = {}]
    /\ object' = [m \in Ids |-> IF object[m] = "open" /\ phid[m] = p
                                THEN "unlinked" ELSE object[m]]
    /\ left' = left \ {p}

(* Nothing is done, or an exception is thrown, and swallowed by the caller. *)
KeepFile(p, n) ==
    /\ ~UnlinkFiles \/ Refusing
    /\ bytes' = Orphaned(p, n)
    /\ left' = left \cup ({p} \cap files)
    /\ Cardinality(left') <= MaxLeft
    /\ UNCHANGED <<files, object>>

SourceRemove_Bug(n) ==       \* the register goes, the file is not asked for
    /\ bytes' = Orphaned(phid[n], n)
    /\ UNCHANGED <<files, object, left>>

SourceRemove(n) == DelFile(phid[n]) \/ KeepFile(phid[n], n)

(* The storage of the files that a handler on names removes: of at most one. *)
Gone == {n \in Ids : kind[n] # "free" /\ kind'[n] = "free"}

RemoveFiles_Bug ==           \* the attributes wait for the next node of that id
    /\ UNCHANGED phid
    /\ wrote' = wrote \ Gone
    /\ mixed' = mixed \ Gone
    /\ LET stored == {n \in Gone : Stored(n)} IN
       IF stored = {} THEN UNCHANGED <<files, bytes, object, left>>
       ELSE \E n \in stored : SourceRemove(n)

RemoveFiles ==
    /\ phid' = [n \in Ids |-> IF n \in Gone THEN NoPath ELSE phid[n]]
    /\ wrote' = wrote \ Gone
    /\ mixed' = mixed \ Gone
    /\ LET stored == {n \in Gone : Stored(n)} IN
       IF stored = {} THEN UNCHANGED <<files, bytes, object, left>>
       ELSE \E n \in stored : SourceRemove(n)

-----------------------------------------------------------------------------

(* The handlers on names.  A symbolic link is a node that never has storage. *)
Naming ==
    \E d \in Ids, m \in Names :
        \/ \E id \in Ids : Mknod(d, m, id) \/ Mkdir(d, m, id)
        \/ Unlink(d, m)
        \/ Rmdir(d, m)
        \/ \E n \in Ids : VfsAllowsLink(n) /\ Link(n, d, m)
        \/ \E d2 \in Ids, m2 \in Names :
              VfsAllowsRename(directories[<<d, m>>], d2) /\ Rename(d, m, d2, m2)

BackingNext ==
    \/ /\ Naming
       /\ \A n \in Gone : object[n] = "none"          \* EXTERNAL: libfuse
       /\ RemoveFiles
    \/ \E p \in Paths : Open(p) \/ Truncate(p) \/ Import(p)
    \/ \E n \in Ids : Write(n) \/ Release(n)

BackingSpec == BackingInit /\ [][BackingNext]_backingVars

-----------------------------------------------------------------------------
(* Properties. *)

(* Only a node of a file has storage, only a node with storage is open, and  *)
(* a removed register leaves none of its attributes to the next of its id.   *)
StorageTypeOK ==
    /\ phid \in [Ids -> Paths \cup {NoPath}]
    /\ files \in SUBSET Paths
    /\ bytes \in [Paths -> SUBSET (Ids \cup {Old})]
    /\ object \in [Ids -> Objects]
    /\ \A n \in Ids : phid[n] # NoPath => kind[n] = "reg"
    /\ \A n \in Ids : object[n] # "none" => phid[n] # NoPath

(* What was written to a node is in the file that the node will be read from *)
(* wherever the node, or a directory above it, is moved, linked or reopened, *)
(* and whatever else is removed: unless it had its phid in common with       *)
(* another node, which is how getsource() can lose it.                       *)
WrittenStays ==
    \A n \in wrote : n \in mixed \/ (phid[n] \in files /\ n \in bytes[phid[n]])

(* And it is read with nobody else's bytes, nor with those of a file that    *)
(* had the path before: but for a common phid, or a file that delfile() was  *)
(* told or forced to leave.                                                  *)
NoForeignBytes ==
    \A n \in Ids :
        phid[n] # NoPath =>
            n \in mixed \/ phid[n] \in left \/ bytes[phid[n]] \subseteq {n}

(* Removing the last name of a node frees its storage: a file that nothing   *)
(* refers to is one that delfile() was told or forced to leave.              *)
NoFileForgotten ==
    \A p \in files : p \in left \/ \E n \in Ids : phid[n] = p

=============================================================================
