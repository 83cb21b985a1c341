-------------------------------- MODULE Media --------------------------------
(***************************************************************************)
(* The media and the volumes behind them: what the handlers that open a    *)
(* file, and those that delete one, do with the media database while the   *)
(* user changes volumes and offmedia and offimport change the database.    *)
(*                                                                         *)
(* A file has the id of its medium.  The first handler that needs its      *)
(* bytes gives it the first medium with the default label.  getmedium()    *)
(* locks what it reads (DB_RMW): the page of one register, or all of them, *)
(* one after the other, to find a label.  The locks are kept until the     *)
(* handler ends, also while the user is asked for a volume.                *)
(*                                                                         *)
(* offmedia is one step for each of its runs: it locks what it reads as    *)
(* the handlers do, and writes only that.  Selecting a medium by its label *)
(* finds an id first, and is a case of selecting it by id.  A medium is    *)
(* born with all its attributes; those of its directory and its commands   *)
(* fit its type and its volume, also when the type is changed.             *)
(*                                                                         *)
(* offimport --medium finds its medium by the label, in a transaction that *)
(* it keeps until its input ends: all pages of the media stay locked while *)
(* it takes locks of nodes, in another transaction for each line.          *)
(*                                                                         *)
(* EXTERNAL.  The volume in the drive changes only by an insertcmd, which  *)
(* shows a dialog that the user answers.  checkcmd tells volumes apart.    *)
(* libfuse runs unlink and rename alone.                                   *)
(***************************************************************************)
EXTENDS Integers, FiniteSets, FiniteSetsExt

CONSTANTS
    Threads,    \* the threads of libfuse
    NoThread,   \* no thread
    Importer,   \* an offimport that was given a medium
    Nodes,      \* files, each with its register on a page of its own
    NoNode,     \* no file
    Around,     \* the files with pages that offimport needs to make a file
    Labels,     \* labels of media
    NoLabel,    \* the attribute "label" is not there
    Default,    \* the label that is given at mount time
    MaxId,      \* BOUND: ids of media are 0..MaxId
    PageOf,     \* the page that has the register of a medium
    MaxAge,     \* BOUND: media that are ever made
    NoMedium    \* a file without storage

Ids     == 0..MaxId
Pages   == {PageOf[i] : i \in Ids}
Ages    == 1..MaxAge          \* also the volumes: each medium has its own
Empty   == 0                  \* no volume
Types   == {"directory", "insert", "unknown"}

ASSUME NullAssumption == NoThread \notin Threads /\ NoNode \notin Nodes
                         /\ Importer \notin Threads \cup {NoThread}
                         /\ NoLabel \notin Labels
                         /\ NoMedium \notin Ids
ASSUME DefaultAssumption == Default \in Labels
ASSUME BoundsAssumption == MaxId \in Nat /\ MaxAge \in Nat \ {0}
ASSUME PagesAssumption ==
    PageOf \in [Ids -> Nat] /\ \A i, j \in Ids : i <= j => PageOf[i] <= PageOf[j]
ASSUME AroundAssumption == Around \in [Nodes -> SUBSET Nodes] /\ \A n \in Nodes : n \in Around[n]

VARIABLES
    media,      \* the media database: id -> label, type and age of a medium
    born,       \* auxiliary: how many media there have been
    mediumid,   \* nodes: "offlinefs.mediumid"
    stored,     \* auxiliary: the volume that has the bytes of a file
    drive,      \* the volume that is inserted
    held,       \* who has the lock of a page of the media database
    at,         \* where the handler of a thread is
    op,         \* "open" (also for truncate) or "unlink" (also for rename)
    node,       \* the file it is about
    medium,     \* the medium it has found, and whether by the default label
    between,    \* auxiliary: pages of the media whose insertcmd others have run
                \* since its own volume was checked
    import      \* where offimport is, its label and medium, the file of its line

db    == <<media, born, mediumid, stored>>
local == <<at, op, node, medium, between, import>>
vars  == <<db, drive, held, local>>

Nothing == [id |-> NoMedium, age |-> Empty, byLabel |-> FALSE]
NoImport == [at |-> "none", label |-> NoLabel, id |-> NoMedium, file |-> NoNode]

Init ==
    /\ media = [i \in {0} |-> [label |-> Default, type |-> "insert", age |-> 1]]
    /\ born = 1
    /\ mediumid = [n \in Nodes |-> NoMedium]
    /\ stored = [n \in Nodes |-> Empty]
    /\ drive = Empty
    /\ held = [p \in Pages |-> NoThread]
    /\ at = [t \in Threads |-> "idle"]
    /\ op = [t \in Threads |-> "open"]
    /\ node = [t \in Threads |-> NoNode]
    /\ medium = [t \in Threads |-> Nothing]
    /\ between = [t \in Threads |-> {}]
    /\ import = NoImport

-----------------------------------------------------------------------------
(* getmedium *)

Known(i) == i \in DOMAIN media /\ media[i].type # "unknown"
Labelled(l) == {i \in DOMAIN media : media[i].label = l}
FreeFor(t, p) == held[p] \in {t, NoThread}

(* The handler ends, and its transactions with it.  A file that it was to    *)
(* unlink is gone, whatever became of its bytes: File::remove.               *)
End(t) ==
    /\ held' = [p \in Pages |-> IF held[p] = t THEN NoThread ELSE held[p]]
    /\ at' = [at EXCEPT ![t] = "idle"]
    /\ op' = [op EXCEPT ![t] = "open"]
    /\ node' = [node EXCEPT ![t] = NoNode]
    /\ medium' = [medium EXCEPT ![t] = Nothing]
    /\ between' = [between EXCEPT ![t] = {}]
    /\ IF op[t] = "unlink"
       THEN /\ mediumid' = [mediumid EXCEPT ![node[t]] = NoMedium]
            /\ stored' = [stored EXCEPT ![node[t]] = Empty]
       ELSE UNCHANGED <<mediumid, stored>>
    /\ UNCHANGED <<media, born, drive, import>>

Found(t, i, l) ==
    /\ medium' = [medium EXCEPT ![t] = [id |-> i, age |-> media[i].age, byLabel |-> l]]
    /\ at' = [at EXCEPT ![t] = IF media[i].type = "insert" THEN "checking" ELSE "opening"]
    /\ UNCHANGED <<op, node, between, import>>

(* By the id that the file has. *)
GetMedium_Bug(t) ==          \* read without DB_RMW
    LET i == mediumid[node[t]] IN
    /\ at[t] = "finding" /\ i # NoMedium
    /\ IF Known(i)
       THEN Found(t, i, FALSE) /\ UNCHANGED <<db, drive, held>>
       ELSE End(t)

GetMedium(t) ==
    LET i == mediumid[node[t]] IN
    /\ at[t] = "finding" /\ i # NoMedium
    /\ FreeFor(t, PageOf[i])
    /\ IF Known(i)
       THEN /\ Found(t, i, FALSE)
            /\ held' = [held EXCEPT ![PageOf[i]] = t]
            /\ UNCHANGED <<db, drive>>
       ELSE End(t)

(* By the label: getregisters, ... *)
Unread(t) == {p \in Pages : held[p] # t}

LockNext(t) ==
    /\ Unread(t) # {}
    /\ LET p == Min(Unread(t)) IN FreeFor(t, p) /\ held' = [held EXCEPT ![p] = t]
    /\ UNCHANGED <<db, drive>>

List(t) ==
    /\ at[t] = "finding" /\ mediumid[node[t]] = NoMedium
    /\ LockNext(t)
    /\ UNCHANGED local

(* ... and the first medium that has it, if that can be used; the file keeps *)
(* the medium also if it cannot be opened then.                              *)
First(l) == Min(Labelled(l))

Choose_Bug(t) ==             \* the locks of the list are given back
    LET i == First(Default) IN
    /\ at[t] = "finding" /\ mediumid[node[t]] = NoMedium
    /\ Unread(t) = {}
    /\ IF Labelled(Default) # {} /\ Known(i)
       THEN /\ Found(t, i, TRUE)
            /\ mediumid' = [mediumid EXCEPT ![node[t]] = i]
            /\ stored' = [stored EXCEPT ![node[t]] = media[i].age]
            /\ held' = [p \in Pages |-> IF p = PageOf[i] THEN t ELSE NoThread]
            /\ UNCHANGED <<media, born, drive>>
       ELSE End(t)

Choose(t) ==
    LET i == First(Default) IN
    /\ at[t] = "finding" /\ mediumid[node[t]] = NoMedium
    /\ Unread(t) = {}
    /\ IF Labelled(Default) # {} /\ Known(i)
       THEN /\ Found(t, i, TRUE)
            /\ mediumid' = [mediumid EXCEPT ![node[t]] = i]
            /\ stored' = [stored EXCEPT ![node[t]] = media[i].age]
            /\ UNCHANGED <<media, born, drive, held>>
       ELSE End(t)

-----------------------------------------------------------------------------
(* The handlers. *)

Busy(n) == \E t \in Threads : node[t] = n

Begin(t, n, o) ==
    /\ at[t] = "idle" /\ ~Busy(n)
    /\ at' = [at EXCEPT ![t] = "finding"]
    /\ op' = [op EXCEPT ![t] = o]
    /\ node' = [node EXCEPT ![t] = n]
    /\ UNCHANGED <<db, drive, held, medium, between, import>>

Open(t, n) == Begin(t, n, "open") /\ \A u \in Threads : op[u] # "unlink"

(* A file without storage has nothing to delete. *)
Unlink(t, n) ==
    /\ mediumid[n] # NoMedium
    /\ \A u \in Threads : at[u] = "idle"
    /\ Begin(t, n, "unlink")

(* Medium_insert::insert: check, insertcmd, check. *)
Right(t) == drive = medium[t].age

To(t, s) == at' = [at EXCEPT ![t] = s] /\ UNCHANGED <<op, node, medium, between, import>>

Check(t) ==
    /\ at[t] = "checking"
    /\ To(t, IF Right(t) THEN "opening" ELSE "asking")
    /\ UNCHANGED <<db, drive, held>>

(* The user puts in some volume, or refuses.  One of a medium that is not    *)
(* registered any more is as wrong as none.                                  *)
Insert(t) ==
    /\ at[t] = "asking"
    /\ \/ /\ \E v \in {media[i].age : i \in DOMAIN media} \cup {Empty} : drive' = v
          /\ at' = [at EXCEPT ![t] = "rechecking"]
          /\ between' = [u \in Threads |->
                IF u # t /\ at[u] = "opening"
                THEN between[u] \cup {PageOf[medium[t].id]}
                ELSE between[u]]
          /\ UNCHANGED <<db, held, op, node, medium, import>>
       \/ End(t)

Recheck_Bug(t) ==            \* as often as it takes
    /\ at[t] = "rechecking"
    /\ To(t, IF Right(t) THEN "opening" ELSE "asking")
    /\ UNCHANGED <<db, drive, held>>

Recheck_None(t) ==           \* the script says that it has been inserted
    /\ at[t] = "rechecking"
    /\ To(t, "opening")
    /\ UNCHANGED <<db, drive, held>>

Recheck(t) ==
    /\ at[t] = "rechecking"
    /\ IF Right(t)
       THEN To(t, "opening") /\ UNCHANGED <<db, drive, held>>
       ELSE End(t)

(* The file is opened, or deleted, where the medium's directory is: that of  *)
(* an "insert" medium is on the volume in the drive.                         *)
Volume(t) == IF media[medium[t].id].type = "insert" THEN drive ELSE medium[t].age

OpenFile(t) == at[t] = "opening" /\ End(t)

(* An attribute that is not there; of a medium whose "unlink_files" does not *)
(* say so nothing is deleted.                                                *)
Fail(t) == at[t] = "checking" /\ End(t)

-----------------------------------------------------------------------------
(* The tools. *)

Free(S) == \A p \in S : held[p] = NoThread

(* createregister *)
NewId_Bug == Min((0..MaxId + 1) \ DOMAIN media)        \* the first that is free

NewId == IF DOMAIN media = {} THEN 0 ELSE Max(DOMAIN media) + 1

(* offmedia --add *)
Add(l, ty) ==
    LET i == NewId IN
    /\ i \in Ids /\ born < MaxAge
    /\ Free({PageOf[i], PageOf[Max({0, i - 1})]})
    /\ born' = born + 1
    /\ media' = [j \in DOMAIN media \cup {i} |->
                    IF j = i THEN [label |-> l, type |-> ty, age |-> born'] ELSE media[j]]
    /\ UNCHANGED <<mediumid, stored, drive, held, local>>

(* offmedia --set and --unset, for what getmedium reads.  Unset, or set to   *)
(* a word that getmedium does not know, a type is unknown.                   *)
Set(i, m) ==
    /\ Known(i) /\ Free({PageOf[i]})
    /\ m # media[i]
    /\ media' = [media EXCEPT ![i] = m]
    /\ UNCHANGED <<born, mediumid, stored, drive, held, local>>

Relabel(i) == \E l \in Labels \cup {NoLabel} : Set(i, [media[i] EXCEPT !.label = l])
Retype(i)  == \E ty \in Types : Set(i, [media[i] EXCEPT !.type = ty])

(* offmedia --remove *)
Remove(i) ==
    /\ Known(i) /\ Free({PageOf[i]})
    /\ media' = [j \in DOMAIN media \ {i} |-> media[j]]
    /\ UNCHANGED <<born, mediumid, stored, drive, held, local>>

Offmedia ==
    \/ \E l \in Labels, ty \in {"directory", "insert"} : Add(l, ty)
    \/ \E i \in DOMAIN media : Relabel(i) \/ Retype(i) \/ Remove(i)

(* offimport --medium: main gets the medium, ... *)
ImportStart(l) ==
    /\ import.at = "none"
    /\ import' = [import EXCEPT !.at = "listing", !.label = l]
    /\ UNCHANGED <<db, drive, held, at, op, node, medium, between>>

ImportList ==
    /\ import.at = "listing" /\ LockNext(Importer)
    /\ UNCHANGED local

(* ... but for an exception, which nobody catches: then the process is gone, *)
(* and its locks stay.                                                       *)
ImportMedium ==
    LET i == First(import.label) IN
    /\ import.at = "listing" /\ Unread(Importer) = {}
    /\ import' = IF Labelled(import.label) # {} /\ Known(i)
                 THEN [import EXCEPT !.at = "reading", !.id = i]
                 ELSE [import EXCEPT !.at = "dead"]
    /\ UNCHANGED <<db, drive, held, at, op, node, medium, between>>

(* The main loop: a line, ... *)
ImportLine(n) ==
    /\ import.at = "reading"
    /\ import' = [import EXCEPT !.at = "making", !.file = n]
    /\ UNCHANGED <<db, drive, held, at, op, node, medium, between>>

(* ... and a new file, with its bytes on the medium, or one that is skipped  *)
(* because it is there.                                                      *)
ImportFile ==
    LET n == import.file
        new == mediumid[n] = NoMedium
    IN
    /\ import.at = "making" /\ \A m \in Around[n] : ~Busy(m)
    /\ mediumid' = IF new THEN [mediumid EXCEPT ![n] = import.id] ELSE mediumid
    /\ stored' = IF new THEN [stored EXCEPT ![n] = media[import.id].age] ELSE stored
    /\ import' = [import EXCEPT !.at = "reading", !.file = NoNode]
    /\ UNCHANGED <<media, born, drive, held, at, op, node, medium, between>>

(* The input has ended, or a line was wrong: mtxns goes with main. *)
ImportEnd ==
    /\ import.at = "reading"
    /\ held' = [p \in Pages |-> IF held[p] = Importer THEN NoThread ELSE held[p]]
    /\ import' = NoImport
    /\ UNCHANGED <<db, drive, at, op, node, medium, between>>

Offimport ==
    \/ \E l \in Labels : ImportStart(l)
    \/ ImportList \/ ImportMedium
    \/ \E n \in Nodes : ImportLine(n)
    \/ ImportFile \/ ImportEnd

Step(t) ==
    \/ GetMedium(t) \/ List(t) \/ Choose(t)
    \/ Check(t) \/ Insert(t) \/ Recheck(t) \/ OpenFile(t) \/ Fail(t)

Next ==
    \/ \E t \in Threads : Step(t) \/ \E n \in Nodes : Open(t, n) \/ Unlink(t, n)
    \/ Offmedia \/ Offimport

(* Berkeley DB grants a lock in the order of the requests, the user answers, *)
(* and a thread that waits for nothing goes on.  Nothing is said of when     *)
(* offimport goes on: its input may be a terminal.                           *)
Fairness == \A t \in Threads : SF_vars(Step(t))

Spec == Init /\ [][Next]_vars /\ Fairness

-----------------------------------------------------------------------------
(* Properties. *)

Working == {"checking", "asking", "rechecking", "opening"}

(* Each variable has its type; a handler has the register of its medium      *)
(* locked, which is there, and of a known type, until it ends, and so has    *)
(* offimport, with all others.                                               *)
TypeOK ==
    /\ media \in [DOMAIN media -> [label : Labels \cup {NoLabel}, type : Types, age : 1..born]]
    /\ DOMAIN media \subseteq Ids /\ born \in Ages
    /\ mediumid \in [Nodes -> Ids \cup {NoMedium}]
    /\ stored \in [Nodes -> Ages \cup {Empty}] /\ drive \in Ages \cup {Empty}
    /\ held \in [Pages -> Threads \cup {NoThread, Importer}]
    /\ import \in [at : {"none", "listing", "dead", "reading", "making"},
                   label : Labels \cup {NoLabel}, id : Ids \cup {NoMedium},
                   file : Nodes \cup {NoNode}]
    /\ import.at \in {"reading", "making"} =>
          Known(import.id) /\ \A p \in Pages : held[p] = Importer
    /\ \A t \in Threads :
          IF at[t] \in Working
          THEN /\ held[PageOf[medium[t].id]] = t
               /\ Known(medium[t].id) /\ media[medium[t].id].age = medium[t].age
               /\ mediumid[node[t]] = medium[t].id
          ELSE medium[t] = Nothing

(* The id of a file leads to its own medium, to none, or to one that was     *)
(* made later, and only when everything that was registered after its own    *)
(* has been removed: ids are in the order of the ages.                       *)
OldIdsLeadOnlyToNewer ==
    \A n \in Nodes :
        mediumid[n] \in DOMAIN media /\ media[mediumid[n]].age # stored[n] =>
            /\ media[mediumid[n]].age > stored[n]
            /\ \A i \in DOMAIN media :
                  i > mediumid[n] => media[i].age > media[mediumid[n]].age

(* A file gets the first medium of the default label, and until its handler  *)
(* ends that stays the first, for all of the database is locked meanwhile:   *)
(* nobody can give the label to an earlier one or take it from this.         *)
StaysFirst ==
    \A t \in Threads :
        at[t] \in Working /\ medium[t].byLabel =>
            Labelled(Default) # {} /\ medium[t].id = First(Default)

(* A file is opened, or deleted, on the volume of its medium, though the     *)
(* drive is not locked between check() and the opening: unless another       *)
(* thread inserted a volume in between for a medium on another page.  And a  *)
(* file is deleted on no other volume at all.                                *)
OnOwnVolume ==
    \A t \in Threads :
        at[t] = "opening" /\ Volume(t) # medium[t].age =>
            /\ op[t] = "open"
            /\ between[t] \ {PageOf[medium[t].id]} # {}

(* offmedia cannot mend a medium whose type is unknown, nor remove it: it    *)
(* has to get the medium first.                                              *)
BrokenStays ==
    [][\A i \in DOMAIN media :
          media[i].type = "unknown" => i \in DOMAIN media' /\ media'[i] = media[i]]_vars

(* Every handler ends, if offimport ends whenever it runs: those that wait   *)
(* for pages of the media database wait in the order of the pages, and a     *)
(* wrong volume is not asked for again.  An offimport that does not end, for *)
(* its input stays open, its medium was not found, or its next line is about *)
(* a page of a handler that waits for its medium, keeps that handler waiting.*)
HandlersEnd ==
    []<>(import.at = "none") => \A t \in Threads : at[t] # "idle" ~> at[t] = "idle"
=============================================================================
