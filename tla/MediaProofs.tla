------------------------------ MODULE MediaProofs ------------------------------
(***************************************************************************)
(* Media: for any number of threads, files, media and pages, the register  *)
(* of a handler's medium stays as the handler has read it, a file is not   *)
(* opened on another volume than its medium's but for a drive that another *)
(* page's lock does not guard, and a medium of unknown type stays.         *)
(*                                                                         *)
(* The invariant adds to TypeOK who can be where: no two handlers are      *)
(* about one file, nobody is beside unlink, and a handler that has found   *)
(* its medium by the label has every page locked.                          *)
(***************************************************************************)
EXTENDS Media, WellFoundedInduction, TLAPS

States == Working \cup {"idle", "finding"}

LocalOK ==
    /\ at \in [Threads -> States] /\ op \in [Threads -> {"open", "unlink"}]
    /\ node \in [Threads -> Nodes \cup {NoNode}]
    /\ medium \in [Threads -> [id : Ids \cup {NoMedium}, age : Ages \cup {Empty},
                               byLabel : BOOLEAN]]
    /\ between \in [Threads -> SUBSET Pages]

OneEach ==
    /\ \A t \in Threads : at[t] = "idle" <=> node[t] = NoNode
    /\ \A t, u \in Threads : t # u /\ node[t] # NoNode => node[t] # node[u]

UnlinkAlone ==
    \A t \in Threads :
        op[t] = "unlink" =>
            at[t] # "idle" /\ \A u \in Threads : u # t => at[u] = "idle"

AllLocked ==
    \A t \in Threads :
        at[t] \in Working /\ medium[t].byLabel => \A p \in Pages : held[p] = t

MediaOK ==
    /\ media \in [DOMAIN media -> [label : Labels \cup {NoLabel}, type : Types, age : 1..born]]
    /\ born \in Ages

NodesOK ==
    /\ mediumid \in [Nodes -> Ids \cup {NoMedium}]
    /\ stored \in [Nodes -> Ages \cup {Empty}] /\ drive \in Ages \cup {Empty}

HeldOK == held \in [Pages -> Threads \cup {NoThread, Importer}] /\ DOMAIN media \subseteq Ids

LockedOK ==
    \A t \in Threads :
        IF at[t] \in Working
        THEN /\ held[PageOf[medium[t].id]] = t
             /\ Known(medium[t].id) /\ media[medium[t].id].age = medium[t].age
             /\ mediumid[node[t]] = medium[t].id
        ELSE medium[t] = Nothing

(* The ids are in the order of the ages; no file is from later than the    *)
(* medium that its id leads to.                                            *)
AgesOK ==
    /\ \A i, j \in DOMAIN media : i < j => media[i].age < media[j].age
    /\ \A n \in Nodes : stored[n] <= born
    /\ \A n \in Nodes : mediumid[n] \in DOMAIN media => stored[n] <= media[mediumid[n]].age

ImportOK ==
    /\ import \in [at : {"none", "listing", "dead", "reading", "making"},
                   label : Labels \cup {NoLabel}, id : Ids \cup {NoMedium},
                   file : Nodes \cup {NoNode}]
    /\ import.at = "making" => import.file \in Nodes
    /\ import.at \in {"reading", "making"} =>
          Known(import.id) /\ \A p \in Pages : held[p] = Importer

IInv ==
    /\ MediaOK /\ NodesOK /\ HeldOK /\ LockedOK /\ LocalOK /\ OneEach
    /\ UnlinkAlone /\ AllLocked /\ StaysFirst /\ OnOwnVolume /\ AgesOK /\ ImportOK

(* Whose medium it is has its page locked. *)
LEMMA NotThisPage ==
    ASSUME IInv, NEW t \in Threads, at[t] \in Working
    PROVE  /\ medium[t].id \in DOMAIN media /\ medium[t].id \in Ids
           /\ PageOf[medium[t].id] \in Pages
           /\ held[PageOf[medium[t].id]] # NoThread
  BY NullAssumption DEF IInv, LockedOK, HeldOK, Known, Pages

(* What is registered is of its type. *)
LEMMA Registered ==
    ASSUME IInv, NEW i \in DOMAIN media
    PROVE  /\ i \in Ids /\ PageOf[i] \in Pages
           /\ media[i].age \in Ages /\ media[i].age \in 1..born
           /\ media[i].type \in Types /\ media[i].label \in Labels \cup {NoLabel}
<1>1. born \in Ages /\ media[i] \in [label : Labels \cup {NoLabel}, type : Types, age : 1..born]
  BY DEF IInv, MediaOK
<1>2. 1..born \subseteq Ages
  BY <1>1, BoundsAssumption DEF Ages
<1> QED
  BY <1>1, <1>2 DEF IInv, HeldOK, Pages

(* The first medium is the same as long as the database is. *)
LEMMA SameFirst ==
    ASSUME media' = media
    PROVE  Labelled(Default)' = Labelled(Default) /\ First(Default)' = First(Default)
<1>1. Labelled(Default)' = Labelled(Default)
  BY DEF Labelled
<1> QED
  BY <1>1 DEF First

(* A handler that goes on to its next place keeps what it has locked. *)
LEMMA LockedStays ==
    ASSUME IInv, NEW t \in Threads, NEW s,
           at' = [at EXCEPT ![t] = s], at[t] \in Working <=> s \in Working,
           media' = media, mediumid' = mediumid, held' = held, medium' = medium,
           \A u \in Threads : at[u] \in Working => node'[u] = node[u]
    PROVE  LockedOK'
<1>1. \A u \in Threads : at'[u] \in Working <=> at[u] \in Working
  BY DEF IInv, LocalOK
<1> QED
  BY <1>1 DEF IInv, LockedOK, Known

(* createregister: the new id is after all that are registered. *)
LEMMA NewIdIsLast ==
    ASSUME IInv
    PROVE  \A j \in DOMAIN media : j < NewId
<1> SUFFICES ASSUME DOMAIN media # {}
             PROVE  \A j \in DOMAIN media : j < Max(DOMAIN media) + 1
  BY DEF NewId
<1> DEFINE Rest == {MaxId - j : j \in DOMAIN media}
<1>1. DOMAIN media \subseteq 0..MaxId /\ MaxId \in Nat
  BY BoundsAssumption DEF IInv, HeldOK, Ids
<1>2. Rest \subseteq Nat /\ Rest # {}
  BY <1>1
<1>3. PICK r \in Rest : \A q \in Rest : r <= q
  <2> DEFINE Less == OpToRel(<, Nat)
  <2>1. IsWellFoundedOn(Less, Nat)
    BY NatLessThanWellFounded
  <2> HIDE DEF Less
  <2>2. PICK r \in Rest : \A q \in Rest : <<q, r>> \notin Less
    BY <1>2, <2>1, WFMin
  <2>3. ASSUME NEW q \in Rest PROVE r <= q
    <3>1. q \in Nat /\ r \in Nat
      BY <1>2
    <3>2. <<q, r>> \in Less <=> q < r
      BY <3>1 DEF Less, OpToRel
    <3> QED
      BY <2>2, <3>1, <3>2
  <2> QED
    BY <2>3
<1>4. PICK m \in DOMAIN media : r = MaxId - m
  BY <1>3
<1>5. ASSUME NEW j \in DOMAIN media PROVE m >= j
  <2>1. MaxId - j \in Rest
    BY <1>5
  <2> QED
    BY <1>1, <1>3, <1>4, <1>5, <2>1
<1>6. Max(DOMAIN media) \in DOMAIN media /\ \A j \in DOMAIN media : Max(DOMAIN media) >= j
  BY <1>4, <1>5 DEF Max
<1> QED
  BY <1>1, <1>6

(* Each action keeps the invariant: one step for each of its conjuncts. *)

LEMMA EndIInv ==
    ASSUME IInv, NEW t \in Threads, at[t] # "idle", End(t)
    PROVE  IInv'
<1> USE NullAssumption DEF IInv
<1>1. MediaOK'
  BY DEF MediaOK, End, Types, db
<1>2. NodesOK'
  BY DEF NodesOK, MediaOK, HeldOK, LocalOK, End, db
<1>3. HeldOK'
  BY DEF HeldOK, LocalOK, End, db
<1>4. LockedOK'
  <2>1. LockedOK!(t)'
    BY DEF LockedOK, LocalOK, End, Working
  <2>2. ASSUME NEW u \in Threads, u # t
        PROVE  LockedOK!(u)'
    <3>1. at'[u] = at[u] /\ medium'[u] = medium[u] /\ node'[u] = node[u]
      BY <2>2 DEF End, LocalOK
    <3>2. CASE at[u] \in Working
      <4>1. held'[PageOf[medium[u].id]] = u
        BY <2>2, <3>2, NotThisPage DEF End, LockedOK
      <4>2. node[u] # node[t] /\ node[u] \in Nodes
        BY <2>2, <3>2 DEF OneEach, Working, LocalOK
      <4>3. mediumid'[node[u]] = mediumid[node[u]]
        BY <4>2 DEF End, NodesOK
      <4> QED
        BY <3>1, <3>2, <4>1, <4>3 DEF LockedOK, End, Known
    <3> QED
      BY <3>1, <3>2 DEF LockedOK
  <2> QED
    BY <2>1, <2>2 DEF LockedOK
<1>5. LocalOK'
  BY DEF LocalOK, HeldOK, MediaOK, End, Working, States, Nothing, db, local, To
<1>6. OneEach'
  BY DEF OneEach, LocalOK, End, db, local, To
<1>7. UnlinkAlone'
  BY DEF UnlinkAlone, LocalOK, OneEach, End, db, local, To
<1>8. AllLocked'
  BY DEF AllLocked, LockedOK, LocalOK, HeldOK, End, Working, db, local, To, FreeFor,
         Nothing
<1>9. StaysFirst'
  BY SameFirst DEF StaysFirst, AllLocked, LocalOK, Working, Nothing, End, db
<1>10. OnOwnVolume'
  BY DEF OnOwnVolume, LockedOK, LocalOK, HeldOK, UnlinkAlone, End, Working, Volume,
         Known, db, local, Right, To, Nothing, FreeFor
<1>11. AgesOK'
  <2>1. ASSUME NEW n \in Nodes
        PROVE  /\ stored'[n] <= born
               /\ mediumid'[n] \in DOMAIN media => stored'[n] <= media[mediumid'[n]].age
    <3>1. \/ mediumid'[n] = mediumid[n] /\ stored'[n] = stored[n]
          \/ mediumid'[n] = NoMedium /\ stored'[n] = Empty
      BY DEF End, NodesOK
    <3>2. NoMedium \notin DOMAIN media /\ Empty <= born
      BY DEF HeldOK, MediaOK, Ages, Empty
    <3> QED
      BY <3>1, <3>2 DEF AgesOK
  <2> QED
    BY <2>1 DEF AgesOK, End
<1>12. ImportOK'
  BY DEF ImportOK, End, Known, db, local
<1> QED
  BY <1>1, <1>2, <1>3, <1>4, <1>5, <1>6, <1>7, <1>8, <1>9, <1>10, <1>11, <1>12

LEMMA GetMediumIInv ==
    ASSUME IInv, NEW t \in Threads, GetMedium(t), ~End(t)
    PROVE  IInv'
<1> USE NullAssumption DEF IInv
<1>1. MediaOK'
  BY DEF MediaOK, GetMedium, Found, Types, db
<1>2. NodesOK'
  BY DEF NodesOK, MediaOK, HeldOK, LocalOK, GetMedium, Found, db
<1>3. HeldOK'
  BY DEF HeldOK, LocalOK, GetMedium, Found, db
<1>4. LockedOK'
  <2> DEFINE i == mediumid[node[t]]
  <2>1. /\ i \in DOMAIN media /\ Known(i) /\ Found(t, i, FALSE)
        /\ FreeFor(t, PageOf[i])
        /\ held' = [held EXCEPT ![PageOf[i]] = t]
        /\ UNCHANGED <<media, mediumid, node>>
    BY DEF GetMedium, Known, Found, db
  <2> HIDE DEF i
  <2>2. PageOf[i] \in Pages
    BY <2>1, Registered
  <2>3. LockedOK!(t)'
    BY <2>1, <2>2 DEF i, LockedOK, LocalOK, HeldOK, Found, Known, Working
  <2>4. ASSUME NEW u \in Threads, u # t
        PROVE  LockedOK!(u)'
    <3>1. at'[u] = at[u] /\ medium'[u] = medium[u]
      BY <2>1, <2>4 DEF Found, LocalOK
    <3>2. at[u] \in Working => PageOf[medium[u].id] # PageOf[i] /\ PageOf[medium[u].id] \in Pages
      BY <2>1, <2>4, NotThisPage DEF FreeFor, LockedOK
    <3> QED
      BY <2>1, <2>4, <3>1, <3>2 DEF LockedOK, HeldOK, Known
  <2> QED
    BY <2>3, <2>4 DEF LockedOK
<1>5. LocalOK'
  <2> DEFINE i == mediumid[node[t]]
  <2>1. i \in DOMAIN media /\ \E l \in BOOLEAN : Found(t, i, l)
    BY DEF GetMedium, Known
  <2> HIDE DEF i
  <2>2. i \in Ids /\ media[i].age \in Ages
    BY <2>1, Registered
  <2> QED
    BY <2>1, <2>2 DEF LocalOK, Found, Working, States
<1>6. OneEach'
  BY DEF OneEach, LocalOK, GetMedium, Found, db, local, To
<1>7. UnlinkAlone'
  BY DEF UnlinkAlone, LocalOK, OneEach, GetMedium, Found, db, local, To
<1>8. AllLocked'
  BY DEF AllLocked, LockedOK, LocalOK, HeldOK, GetMedium, Found, Working, db, local, To,
         FreeFor, Nothing
<1>9. StaysFirst'
  BY SameFirst DEF StaysFirst, AllLocked, LocalOK, Working, Nothing, GetMedium, Found, db
<1>10. OnOwnVolume'
  BY DEF OnOwnVolume, LockedOK, LocalOK, HeldOK, UnlinkAlone, GetMedium, Found, Working,
         Volume, Known, db, local, Right, To, Nothing, FreeFor
<1>11. AgesOK'
  BY DEF AgesOK, GetMedium, db
<1>12. ImportOK'
  <2>1. mediumid[node[t]] \in DOMAIN media /\ FreeFor(t, PageOf[mediumid[node[t]]])
    BY DEF GetMedium, Known
  <2>2. import' = import /\ media' = media
    BY DEF GetMedium, Found, db
  <2>3. import.at \notin {"reading", "making"}
    BY <2>1, Registered DEF ImportOK, FreeFor
  <2> QED
    BY <2>2, <2>3 DEF ImportOK
<1> QED
  BY <1>1, <1>2, <1>3, <1>4, <1>5, <1>6, <1>7, <1>8, <1>9, <1>10, <1>11, <1>12

LEMMA ListIInv ==
    ASSUME IInv, NEW t \in Threads, List(t)
    PROVE  IInv'
<1> USE NullAssumption DEF IInv
<1>1. MediaOK'
  BY DEF MediaOK, List, LockNext, Unread, Types, db
<1>2. NodesOK'
  BY DEF NodesOK, MediaOK, HeldOK, LocalOK, List, LockNext, Unread, db
<1>3. HeldOK'
  BY DEF HeldOK, LocalOK, List, LockNext, Unread, db
<1>4. LockedOK'
  BY DEF LockedOK, HeldOK, NodesOK, LocalOK, OneEach, List, LockNext, Unread, Known, Working,
         Nothing, db, local, To, FreeFor
<1>5. LocalOK'
  BY DEF LocalOK, HeldOK, MediaOK, List, LockNext, Unread, Working, States, Nothing, db, local, To
<1>6. OneEach'
  BY DEF OneEach, LocalOK, List, LockNext, Unread, db, local, To
<1>7. UnlinkAlone'
  BY DEF UnlinkAlone, LocalOK, OneEach, List, LockNext, Unread, db, local, To
<1>8. AllLocked'
  BY DEF AllLocked, LockedOK, LocalOK, HeldOK, List, LockNext, Unread, Working, db, local, To,
         FreeFor, Nothing
<1>9. StaysFirst'
  BY SameFirst DEF StaysFirst, AllLocked, LocalOK, Working, Nothing, List, LockNext, local, db
<1>10. OnOwnVolume'
  BY DEF OnOwnVolume, LockedOK, LocalOK, HeldOK, UnlinkAlone, List, LockNext, Unread, Working,
         Volume, Known, db, local, Right, To, Nothing, FreeFor
<1>11. AgesOK'
  BY DEF AgesOK, List, LockNext, db
<1>12. ImportOK'
  BY DEF ImportOK, List, LockNext, FreeFor, Unread, Known, db, local
<1> QED
  BY <1>1, <1>2, <1>3, <1>4, <1>5, <1>6, <1>7, <1>8, <1>9, <1>10, <1>11, <1>12

LEMMA ChooseIInv ==
    ASSUME IInv, NEW t \in Threads, Choose(t), ~End(t)
    PROVE  IInv'
<1> USE NullAssumption DEF IInv
<1>1. MediaOK'
  BY DEF MediaOK, Choose, Found, Types, db
<1>2. NodesOK'
  <2> DEFINE i == First(Default)
  <2>1. /\ i \in DOMAIN media
        /\ mediumid' = [mediumid EXCEPT ![node[t]] = i]
        /\ stored' = [stored EXCEPT ![node[t]] = media[i].age]
        /\ drive' = drive
    BY DEF Choose, Known
  <2> HIDE DEF i
  <2>2. i \in Ids /\ media[i].age \in Ages
    BY <2>1, Registered
  <2> QED
    BY <2>1, <2>2 DEF NodesOK
<1>3. HeldOK'
  BY DEF HeldOK, LocalOK, Choose, Found, db
<1>4. LockedOK'
  <2> DEFINE i == First(Default)
  <2>1. /\ i \in DOMAIN media /\ Known(i) /\ Found(t, i, TRUE)
        /\ mediumid' = [mediumid EXCEPT ![node[t]] = i]
        /\ UNCHANGED <<media, held, node>>
        /\ Unread(t) = {}
    BY DEF Choose, Known, Found
  <2> HIDE DEF i
  <2>2. PageOf[i] \in Pages /\ held[PageOf[i]] = t
    BY <2>1, Registered DEF Unread
  <2>3. node[t] \in Nodes
    BY DEF OneEach, LocalOK, Choose
  <2>4. LockedOK!(t)'
    BY <2>1, <2>2, <2>3 DEF LockedOK, LocalOK, NodesOK, Found, Known, Working
  <2>5. ASSUME NEW u \in Threads, u # t
        PROVE  LockedOK!(u)'
    <3>1. at'[u] = at[u] /\ medium'[u] = medium[u]
      BY <2>1, <2>5 DEF Found, LocalOK
    <3>2. mediumid'[node[u]] = mediumid[node[u]]
      BY <2>1, <2>3, <2>5 DEF OneEach, NodesOK, LocalOK
    <3> QED
      BY <2>1, <3>1, <3>2 DEF LockedOK, Known
  <2> QED
    BY <2>4, <2>5 DEF LockedOK
<1>5. LocalOK'
  <2> DEFINE i == First(Default)
  <2>1. i \in DOMAIN media /\ \E l \in BOOLEAN : Found(t, i, l)
    BY DEF Choose, Known
  <2> HIDE DEF i
  <2>2. i \in Ids /\ media[i].age \in Ages
    BY <2>1, Registered
  <2> QED
    BY <2>1, <2>2 DEF LocalOK, Found, Working, States
<1>6. OneEach'
  BY DEF OneEach, LocalOK, Choose, Found, db, local, To
<1>7. UnlinkAlone'
  BY DEF UnlinkAlone, LocalOK, OneEach, Choose, Found, db, local, To
<1>8. AllLocked'
  BY DEF AllLocked, LockedOK, LocalOK, HeldOK, Choose, Found, Unread, Working, db, local,
         To, FreeFor, Nothing
<1>9. StaysFirst'
  BY SameFirst DEF StaysFirst, LocalOK, Working, Choose, Found
<1>10. OnOwnVolume'
  <2> DEFINE i == First(Default)
  <2>1. Found(t, i, TRUE) /\ media' = media /\ drive' = drive
    BY DEF Choose
  <2> HIDE DEF i
  <2>2. /\ medium' = [medium EXCEPT ![t] = [id |-> i, age |-> media[i].age, byLabel |-> TRUE]]
        /\ at' = [at EXCEPT ![t] = IF media[i].type = "insert" THEN "checking" ELSE "opening"]
        /\ op' = op /\ between' = between
    BY <2>1 DEF Found
  <2>3. ASSUME NEW u \in Threads, u # t, at'[u] = "opening", Volume(u)' # medium'[u].age
        PROVE  op'[u] = "open" /\ between'[u] \ {PageOf[medium'[u].id]} # {}
    <3>1. at'[u] = at[u] /\ medium'[u] = medium[u]
      BY <2>2, <2>3 DEF LocalOK
    <3>2. Volume(u)' = Volume(u)
      BY <2>1, <3>1 DEF Volume
    <3> QED
      BY <2>2, <2>3, <3>1, <3>2 DEF OnOwnVolume
  <2>4. ASSUME at'[t] = "opening"
        PROVE  Volume(t)' = medium'[t].age
    <3>1. medium'[t] = [id |-> i, age |-> media[i].age, byLabel |-> TRUE]
      BY <2>2 DEF LocalOK
    <3>2. media[i].type # "insert"
      BY <2>2, <2>4 DEF LocalOK
    <3> QED
      BY <2>1, <3>1, <3>2 DEF Volume
  <2> QED
    BY <2>3, <2>4 DEF OnOwnVolume
<1>11. AgesOK'
  <2> DEFINE i == First(Default)
  <2>1. /\ i \in DOMAIN media
        /\ mediumid' = [mediumid EXCEPT ![node[t]] = i]
        /\ stored' = [stored EXCEPT ![node[t]] = media[i].age]
        /\ media' = media /\ born' = born
    BY DEF Choose, Known
  <2> HIDE DEF i
  <2>2. media[i].age \in 1..born /\ born \in Nat
    BY <2>1, Registered, BoundsAssumption DEF MediaOK, Ages
  <2> QED
    BY <2>1, <2>2 DEF AgesOK, NodesOK
<1>12. ImportOK'
  BY DEF ImportOK, Choose, Found, Known, db, local
<1> QED
  BY <1>1, <1>2, <1>3, <1>4, <1>5, <1>6, <1>7, <1>8, <1>9, <1>10, <1>11, <1>12

LEMMA OpenIInv ==
    ASSUME IInv, NEW t \in Threads, NEW n \in Nodes, Open(t, n) \/ Unlink(t, n)
    PROVE  IInv'
<1> USE NullAssumption DEF IInv
<1>1. MediaOK'
  BY DEF MediaOK, Open, Unlink, Begin, Busy, Types, db
<1>2. NodesOK'
  BY DEF NodesOK, MediaOK, HeldOK, LocalOK, Open, Unlink, Begin, Busy, db
<1>3. HeldOK'
  BY DEF HeldOK, LocalOK, Open, Unlink, Begin, Busy, db
<1>4. LockedOK'
  <2>1. PICK o \in {"open", "unlink"} : Begin(t, n, o)
    BY DEF Open, Unlink
  <2>2. /\ at[t] = "idle" /\ at' = [at EXCEPT ![t] = "finding"]
        /\ node' = [node EXCEPT ![t] = n]
        /\ media' = media /\ mediumid' = mediumid /\ held' = held /\ medium' = medium
    BY <2>1 DEF Begin, db
  <2>3. \A u \in Threads : at[u] \in Working => node'[u] = node[u]
    BY <2>2 DEF LocalOK, Working
  <2> QED
    BY <2>2, <2>3, LockedStays DEF Working
<1>5. LocalOK'
  <2>1. PICK o \in {"open", "unlink"} : Begin(t, n, o)
    BY DEF Open, Unlink
  <2> QED
    BY <2>1 DEF LocalOK, Begin, Working, States
<1>6. OneEach'
  BY DEF OneEach, LocalOK, Open, Unlink, Begin, Busy, db, local, To
<1>7. UnlinkAlone'
  <2>1. CASE Open(t, n)
    BY <2>1 DEF UnlinkAlone, LocalOK, OneEach, Open, Begin
  <2>2. CASE Unlink(t, n)
    BY <2>2 DEF UnlinkAlone, LocalOK, OneEach, Unlink, Begin
  <2> QED
    BY <2>1, <2>2
<1>8. AllLocked'
  BY DEF AllLocked, LockedOK, LocalOK, HeldOK, Open, Unlink, Begin, Busy, Working, db,
         local, To, FreeFor, Nothing
<1>9. StaysFirst'
  BY SameFirst
     DEF StaysFirst, AllLocked, LocalOK, Working, Nothing, Open, Unlink, Begin, db
<1>10. OnOwnVolume'
  BY DEF OnOwnVolume, LockedOK, LocalOK, HeldOK, UnlinkAlone, Open, Unlink, Begin, Busy,
         Working, Volume, Known, db, local, Right, To, Nothing, FreeFor
<1>11. AgesOK'
  BY DEF AgesOK, Open, Unlink, Begin, db
<1>12. ImportOK'
  BY DEF ImportOK, Open, Unlink, Begin, Known, db, local
<1> QED
  BY <1>1, <1>2, <1>3, <1>4, <1>5, <1>6, <1>7, <1>8, <1>9, <1>10, <1>11, <1>12

LEMMA CheckIInv ==
    ASSUME IInv, NEW t \in Threads, Check(t)
    PROVE  IInv'
<1> USE NullAssumption DEF IInv
<1>1. MediaOK'
  BY DEF MediaOK, Check, Types, db
<1>2. NodesOK'
  BY DEF NodesOK, MediaOK, HeldOK, LocalOK, Check, db
<1>3. HeldOK'
  BY DEF HeldOK, LocalOK, Check, db
<1>4. LockedOK'
  BY DEF LockedOK, HeldOK, NodesOK, LocalOK, OneEach, Check, Known, Working, Nothing, db,
         local, To, FreeFor
<1>5. LocalOK'
  BY DEF LocalOK, HeldOK, MediaOK, Check, Working, States, Nothing, db, local, To
<1>6. OneEach'
  BY DEF OneEach, LocalOK, Check, db, local, To
<1>7. UnlinkAlone'
  BY DEF UnlinkAlone, LocalOK, OneEach, Check, db, local, To
<1>8. AllLocked'
  BY DEF AllLocked, LockedOK, LocalOK, HeldOK, Check, Working, db, local, To, FreeFor,
         Nothing
<1>9. StaysFirst'
  BY SameFirst DEF StaysFirst, AllLocked, LocalOK, Working, Nothing, Check, To, db
<1>10. OnOwnVolume'
  BY DEF OnOwnVolume, LockedOK, LocalOK, HeldOK, UnlinkAlone, Check, Working, Volume,
         Known, db, local, Right, To, Nothing, FreeFor
<1>11. AgesOK'
  BY DEF AgesOK, Check, db
<1>12. ImportOK'
  BY DEF ImportOK, Check, To, Known, db, local
<1> QED
  BY <1>1, <1>2, <1>3, <1>4, <1>5, <1>6, <1>7, <1>8, <1>9, <1>10, <1>11, <1>12

LEMMA InsertIInv ==
    ASSUME IInv, NEW t \in Threads, Insert(t), ~End(t)
    PROVE  IInv'
<1> USE NullAssumption DEF IInv
<1>1. MediaOK'
  BY DEF MediaOK, Insert, Types, db
<1>2. NodesOK'
  BY Registered DEF NodesOK, LocalOK, Insert, db
<1>3. HeldOK'
  BY DEF HeldOK, LocalOK, Insert, db
<1>4. LockedOK'
  <2>1. /\ at[t] = "asking" /\ at' = [at EXCEPT ![t] = "rechecking"]
        /\ node' = node
        /\ media' = media /\ mediumid' = mediumid /\ held' = held /\ medium' = medium
    BY DEF Insert, db
  <2> QED
    BY <2>1, LockedStays DEF Working
<1>5. LocalOK'
  <2>1. PageOf[medium[t].id] \in Pages
    BY NotThisPage DEF Insert, Working
  <2>2. /\ at' = [at EXCEPT ![t] = "rechecking"]
        /\ between' = [u \in Threads |->
              IF u # t /\ at[u] = "opening" THEN between[u] \cup {PageOf[medium[t].id]}
              ELSE between[u]]
        /\ UNCHANGED <<op, node, medium>>
    BY DEF Insert
  <2> QED
    BY <2>1, <2>2 DEF LocalOK, Working, States
<1>6. OneEach'
  BY DEF OneEach, LocalOK, Insert, db, local, To
<1>7. UnlinkAlone'
  BY DEF UnlinkAlone, LocalOK, OneEach, Insert, db, local, To
<1>8. AllLocked'
  BY DEF AllLocked, LockedOK, LocalOK, HeldOK, Insert, Working, db, local, To, FreeFor,
         Nothing
<1>9. StaysFirst'
  BY SameFirst DEF StaysFirst, AllLocked, LocalOK, Working, Nothing, Insert, db
<1>10. OnOwnVolume'
  <2>1. at[t] = "asking" /\ at'[t] = "rechecking" /\ PageOf[medium[t].id] \in Pages
    BY NotThisPage DEF Insert, Working, LocalOK
  <2>2. ASSUME NEW u \in Threads, at'[u] = "opening"
        PROVE  op'[u] = "open" /\ (between[u] \ {PageOf[medium[u].id]})' # {}
    <3>1. u # t /\ at[u] = "opening"
      BY <2>1, <2>2 DEF Insert, LocalOK
    <3>2. op[u] = "open"
      BY <2>1, <3>1 DEF UnlinkAlone, LocalOK
    <3>3. PageOf[medium[t].id] # PageOf[medium[u].id]
      BY <2>1, <3>1 DEF LockedOK, Working
    <3>4. PageOf[medium[t].id] \in between'[u]
      BY <3>1 DEF Insert
    <3> QED
      BY <3>2, <3>3, <3>4 DEF Insert
  <2> QED
    BY <2>2 DEF OnOwnVolume
<1>11. AgesOK'
  BY DEF AgesOK, Insert, db
<1>12. ImportOK'
  BY DEF ImportOK, Insert, Known, db, local
<1> QED
  BY <1>1, <1>2, <1>3, <1>4, <1>5, <1>6, <1>7, <1>8, <1>9, <1>10, <1>11, <1>12

LEMMA RecheckIInv ==
    ASSUME IInv, NEW t \in Threads, Recheck(t), ~End(t)
    PROVE  IInv'
<1> USE NullAssumption DEF IInv
<1>1. MediaOK'
  BY DEF MediaOK, Recheck, Types, db
<1>2. NodesOK'
  BY DEF NodesOK, MediaOK, HeldOK, LocalOK, Recheck, db
<1>3. HeldOK'
  BY DEF HeldOK, LocalOK, Recheck, db
<1>4. LockedOK'
  <2>1. /\ at[t] = "rechecking" /\ at' = [at EXCEPT ![t] = "opening"]
        /\ node' = node
        /\ media' = media /\ mediumid' = mediumid /\ held' = held /\ medium' = medium
    BY DEF Recheck, To, db
  <2> QED
    BY <2>1, LockedStays DEF Working
<1>5. LocalOK'
  BY DEF LocalOK, HeldOK, MediaOK, Recheck, Working, States, Nothing, db, local, To
<1>6. OneEach'
  BY DEF OneEach, LocalOK, Recheck, db, local, To
<1>7. UnlinkAlone'
  BY DEF UnlinkAlone, LocalOK, OneEach, Recheck, db, local, To
<1>8. AllLocked'
  BY DEF AllLocked, LockedOK, LocalOK, HeldOK, Recheck, Working, db, local, To, FreeFor,
         Nothing
<1>9. StaysFirst'
  BY SameFirst DEF StaysFirst, AllLocked, LocalOK, Working, Nothing, Recheck, To, db
<1>10. OnOwnVolume'
  BY DEF OnOwnVolume, LockedOK, LocalOK, HeldOK, UnlinkAlone, Recheck, Working, Volume,
         Known, db, local, Right, To, Nothing, FreeFor
<1>11. AgesOK'
  BY DEF AgesOK, Recheck, db
<1>12. ImportOK'
  BY DEF ImportOK, Recheck, To, Known, db, local
<1> QED
  BY <1>1, <1>2, <1>3, <1>4, <1>5, <1>6, <1>7, <1>8, <1>9, <1>10, <1>11, <1>12

LEMMA AddIInv ==
    ASSUME IInv, NEW l \in Labels, NEW ty \in {"directory", "insert"}, Add(l, ty)
    PROVE  IInv'
<1> USE NullAssumption DEF IInv
<1>1. MediaOK'
  <2>1. born' \in Ages /\ born' = born + 1 /\ born \in Nat
    BY BoundsAssumption DEF MediaOK, Add, Ages
  <2>2. ASSUME NEW j \in DOMAIN media'
        PROVE  media'[j] \in [label : Labels \cup {NoLabel}, type : Types, age : 1..born']
    <3>1. CASE j \in DOMAIN media /\ media'[j] = media[j]
      BY <2>1, <3>1 DEF MediaOK
    <3>2. CASE media'[j] = [label |-> l, type |-> ty, age |-> born']
      BY <2>1, <3>2 DEF Types
    <3> QED
      BY <2>2, <3>1, <3>2 DEF Add
  <2>3. media' = [j \in DOMAIN media' |-> media'[j]]
    BY DEF Add
  <2> QED
    BY <2>1, <2>2, <2>3 DEF MediaOK
<1>2. NodesOK'
  BY DEF NodesOK, MediaOK, HeldOK, LocalOK, Add, Free, db
<1>3. HeldOK'
  BY DEF HeldOK, LocalOK, Add, Free, db
<1>4. LockedOK'
  BY NotThisPage
     DEF LockedOK, HeldOK, NodesOK, LocalOK, OneEach, Add, Free, Known, Working, Nothing,
         db, local, To, FreeFor
<1>5. LocalOK'
  BY DEF LocalOK, HeldOK, MediaOK, Add, Free, Working, States, Nothing, db, local, To
<1>6. OneEach'
  BY DEF OneEach, LocalOK, Add, Free, db, local, To
<1>7. UnlinkAlone'
  BY DEF UnlinkAlone, LocalOK, OneEach, Add, Free, db, local, To
<1>8. AllLocked'
  BY DEF AllLocked, LockedOK, LocalOK, HeldOK, Add, Free, Working, db, local, To,
         FreeFor, Nothing
<1>9. StaysFirst'
  BY Registered, NotThisPage DEF StaysFirst, AllLocked, HeldOK, Pages, Free, local, Add
<1>10. OnOwnVolume'
  BY NotThisPage
     DEF OnOwnVolume, LockedOK, LocalOK, HeldOK, UnlinkAlone, Add, Free, Working, Volume,
         Known, db, local, Right, To, Nothing, FreeFor
<1>11. AgesOK'
  <2> DEFINE i == NewId
  <2>1. /\ born' = born + 1 /\ stored' = stored /\ mediumid' = mediumid
        /\ DOMAIN media' = DOMAIN media \cup {i}
        /\ \A j \in DOMAIN media' : media'[j].age = IF j = i THEN born' ELSE media[j].age
    BY DEF Add
  <2>2. \A j \in DOMAIN media : j < i
    BY NewIdIsLast
  <2> HIDE DEF i
  <2>3. /\ i \notin DOMAIN media /\ born \in Nat
        /\ \A j \in DOMAIN media : j \in Nat /\ media[j].age \in 1..born
    BY <2>2, Registered, BoundsAssumption DEF MediaOK, Ages, Ids
  <2>4. i \in Nat
    BY BoundsAssumption DEF i, Add, Ids
  <2>5. \A j, k \in DOMAIN media' : j < k => media'[j].age < media'[k].age
    BY <2>1, <2>2, <2>3, <2>4 DEF AgesOK
  <2>6. \A n \in Nodes : stored'[n] <= born' /\ stored[n] \in Nat
    BY <2>1, <2>3, BoundsAssumption DEF AgesOK, NodesOK, Ages, Empty
  <2>7. ASSUME NEW n \in Nodes, mediumid'[n] \in DOMAIN media'
        PROVE  stored'[n] <= media'[mediumid'[n]].age
    BY <2>1, <2>3, <2>6, <2>7 DEF AgesOK
  <2> QED
    BY <2>5, <2>6, <2>7 DEF AgesOK
<1>12. ImportOK'
  BY DEF ImportOK, Add, Free, HeldOK, MediaOK, Pages, Known, db, local
<1> QED
  BY <1>1, <1>2, <1>3, <1>4, <1>5, <1>6, <1>7, <1>8, <1>9, <1>10, <1>11, <1>12

LEMMA SetIInv ==
    ASSUME IInv, NEW i \in DOMAIN media, Relabel(i) \/ Retype(i)
    PROVE  IInv'
<1> USE NullAssumption DEF IInv
<1>1. MediaOK'
  BY DEF MediaOK, Relabel, Retype, Set, Free, Types, db
<1>2. NodesOK'
  BY DEF NodesOK, MediaOK, HeldOK, LocalOK, Relabel, Retype, Set, Free, db
<1>3. HeldOK'
  BY DEF HeldOK, LocalOK, Relabel, Retype, Set, Free, db
<1>4. LockedOK'
  <2>1. PICK m : media' = [media EXCEPT ![i] = m] /\ held[PageOf[i]] = NoThread
    BY Registered DEF Relabel, Retype, Set, Free
  <2>2. UNCHANGED <<held, at, medium, mediumid, node>>
    BY DEF Relabel, Retype, Set, local
  <2>3. ASSUME NEW u \in Threads, at[u] \in Working
        PROVE  medium[u].id # i
    BY <2>1, <2>3, NotThisPage
  <2> QED
    BY <2>1, <2>2, <2>3, NotThisPage DEF LockedOK, Known
<1>5. LocalOK'
  BY DEF LocalOK, HeldOK, MediaOK, Relabel, Retype, Set, Free, Working, States, Nothing,
         db, local, To
<1>6. OneEach'
  BY DEF OneEach, LocalOK, Relabel, Retype, Set, Free, db, local, To
<1>7. UnlinkAlone'
  BY DEF UnlinkAlone, LocalOK, OneEach, Relabel, Retype, Set, Free, db, local, To
<1>8. AllLocked'
  BY DEF AllLocked, LockedOK, LocalOK, HeldOK, Relabel, Retype, Set, Free, Working, db,
         local, To, FreeFor, Nothing
<1>9. StaysFirst'
  BY Registered, NotThisPage
     DEF StaysFirst, AllLocked, HeldOK, Pages, Free, local, Relabel, Retype, Set, Known
<1>10. OnOwnVolume'
  BY NotThisPage
     DEF OnOwnVolume, LockedOK, LocalOK, HeldOK, UnlinkAlone, Relabel, Retype, Set, Free,
         Working, Volume, Known, db, local, Right, To, Nothing, FreeFor
<1>11. AgesOK'
  <2>1. /\ DOMAIN media' = DOMAIN media
        /\ \A j \in DOMAIN media : media'[j].age = media[j].age
    BY DEF Relabel, Retype, Set, MediaOK
  <2>2. UNCHANGED <<born, stored, mediumid>>
    BY DEF Relabel, Retype, Set
  <2> QED
    BY <2>1, <2>2 DEF AgesOK
<1>12. ImportOK'
  BY DEF ImportOK, Relabel, Retype, Set, Free, Pages, HeldOK, Known, db, local
<1> QED
  BY <1>1, <1>2, <1>3, <1>4, <1>5, <1>6, <1>7, <1>8, <1>9, <1>10, <1>11, <1>12

LEMMA RemoveIInv ==
    ASSUME IInv, NEW i \in DOMAIN media, Remove(i)
    PROVE  IInv'
<1> USE NullAssumption DEF IInv
<1>1. MediaOK'
  BY DEF MediaOK, Remove, Free, Types, db
<1>2. NodesOK'
  BY DEF NodesOK, MediaOK, HeldOK, LocalOK, Remove, Free, db
<1>3. HeldOK'
  BY DEF HeldOK, LocalOK, Remove, Free, db
<1>4. LockedOK'
  BY NotThisPage
     DEF LockedOK, HeldOK, NodesOK, LocalOK, OneEach, Remove, Free, Known, Working,
         Nothing, db, local, To, FreeFor
<1>5. LocalOK'
  BY DEF LocalOK, HeldOK, MediaOK, Remove, Free, Working, States, Nothing, db, local, To
<1>6. OneEach'
  BY DEF OneEach, LocalOK, Remove, Free, db, local, To
<1>7. UnlinkAlone'
  BY DEF UnlinkAlone, LocalOK, OneEach, Remove, Free, db, local, To
<1>8. AllLocked'
  BY DEF AllLocked, LockedOK, LocalOK, HeldOK, Remove, Free, Working, db, local, To,
         FreeFor, Nothing
<1>9. StaysFirst'
  BY Registered, NotThisPage
     DEF StaysFirst, AllLocked, HeldOK, Pages, Free, local, Remove, Known
<1>10. OnOwnVolume'
  BY NotThisPage
     DEF OnOwnVolume, LockedOK, LocalOK, HeldOK, UnlinkAlone, Remove, Free, Working,
         Volume, Known, db, local, Right, To, Nothing, FreeFor
<1>11. AgesOK'
  BY DEF AgesOK, Remove
<1>12. ImportOK'
  BY DEF ImportOK, Remove, Free, Pages, HeldOK, Known, db, local
<1> QED
  BY <1>1, <1>2, <1>3, <1>4, <1>5, <1>6, <1>7, <1>8, <1>9, <1>10, <1>11, <1>12

(* offimport changes locks of pages that no handler has, ... *)
LEMMA ImportLocksIInv ==
    ASSUME IInv, UNCHANGED <<db, drive, at, op, node, medium, between>>,
           \A p \in Pages : held'[p] # held[p] =>
               held[p] \notin Threads /\ held'[p] \notin Threads,
           held' \in [Pages -> Threads \cup {NoThread, Importer}], ImportOK'
    PROVE  IInv'
<1> USE DEF IInv
<1>1. MediaOK' /\ NodesOK' /\ HeldOK' /\ LocalOK' /\ OneEach' /\ UnlinkAlone' /\ AgesOK'
  BY DEF MediaOK, NodesOK, HeldOK, LocalOK, OneEach, UnlinkAlone, AgesOK, db
<1>2. \A t \in Threads, p \in Pages : held[p] = t => held'[p] = t
  OBVIOUS
<1>3. LockedOK' /\ AllLocked'
  BY <1>2, NotThisPage DEF LockedOK, AllLocked, Known, db
<1>4. StaysFirst'
  BY SameFirst DEF StaysFirst, db
<1>5. OnOwnVolume'
  BY DEF OnOwnVolume, Volume, db
<1> QED
  BY <1>1, <1>3, <1>4, <1>5

LEMMA ImportGoesOnIInv ==
    ASSUME IInv,
           \/ \E l \in Labels : ImportStart(l)
           \/ ImportList \/ ImportMedium \/ ImportEnd
           \/ \E n \in Nodes : ImportLine(n)
    PROVE  IInv'
<1> USE NullAssumption DEF IInv
<1>1. UNCHANGED <<db, drive, at, op, node, medium, between>>
  BY DEF ImportStart, ImportList, LockNext, ImportMedium, ImportEnd, ImportLine, local
<1>2. ASSUME NEW p \in Pages, held'[p] # held[p]
      PROVE  held[p] \notin Threads /\ held'[p] \notin Threads
  BY <1>2
     DEF HeldOK, ImportStart, ImportList, LockNext, FreeFor, ImportMedium, ImportEnd,
         ImportLine
<1>3. held' \in [Pages -> Threads \cup {NoThread, Importer}]
  BY DEF HeldOK, ImportStart, ImportList, LockNext, ImportMedium, ImportEnd, ImportLine
<1>4. ImportOK'
  <2>1. CASE ImportMedium
    <3>1. First(import.label) \in Ids \/ ~Known(First(import.label))
      BY Registered DEF Known
    <3> QED
      BY <2>1, <3>1 DEF ImportOK, ImportMedium, Unread, Known, db
  <2>2. CASE ImportList
    BY <2>2 DEF ImportOK, ImportList, local
  <2>3. CASE ImportEnd
    BY <2>3 DEF ImportOK, ImportEnd, NoImport
  <2>4. ASSUME NEW n \in Nodes, ImportLine(n) PROVE ImportOK'
    BY <2>4 DEF ImportOK, ImportLine, Known, db
  <2>5. ASSUME NEW l \in Labels, ImportStart(l) PROVE ImportOK'
    BY <2>5 DEF ImportOK, ImportStart
  <2> QED
    BY <2>1, <2>2, <2>3, <2>4, <2>5
<1> QED
  BY <1>1, <1>2, <1>3, <1>4, ImportLocksIInv

(* ... and the storage of a file that no handler is about. *)
LEMMA ImportFileIInv ==
    ASSUME IInv, ImportFile
    PROVE  IInv'
<1> USE NullAssumption DEF IInv
<1> DEFINE n == import.file
           i == import.id
<1>1. n \in Nodes /\ i \in DOMAIN media /\ ~Busy(n)
  BY AroundAssumption DEF ImportFile, ImportOK, Known
<1>2. /\ \/ mediumid' = mediumid /\ stored' = stored
         \/ /\ mediumid' = [mediumid EXCEPT ![n] = i]
            /\ stored' = [stored EXCEPT ![n] = media[i].age]
      /\ UNCHANGED <<media, born, drive, held, at, op, node, medium, between>>
      /\ import' = [import EXCEPT !.at = "reading", !.file = NoNode]
  BY DEF ImportFile
<1>12. ImportOK'
  BY DEF ImportOK, ImportFile, Known
<1> HIDE DEF n, i
<1>3. MediaOK' /\ HeldOK' /\ LocalOK' /\ OneEach' /\ UnlinkAlone' /\ AllLocked'
  BY <1>2 DEF MediaOK, HeldOK, LocalOK, OneEach, UnlinkAlone, AllLocked
<1>4. NodesOK'
  BY <1>1, <1>2, Registered DEF NodesOK
<1>5. LockedOK'
  <2>1. \A t \in Threads : node[t] # n
    BY <1>1 DEF Busy
  <2>2. \A t \in Threads : at[t] \in Working => mediumid'[node[t]] = mediumid[node[t]]
    BY <1>2, <2>1 DEF OneEach, LocalOK, NodesOK, Working
  <2> QED
    BY <1>2, <2>2 DEF LockedOK, Known
<1>6. StaysFirst'
  BY <1>2, SameFirst DEF StaysFirst
<1>7. OnOwnVolume'
  BY <1>2 DEF OnOwnVolume, Volume
<1>8. AgesOK'
  <2>1. media[i].age \in 1..born /\ born \in Nat
    BY <1>1, Registered, BoundsAssumption DEF MediaOK, Ages
  <2> QED
    BY <1>1, <1>2, <2>1 DEF AgesOK, NodesOK
<1> QED
  BY <1>3, <1>4, <1>5, <1>6, <1>7, <1>8, <1>12

LEMMA InitIInv == Init => IInv
<1> SUFFICES ASSUME Init PROVE IInv
  OBVIOUS
<1>1. MediaOK /\ HeldOK /\ NodesOK
  BY BoundsAssumption, DefaultAssumption
     DEF Init, MediaOK, HeldOK, NodesOK, Types, Ages, Ids, Empty
<1>2. LockedOK /\ AllLocked /\ StaysFirst /\ OnOwnVolume
  BY DEF Init, LockedOK, AllLocked, StaysFirst, OnOwnVolume, Working
<1>3. LocalOK /\ OneEach /\ UnlinkAlone
  BY DEF Init, LocalOK, OneEach, UnlinkAlone, States, Nothing, Empty
<1>4. AgesOK
  BY NullAssumption DEF Init, AgesOK, Empty
<1>5. ImportOK
  BY DEF Init, ImportOK, NoImport
<1> QED
  BY <1>1, <1>2, <1>3, <1>4, <1>5 DEF IInv

LEMMA StepIInv ==
    ASSUME IInv, NEW t \in Threads, Step(t)
    PROVE  IInv'
<1>1. at[t] # "idle"
  BY DEF Step, GetMedium, List, Choose, Check, Insert, Recheck, OpenFile, Fail
<1>2. CASE End(t)
  BY <1>1, <1>2, EndIInv
<1>3. CASE ~End(t)
  <2>1. ~OpenFile(t) /\ ~Fail(t)
    BY <1>3 DEF OpenFile, Fail
  <2> QED
    BY <1>3, <2>1, GetMediumIInv, ListIInv, ChooseIInv, CheckIInv, InsertIInv, RecheckIInv
       DEF Step
<1> QED
  BY <1>2, <1>3

LEMMA NextIInv == IInv /\ [Next]_vars => IInv'
<1> SUFFICES ASSUME IInv, [Next]_vars PROVE IInv'
  OBVIOUS
<1>1. CASE Offmedia \/ Offimport
  BY <1>1, AddIInv, SetIInv, RemoveIInv, ImportGoesOnIInv, ImportFileIInv
     DEF Offmedia, Offimport
<1>2. CASE UNCHANGED vars
  <2>1. UNCHANGED <<media, born, mediumid, stored, drive, held>>
    BY <1>2 DEF vars, db
  <2>2. UNCHANGED <<at, op, node, medium, between, import>>
    BY <1>2 DEF vars, local
  <2>3. StaysFirst'
    BY <2>1, <2>2, SameFirst DEF IInv, StaysFirst
  <2> QED
    BY <2>1, <2>2, <2>3
       DEF IInv, MediaOK, NodesOK, HeldOK, LockedOK, LocalOK, OneEach, UnlinkAlone, AllLocked,
           OnOwnVolume, AgesOK, ImportOK, Known, Volume
<1>3. ASSUME NEW t \in Threads, Step(t) PROVE IInv'
  BY <1>3, StepIInv
<1>4. ASSUME NEW t \in Threads, NEW n \in Nodes, Open(t, n) \/ Unlink(t, n) PROVE IInv'
  BY <1>4, OpenIInv
<1> QED
  BY <1>1, <1>2, <1>3, <1>4 DEF Next

LEMMA SpecIInv == Spec => []IInv
  BY InitIInv, NextIInv, PTL DEF Spec

(* The register of a medium that a handler works with is there, of the type  *)
(* and the age that getmedium() has seen, and locked, until the handler ends.*)
THEOREM MediumStaysLocked == Spec => []TypeOK
<1>1. IInv => TypeOK
  BY DEF IInv, TypeOK, MediaOK, NodesOK, HeldOK, LockedOK, ImportOK
<1> QED
  BY <1>1, SpecIInv, PTL

(* An id that a file still has for a removed medium leads to one that was    *)
(* made later than everything that was registered after the file's own.      *)
THEOREM OldIdsInOrder == Spec => []OldIdsLeadOnlyToNewer
<1>1. ASSUME IInv, NEW n \in Nodes, mediumid[n] \in DOMAIN media,
             media[mediumid[n]].age # stored[n]
      PROVE  /\ media[mediumid[n]].age > stored[n]
             /\ \A i \in DOMAIN media :
                   i > mediumid[n] => media[i].age > media[mediumid[n]].age
  <2>1. \A i \in DOMAIN media : i \in Nat /\ media[i].age \in Nat
    BY <1>1, Registered, BoundsAssumption DEF Ids, Ages
  <2>2. stored[n] \in Nat
    BY <1>1, BoundsAssumption DEF IInv, NodesOK, Ages, Empty
  <2> QED
    BY <1>1, <2>1, <2>2 DEF IInv, AgesOK
<1>2. IInv => OldIdsLeadOnlyToNewer
  BY <1>1 DEF OldIdsLeadOnlyToNewer
<1> QED
  BY <1>2, SpecIInv, PTL

(* The medium that a file gets is the first of the default label as long as  *)
(* the handler that has chosen it runs.                                      *)
THEOREM ChosenStaysFirst == Spec => []StaysFirst
<1>1. IInv => StaysFirst
  BY DEF IInv
<1> QED
  BY <1>1, SpecIInv, PTL

(* A file is opened or deleted on its own medium's volume, unless another    *)
(* thread has changed the volume for a medium on another page in between.    *)
THEOREM OpensOnOwnVolume == Spec => []OnOwnVolume
<1>1. IInv => OnOwnVolume
  BY DEF IInv
<1> QED
  BY <1>1, SpecIInv, PTL

(* No step of a handler or a tool mends or removes a medium of unknown type. *)
THEOREM BrokenMediaStay == Spec => BrokenStays
<1> DEFINE Kept == \A i \in DOMAIN media :
                      media[i].type = "unknown" => i \in DOMAIN media' /\ media'[i] = media[i]
<1>1. ASSUME IInv, NEW t \in Threads, Step(t) PROVE Kept
  BY <1>1
     DEF Step, GetMedium, List, LockNext, Choose, Check, Insert, Recheck, OpenFile, Fail, End,
         db
<1>2. ASSUME IInv, NEW t \in Threads, NEW n \in Nodes, Open(t, n) \/ Unlink(t, n) PROVE Kept
  BY <1>2 DEF Open, Unlink, Begin, db
<1>3. ASSUME IInv, NEW l \in Labels, NEW ty \in {"directory", "insert"}, Add(l, ty) PROVE Kept
  <2>1. \A j \in DOMAIN media : j # NewId
    BY <1>3, NewIdIsLast, Registered, BoundsAssumption DEF Add, Ids
  <2> QED
    BY <1>3, <2>1 DEF Add
<1>4. ASSUME IInv, NEW i \in DOMAIN media, Relabel(i) \/ Retype(i) \/ Remove(i) PROVE Kept
  BY <1>4 DEF Relabel, Retype, Set, Remove, Known, IInv, MediaOK
<1>5. ASSUME IInv, Offimport PROVE Kept
  BY <1>5
     DEF Offimport, ImportStart, ImportList, LockNext, ImportMedium, ImportLine, ImportFile,
         ImportEnd, db
<1>6. IInv /\ [Next]_vars => [Kept]_vars
  BY <1>1, <1>2, <1>3, <1>4, <1>5 DEF Next, Offmedia
<1> QED
  BY <1>6, SpecIInv, PTL DEF Spec, BrokenStays
=============================================================================
