-------------------------- MODULE CacheThreadsProofs --------------------------
(***************************************************************************)
(* Threads in the path cache, for any number of threads and any depth of   *)
(* the tree: who holds the mutex, that an outdated entry is gone before    *)
(* its writer's lock is, and that in the directories database a thread     *)
(* waits only for entries of another directory than its own.               *)
(*                                                                         *)
(* The invariant says in addition how far a thread is in its handler, and  *)
(* which register it has locked for good by then (Underway): the register  *)
(* that a handler changes, or adds a name to, is one that its getnode has  *)
(* read in the same transaction.  Who has a page of the directories locked *)
(* has the node of a directory on that page locked (DirectoriesGuarded).   *)
(***************************************************************************)
EXTENDS CacheThreads, WellFoundedInduction, TLAPS

Places == {"idle", "outside", "inside", "using"}

G(i) == <<"getnode", i>>
S(i) == <<"setattr", i>>
I(i) == <<"invalidate", i>>
A(i, p) == <<"addchild", i, p>>

(* What is left of a handler before its first getnode has returned, ...     *)
BegunWith(q, i) ==
    \/ q = <<G(i)>>
    \/ q = <<G(i), S(i), I(i)>>
    \/ \E p \in DirPages[i] :
          \/ q = <<G(i), A(i, p)>>
          \/ q = <<G(i), G(Depth), A(i, p)>>
          \/ \E r \in DirPages[i] : q = <<G(i), A(i, p), A(i, r)>>

Begun(q) == \E i \in Nodes : BegunWith(q, i)

(* ... and after that, when it relies on the lock of node i.                 *)
Resolved(q, i) ==
    \/ q = <<S(i), I(i)>>
    \/ q = <<I(i)>>
    \/ \E p \in DirPages[i] :
          \/ q = <<A(i, p)>>
          \/ q = <<G(Depth), A(i, p)>>
          \/ \E r \in DirPages[i] : q = <<A(i, p), A(i, r)>>

NodeHeld(t, i) == holder[N(i)] = t

Underway(t) ==
    \/ todo[t] = <<>> /\ at[t] \in {"idle", "outside"}
    \/ Begun(todo[t]) /\ at[t] # "idle"
    \/ /\ \E i \in Nodes : Resolved(todo[t], i) /\ NodeHeld(t, i)
       /\ at[t] # "idle"
       /\ at[t] # "outside" => Calling(t, "getnode")

(* The writer of an outdated entry has nothing left to do but to remove it.  *)
OldEntryHeld ==
    \A i \in Nodes :
        cache[i] = "old" =>
            /\ holder[N(i)] \in Threads
            /\ todo[holder[N(i)]] = <<I(i)>>

(* Who is in a page of the directories has come there by a node.            *)
Guarded(t, p) == \E i \in Nodes : p \in DirPages[i] /\ NodeHeld(t, i)

DirectoriesGuarded ==
    \A p \in UNION {DirPages[i] : i \in Nodes} :
        holder[D(p)] # NoThread => Guarded(holder[D(p)], p)

Types ==
    /\ mutex \in Threads \cup {NoThread}
    /\ \A t \in Threads : at[t] = "inside" <=> mutex = t
    /\ holder \in [Items -> Threads \cup {NoThread}]
    /\ cache \in [Nodes -> {"none", "fresh", "old"}]
    /\ at \in [Threads -> Places]
    /\ valid \in [Threads -> BOOLEAN]
    /\ DOMAIN todo = Threads

IInv ==
    /\ Types
    /\ \A t \in Threads : Underway(t)
    /\ OldEntryHeld
    /\ DirectoriesGuarded

-----------------------------------------------------------------------------
(* Lists of calls. *)

LEMMA ShortLists ==
    ASSUME NEW a, NEW b, NEW c
    PROVE  /\ <<a>> # <<>> /\ Head(<<a>>) = a /\ Tail(<<a>>) = <<>>
           /\ <<a, b>> # <<>> /\ Head(<<a, b>>) = a /\ Tail(<<a, b>>) = <<b>>
           /\ <<a, b, c>> # <<>> /\ Head(<<a, b, c>>) = a /\ Tail(<<a, b, c>>) = <<b, c>>
  OBVIOUS

(* The calls are told apart by their names. *)
LEMMA CallNames ==
    ASSUME NEW i, NEW p
    PROVE  /\ G(i)[1] = "getnode" /\ S(i)[1] = "setattr"
           /\ I(i)[1] = "invalidate" /\ A(i, p)[1] = "addchild"
           /\ G(i)[2] = i /\ S(i)[2] = i /\ I(i)[2] = i /\ A(i, p)[2] = i /\ A(i, p)[3] = p
  BY DEF G, S, I, A

(* The first call of what is left. *)
LEMMA FirstBegun ==
    ASSUME NEW q, NEW i, BegunWith(q, i)
    PROVE  q # <<>> /\ Head(q)[1] = "getnode" /\ Head(q)[2] = i
  <1>1. G(i)[1] = "getnode" /\ G(i)[2] = i
    BY CallNames
  <1>2. q # <<>> /\ Head(q) = G(i)
    BY ShortLists DEF BegunWith
  <1> QED
    BY <1>1, <1>2

LEMMA FirstResolved ==
    ASSUME NEW q, NEW i, Resolved(q, i)
    PROVE  /\ q # <<>>
           /\ \/ q = <<S(i), I(i)>> /\ Head(q)[1] = "setattr" /\ Head(q)[2] = i
              \/ q = <<I(i)>> /\ Head(q)[1] = "invalidate" /\ Head(q)[2] = i
              \/ \E p \in DirPages[i] :
                    \/ /\ \/ q = <<A(i, p)>>
                          \/ \E r \in DirPages[i] : q = <<A(i, p), A(i, r)>>
                       /\ Head(q)[1] = "addchild" /\ Head(q)[2] = i /\ Head(q)[3] = p
                    \/ q = <<G(Depth), A(i, p)>>
                       /\ Head(q)[1] = "getnode" /\ Head(q)[2] = Depth
  <1>1. CASE q = <<S(i), I(i)>> \/ q = <<I(i)>>
    BY <1>1, ShortLists, CallNames
  <1>2. ASSUME NEW p \in DirPages[i], q = <<A(i, p)>> \/ q = <<G(Depth), A(i, p)>>
        PROVE  /\ q # <<>>
               /\ \/ /\ q = <<A(i, p)>>
                     /\ Head(q)[1] = "addchild" /\ Head(q)[2] = i /\ Head(q)[3] = p
                  \/ /\ q = <<G(Depth), A(i, p)>>
                     /\ Head(q)[1] = "getnode" /\ Head(q)[2] = Depth
    <2> HIDE DEF G, A
    <2>1. CASE q = <<A(i, p)>>
      BY <2>1, ShortLists, CallNames
    <2>2. CASE q = <<G(Depth), A(i, p)>>
      BY <2>2, ShortLists, CallNames
    <2> QED
      BY <1>2, <2>1, <2>2
  <1>3. ASSUME NEW p \in DirPages[i], NEW r \in DirPages[i], q = <<A(i, p), A(i, r)>>
        PROVE  q # <<>> /\ Head(q)[1] = "addchild" /\ Head(q)[2] = i /\ Head(q)[3] = p
    BY <1>3, ShortLists, CallNames
  <1> QED
    BY <1>1, <1>2, <1>3 DEF Resolved

(* What is left is the invalidation at the end of chmod. *)
LEMMA OnlyInvalidates ==
    ASSUME NEW t, NEW i, todo[t] = <<I(i)>>
    PROVE  Calling(t, "invalidate") /\ ~Calling(t, "getnode") /\ ~Calling(t, "addchild")
  <1>1. todo[t] # <<>> /\ Head(todo[t]) = I(i)
    BY ShortLists
  <1>2. I(i)[1] = "invalidate"
    BY CallNames
  <1> QED
    BY <1>1, <1>2 DEF Calling

-----------------------------------------------------------------------------
(* Locks. *)

LEMMA ThreadsNotNone == \A t \in Threads : t # NoThread
  BY ThreadsAssumption

LEMMA PagesLocked ==
    /\ \A i \in Nodes : N(i) \in Items
    /\ \A p \in UNION {DirPages[i] : i \in Nodes} : D(p) \in Items
    /\ \A i, p : N(i) # D(p)
    /\ \A p, q : D(p) = D(q) => p = q
  BY DEF Items, N, D

(* A lock that is granted takes none away. *)
LEMMA GrantKeeps ==
    ASSUME Types, DirectoriesGuarded,
           NEW t \in Threads, NEW x \in Items, Grantable(t, x), Granted(t, x),
           \A p : x = D(p) => Guarded(t, p)
    PROVE  /\ holder' \in [Items -> Threads \cup {NoThread}]
           /\ \A u \in Threads, i \in Nodes : NodeHeld(u, i) => NodeHeld(u, i)'
           /\ DirectoriesGuarded'
  <1>1. holder' \in [Items -> Threads \cup {NoThread}]
    BY DEF Types, Granted
  <1>2. \A y \in Items : holder'[y] = IF y = x THEN t ELSE holder[y]
    BY DEF Types, Granted
  <1>3. holder[x] \in {t, NoThread}
    BY DEF Grantable
  <1>4. ASSUME NEW u \in Threads, NEW i \in Nodes, NodeHeld(u, i)
        PROVE  NodeHeld(u, i)'
    BY <1>2, <1>3, <1>4, PagesLocked, ThreadsNotNone DEF NodeHeld
  <1>5. ASSUME NEW u \in Threads, NEW p, Guarded(u, p)
        PROVE  Guarded(u, p)'
    BY <1>4, <1>5 DEF Guarded
  <1>6. ASSUME NEW p \in UNION {DirPages[i] : i \in Nodes}, holder'[D(p)] # NoThread
        PROVE  Guarded(holder[D(p)], p)' /\ holder'[D(p)] \in Threads
    <2>1. D(p) \in Items
      BY PagesLocked
    <2>2. CASE x = D(p)
      <3>1. holder'[D(p)] = t
        BY <1>2, <2>1, <2>2
      <3>2. Guarded(t, p)'
        BY <1>5, <2>2
      <3> QED
        BY <3>1, <3>2 DEF Guarded, NodeHeld
    <2>3. CASE x # D(p)
      <3>1. holder'[D(p)] = holder[D(p)]
        BY <1>2, <2>1, <2>3
      <3>2. holder[D(p)] \in Threads
        BY <1>6, <2>1, <3>1 DEF Types
      <3>3. Guarded(holder[D(p)], p)
        BY <1>6, <3>1 DEF DirectoriesGuarded
      <3>4. PICK i \in Nodes : p \in DirPages[i] /\ NodeHeld(holder[D(p)], i)
        BY <3>3 DEF Guarded
      <3>5. holder'[N(i)] = holder[D(p)]
        BY <1>4, <3>2, <3>4 DEF NodeHeld
      <3> QED
        BY <3>1, <3>2, <3>4, <3>5 DEF Guarded, NodeHeld
    <2> QED
      BY <2>2, <2>3
  <1> QED
    BY <1>1, <1>4, <1>6 DEF DirectoriesGuarded, Guarded, NodeHeld

(* A thread that gives up its locks gives up those of nodes and directories  *)
(* together, and nobody else's.                                              *)
LEMMA ReleaseKeeps ==
    ASSUME Types, DirectoriesGuarded, NEW t \in Threads,
           holder' = [x \in Items |-> IF holder[x] = t THEN NoThread ELSE holder[x]]
    PROVE  /\ holder' \in [Items -> Threads \cup {NoThread}]
           /\ \A u \in Threads \ {t}, i \in Nodes : NodeHeld(u, i) => NodeHeld(u, i)'
           /\ DirectoriesGuarded'
  <1>1. holder' \in [Items -> Threads \cup {NoThread}]
    BY DEF Types
  <1>2. \A u \in Threads \ {t}, i \in Nodes : NodeHeld(u, i) => NodeHeld(u, i)'
    BY PagesLocked DEF NodeHeld
  <1>3. ASSUME NEW p \in UNION {DirPages[i] : i \in Nodes}, holder'[D(p)] # NoThread
        PROVE  Guarded(holder[D(p)], p)'
    <2>1. D(p) \in Items
      BY PagesLocked
    <2>2. holder'[D(p)] = holder[D(p)] /\ holder[D(p)] \in Threads \ {t}
      BY <1>3, <2>1 DEF Types
    <2>3. PICK i \in Nodes : p \in DirPages[i] /\ NodeHeld(holder[D(p)], i)
      BY <1>3, <2>2 DEF DirectoriesGuarded, Guarded
    <2>4. holder'[N(i)] = holder'[D(p)]
      BY <1>2, <2>2, <2>3 DEF NodeHeld
    <2> QED
      BY <2>3, <2>4 DEF Guarded, NodeHeld
  <1> QED
    BY <1>1, <1>2, <1>3 DEF DirectoriesGuarded

(* A thread that does not move goes on to be where it was. *)
LEMMA StaysUnderway ==
    ASSUME NEW u \in Threads, Underway(u),
           todo'[u] = todo[u], at'[u] = at[u],
           \A i \in Nodes : NodeHeld(u, i) => NodeHeld(u, i)'
    PROVE  Underway(u)'
  <1>1. Calling(u, "getnode")' <=> Calling(u, "getnode")
    BY DEF Calling
  <1>2. CASE todo[u] = <<>> /\ at[u] \in {"idle", "outside"}
    BY <1>2 DEF Underway
  <1>3. CASE Begun(todo[u]) /\ at[u] # "idle"
    BY <1>3 DEF Underway, Begun, BegunWith
  <1>4. CASE /\ \E i \in Nodes : Resolved(todo[u], i) /\ NodeHeld(u, i)
             /\ at[u] # "idle" /\ at[u] # "outside" => Calling(u, "getnode")
    <2>1. PICK i \in Nodes : Resolved(todo[u], i) /\ NodeHeld(u, i)
      BY <1>4
    <2>2. Resolved(todo'[u], i) /\ NodeHeld(u, i)'
      BY <2>1
    <2> QED
      BY <1>1, <1>4, <2>2 DEF Underway, Resolved
  <1> QED
    BY <1>2, <1>3, <1>4 DEF Underway

-----------------------------------------------------------------------------
(* The handlers. *)

(* Nothing but a thread's own place and list changes. *)
LEMMA StartKeeps ==
    ASSUME IInv, NEW t \in Threads, Start(t)
    PROVE  IInv'
  <1> USE DEF IInv
  <1>0. PICK i \in Nodes : \E h \in Handlers(i) : todo' = [todo EXCEPT ![t] = h]
    BY DEF Start
  <1>1. PICK h \in Handlers(i) : todo' = [todo EXCEPT ![t] = h]
    BY <1>0
  <1>2. Begun(h)
    <2>1. /\ Getattr(i) = <<G(i)>> /\ Chmod(i) = <<G(i), S(i), I(i)>>
          /\ \A p, q : /\ Mknod(i, p) = <<G(i), A(i, p)>>
                      /\ Link(i, p) = <<G(i), G(Depth), A(i, p)>>
                      /\ Readdir(i, p, q) = <<G(i), A(i, p), A(i, q)>>
      BY DEF Getattr, Chmod, Mknod, Link, Readdir, G, S, I, A
    <2>2. \/ h = Getattr(i) \/ h = Chmod(i)
          \/ \E p \in DirPages[i] : h = Mknod(i, p) \/ h = Link(i, p)
          \/ \E p, q \in DirPages[i] : h = Readdir(i, p, q)
      BY DEF Handlers
    <2> HIDE DEF G, S, I, A
    <2> QED
      BY <2>1, <2>2 DEF Begun, BegunWith
  <1>3. Types'
    BY <1>1 DEF Start, Types, Places
  <1>4. ASSUME NEW u \in Threads
        PROVE  Underway(u)'
    <2>1. CASE u = t
      <3>1. todo'[t] = h /\ at'[t] = "outside"
        BY <1>1 DEF Start, Types
      <3> QED
          BY <1>2, <2>1, <3>1 DEF Underway, Begun, BegunWith
    <2>2. CASE u # t
      <3>1. todo'[u] = todo[u] /\ at'[u] = at[u] /\ holder' = holder
        BY <1>1, <2>2 DEF Start, Types
      <3> QED
        BY <3>1, StaysUnderway DEF NodeHeld
    <2> QED
      BY <2>1, <2>2
  <1>5. todo[t] = <<>>
    BY DEF Underway, Start
  <1>6. OldEntryHeld'
    <2>1. SUFFICES ASSUME NEW k \in Nodes, cache[k] = "old"
                   PROVE  /\ holder[N(k)] \in Threads
                          /\ todo'[holder[N(k)]] = <<I(k)>>
      BY DEF Start, OldEntryHeld, I
    <2>2. /\ holder[N(k)] \in Threads
          /\ todo[holder[N(k)]] = <<I(k)>>
      BY <2>1 DEF OldEntryHeld
    <2>3. <<I(k)>> # <<>>
      OBVIOUS
    <2>4. holder[N(k)] # t
      BY <1>5, <2>2, <2>3
    <2> QED
      BY <1>1, <2>2, <2>4 DEF Types
  <1>7. DirectoriesGuarded'
    BY DEF Start, DirectoriesGuarded, Guarded, NodeHeld
  <1> QED
    BY <1>3, <1>4, <1>6, <1>7

LEMMA EndKeeps ==
    ASSUME IInv, NEW t \in Threads, End(t)
    PROVE  IInv'
  <1> USE DEF IInv
  <1>1. /\ holder' \in [Items -> Threads \cup {NoThread}]
        /\ \A u \in Threads \ {t}, i \in Nodes : NodeHeld(u, i) => NodeHeld(u, i)'
        /\ DirectoriesGuarded'
    BY ReleaseKeeps DEF End
  <1>2. Types'
    BY <1>1 DEF End, Types, Places
  <1>3. ASSUME NEW u \in Threads
        PROVE  Underway(u)'
    <2>1. CASE u = t
      BY <2>1 DEF End, Underway, Types
    <2>2. CASE u # t
      BY <1>1, <2>2, StaysUnderway DEF End, Types
    <2> QED
      BY <2>1, <2>2
  <1>4. OldEntryHeld'
    <2>1. \A i \in Nodes : <<I(i)>> # <<>> /\ N(i) \in Items
      BY PagesLocked
    <2> QED
      BY <2>1 DEF End, OldEntryHeld, Types
  <1> QED
    BY <1>1, <1>2, <1>3, <1>4

-----------------------------------------------------------------------------
(* getnode. *)

LEMMA InGetnode ==
    ASSUME NEW t \in Threads, Underway(t), at[t] \in {"inside", "using"}
    PROVE  Calling(t, "getnode")
  BY FirstBegun DEF Underway, Begun, Calling

LEMMA GetnodeOfNode ==
    ASSUME NEW t \in Threads, Underway(t), Calling(t, "getnode")
    PROVE  Node(t) \in Nodes
  <1>1. Depth \in Nodes
    BY DepthAssumption DEF Nodes
  <1>2. CASE Begun(todo[t])
    BY <1>2, FirstBegun DEF Begun, Node
  <1>3. CASE \E i \in Nodes : Resolved(todo[t], i)
    BY <1>1, <1>3, FirstResolved DEF Node, Calling
  <1> QED
    BY <1>2, <1>3 DEF Underway, Calling

(* The other threads, when one thread's list, place and locks change. *)
LEMMA OthersStay ==
    ASSUME IInv, NEW t \in Threads,
           \A u \in Threads \ {t} : todo'[u] = todo[u] /\ at'[u] = at[u],
           \A u \in Threads, i \in Nodes : NodeHeld(u, i) => NodeHeld(u, i)'
    PROVE  \A u \in Threads \ {t} : Underway(u)'
  BY StaysUnderway DEF IInv

(* A thread that begins, or goes on with, the getnode that it has to call.   *)
LEMMA GoesOn ==
    ASSUME NEW t \in Threads, Underway(t), Calling(t, "getnode"),
           todo'[t] = todo[t], at'[t] # "idle",
           \A i \in Nodes : NodeHeld(t, i) => NodeHeld(t, i)'
    PROVE  Underway(t)'
  <1>1. Calling(t, "getnode")'
    BY DEF Calling
  <1>2. CASE Begun(todo[t])
    BY <1>2 DEF Underway, Begun, BegunWith
  <1>3. CASE \E i \in Nodes : Resolved(todo[t], i) /\ NodeHeld(t, i)
    <2>1. PICK i \in Nodes : Resolved(todo[t], i) /\ NodeHeld(t, i)
      BY <1>3
    <2>2. Resolved(todo'[t], i) /\ NodeHeld(t, i)'
      BY <2>1
    <2> QED
      BY <1>1, <2>2 DEF Underway, Resolved
  <1> QED
    BY <1>2, <1>3 DEF Underway, Calling

(* No entry becomes outdated while lists and the locks held stay. *)
LEMMA OldStaysHeld ==
    ASSUME IInv, NEW t \in Threads,
           \A i \in Nodes : cache'[i] = "old" => cache[i] = "old",
           \A u \in Threads : todo'[u] = todo[u] \/ (u = t /\ Calling(t, "getnode")),
           \A u \in Threads, i \in Nodes : NodeHeld(u, i) => NodeHeld(u, i)'
    PROVE  OldEntryHeld'
  <1>1. SUFFICES ASSUME NEW i \in Nodes, cache'[i] = "old"
                 PROVE  /\ holder'[N(i)] \in Threads
                        /\ todo'[holder'[N(i)]] = <<I(i)>>
    BY DEF OldEntryHeld, I
  <1> DEFINE u == holder[N(i)]
  <1>2. u \in Threads /\ todo[u] = <<I(i)>>
    BY <1>1 DEF IInv, OldEntryHeld
  <1>3. ~Calling(u, "getnode")
    BY <1>2, OnlyInvalidates
  <1>4. holder'[N(i)] = u
    BY <1>2 DEF NodeHeld
  <1> QED
    BY <1>2, <1>3, <1>4

LEMMA EnterKeeps ==
    ASSUME IInv, NEW t \in Threads, Enter(t)
    PROVE  IInv'
  <1> USE DEF IInv
  <1>1. /\ at' = [at EXCEPT ![t] = "inside"]
        /\ mutex = NoThread /\ mutex' = t
        /\ UNCHANGED <<holder, cache, todo, valid>>
        /\ Calling(t, "getnode")
    BY DEF Enter
  <1>2. Types'
    BY <1>1, ThreadsNotNone DEF Types, Places
  <1>3. \A u \in Threads, i \in Nodes : NodeHeld(u, i) => NodeHeld(u, i)'
    BY <1>1 DEF NodeHeld
  <1>4. Underway(t)'
    BY <1>1, <1>3, GoesOn DEF Types
  <1>5. \A u \in Threads \ {t} : Underway(u)'
    BY <1>1, <1>3, OthersStay DEF Types
  <1>6. OldEntryHeld' /\ DirectoriesGuarded'
    BY <1>1 DEF OldEntryHeld, DirectoriesGuarded, Guarded, NodeHeld
  <1> QED
    BY <1>2, <1>4, <1>5, <1>6

(* The least and the greatest of some numbers. *)
LEMMA Least ==
    ASSUME NEW M \in SUBSET Nat, M # {}
    PROVE  \E m \in M : \A k \in M : m <= k
  <1> DEFINE Less == OpToRel(<, Nat)
  <1>1. IsWellFoundedOn(Less, Nat)
    BY NatLessThanWellFounded
  <1> HIDE DEF Less
  <1>2. PICK m \in M : \A k \in M : <<k, m>> \notin Less
    BY <1>1, WFMin
  <1>3. ASSUME NEW k \in M PROVE m <= k
    <2>1. <<k, m>> \in Less <=> k < m
      BY DEF Less, OpToRel
    <2> QED
      BY <1>2, <2>1
  <1> QED
    BY <1>3

LEMMA Greatest ==
    ASSUME NEW n \in Nat, NEW M \in SUBSET (0..n), M # {}
    PROVE  \E m \in M : \A k \in M : k <= m
  <1> DEFINE R == {n - k : k \in M}
  <1>1. R \in SUBSET Nat /\ R # {}
    <2>1. \A k \in M : n - k \in Nat
      OBVIOUS
    <2>2. PICK k \in M : TRUE
      OBVIOUS
    <2>3. n - k \in R
      OBVIOUS
    <2> QED
      BY <2>1, <2>3
  <1>2. PICK r \in R : \A k \in R : r <= k
    <2> HIDE DEF R
    <2> QED
      BY <1>1, Least
  <1>3. PICK m \in M : r = n - m
    BY <1>2
  <1>4. ASSUME NEW k \in M PROVE k <= m
    <2>1. n - m <= n - k
      BY <1>2, <1>3
    <2> QED
      BY <2>1
  <1> QED
    BY <1>4

(* The entry that is made next is that of a prefix of the path. *)
LEMMA NextMadeIsPrefix ==
    ASSUME NEW i \in Nodes, Missing(i) # {}
    PROVE  NextMade(i) \in 0..i
  <1>1. i \in Nat
    BY DEF Nodes
  <1> DEFINE Best == CHOOSE j \in Missing(i - 1) : \A k \in Missing(i - 1) : k <= j
             sought == IF Missing(i - 1) = {} THEN i ELSE Best
             Block == {j \in Missing(sought) : \A k \in j..sought : k \in Missing(sought)}
  <1>2. sought \in 0..i /\ sought \in Missing(sought)
    <2>1. CASE Missing(i - 1) = {}
      BY <1>1, <2>1 DEF Missing
    <2>2. CASE Missing(i - 1) # {}
      <3>1. i - 1 \in Nat /\ Missing(i - 1) \in SUBSET (0..(i - 1))
        BY <1>1, <2>2 DEF Missing
      <3>2. \E j \in Missing(i - 1) : \A k \in Missing(i - 1) : k <= j
        BY <2>2, <3>1, Greatest
      <3>3. Best \in Missing(i - 1)
        BY <3>2
      <3> HIDE DEF Best
      <3>4. Best \in 0..(i - 1) /\ cache[Best] = "none"
        BY <3>3 DEF Missing
      <3> QED
        BY <1>1, <2>2, <3>4 DEF Missing
    <2> QED
      BY <2>1, <2>2
  <1> HIDE DEF Best
  <1>3. NextMade(i) = CHOOSE j \in Missing(sought) :
                        /\ \A k \in j..sought : k \in Missing(sought)
                        /\ j = 0 \/ j - 1 \notin Missing(sought)
    BY DEF NextMade, Best
  <1> HIDE DEF sought
  <1>4. Block \in SUBSET Nat /\ sought \in Block
    BY <1>2 DEF Missing
  <1>5. PICK m \in Block : \A k \in Block : m <= k
    <2> HIDE DEF Block
    <2> QED
      BY <1>4, Least
  <1>6. m = 0 \/ m - 1 \notin Missing(sought)
    <2>1. SUFFICES ASSUME m - 1 \in Missing(sought), m # 0
                   PROVE  FALSE
      OBVIOUS
    <2>2. m \in Nat /\ m \in 0..sought /\ sought \in Nat
      BY <1>2, <1>4 DEF Missing
    <2>3. \A k \in (m - 1)..sought : k = m - 1 \/ k \in m..sought
      BY <2>2
    <2>4. m - 1 \in Block
      BY <2>1, <2>3
    <2> QED
      BY <1>5, <2>2, <2>4
  <1>7. NextMade(i) \in Missing(sought)
    BY <1>3, <1>5, <1>6
  <1>8. NextMade(i) \in 0..sought
    BY <1>7 DEF Missing
  <1> QED
    BY <1>1, <1>2, <1>8

(* The page of a directory is asked for when that of its node is locked. *)
LEMMA NodeReadFirst ==
    ASSUME NEW t \in Threads, NEW j \in Nodes, Unread(t, j) # {}
    PROVE  /\ Asked(t, j) \in Items
           /\ \A p : Asked(t, j) = D(p) => Guarded(t, p)
  <1> DEFINE k == CHOOSE k \in Unread(t, j) : \A l \in Unread(t, j) : k <= l
  <1>1. Unread(t, j) \in SUBSET (1..3)
    BY DEF Unread, Reads
  <1>2. k \in Unread(t, j) /\ \A l \in Unread(t, j) : k <= l
    <2>1. \E m \in Unread(t, j) : \A l \in Unread(t, j) : m <= l
      BY <1>1
    <2> QED
      BY <2>1
  <1>3. Asked(t, j) = Reads(j)[k]
    BY DEF Asked
  <1> HIDE DEF k
  <1>4. CASE j = 0
    <2>1. k = 1 /\ Reads(j)[k] = N(0)
      BY <1>2, <1>4 DEF Unread, Reads
    <2> QED
      BY <1>3, <1>4, <2>1, PagesLocked
  <1>5. CASE j # 0
    <2>1. Reads(j) = <<N(j - 1), D(EntryPage[j]), N(j)>>
      BY <1>5 DEF Reads
    <2>2. /\ j - 1 \in Nodes /\ j \in 1..Depth
          /\ EntryPage[j] \in DirPages[j - 1]
      BY <1>5, LayoutAssumption, DepthAssumption DEF Nodes
    <2>3. k \in 1..3
      BY <1>1, <1>2
    <2>4. Reads(j)[k] \in Items
      BY <2>1, <2>2, <2>3, PagesLocked
    <2>5. ASSUME NEW p, Reads(j)[k] = D(p) PROVE Guarded(t, p)
      <3>1. k = 2 /\ p = EntryPage[j]
        BY <2>1, <2>3, <2>5, PagesLocked
      <3>2. 1 \notin Unread(t, j) /\ 1 \in DOMAIN Reads(j) /\ Reads(j)[1] = N(j - 1)
        BY <1>2, <2>1, <3>1
      <3>3. NodeHeld(t, j - 1)
        BY <3>2 DEF Unread, NodeHeld
      <3> QED
        BY <2>2, <3>1, <3>3 DEF Guarded
    <2> QED
      BY <1>3, <2>4, <2>5
  <1> QED
    BY <1>4, <1>5

LEMMA LookupKeeps ==
    ASSUME IInv, NEW t \in Threads, Lookup(t)
    PROVE  IInv'
  <1> USE DEF IInv
  <1> DEFINE j == NextMade(Node(t))
  <1>1. UNCHANGED <<mutex, todo, at, valid>>
    BY DEF Lookup
  <1>0. j \in Nodes
    <2>1. Node(t) \in Nodes /\ Missing(Node(t)) # {}
      BY InGetnode, GetnodeOfNode DEF Lookup
    <2> QED
      BY <2>1, NextMadeIsPrefix, DepthAssumption DEF Nodes
  <1>2. \/ cache' = [cache EXCEPT ![j] = "fresh"] /\ holder' = holder
        \/ /\ Unread(t, j) # {} /\ Grantable(t, Asked(t, j)) /\ Granted(t, Asked(t, j))
           /\ cache' = cache
    BY DEF Lookup
  <1> HIDE DEF j
  <1>3. /\ holder' \in [Items -> Threads \cup {NoThread}]
        /\ \A u \in Threads, i \in Nodes : NodeHeld(u, i) => NodeHeld(u, i)'
        /\ DirectoriesGuarded'
    <2>1. CASE holder' = holder
      BY <2>1 DEF Types, NodeHeld, DirectoriesGuarded, Guarded
    <2>2. CASE /\ Unread(t, j) # {}
               /\ Grantable(t, Asked(t, j)) /\ Granted(t, Asked(t, j))
      <3>1. /\ Asked(t, j) \in Items
            /\ \A p : Asked(t, j) = D(p) => Guarded(t, p)
        BY <1>0, <2>2, NodeReadFirst
      <3> QED
        BY <2>2, <3>1, GrantKeeps
    <2> QED
      BY <1>2, <2>1, <2>2
  <1>4. /\ cache' \in [Nodes -> {"none", "fresh", "old"}]
        /\ \A i \in Nodes : cache'[i] = "old" => cache[i] = "old"
    BY <1>2 DEF Types
  <1>5. Types'
    BY <1>1, <1>3, <1>4 DEF Types
  <1>6. \A u \in Threads : Underway(u)'
    BY <1>1, <1>3, StaysUnderway
  <1>7. OldEntryHeld'
    BY <1>1, <1>3, <1>4, OldStaysHeld
  <1> QED
    BY <1>3, <1>5, <1>6, <1>7

LEMMA LeaveKeeps ==
    ASSUME IInv, NEW t \in Threads, Leave(t)
    PROVE  IInv'
  <1> USE DEF IInv
  <1>1. PICK gone \in SUBSET (Nodes \ {Node(t)}) :
           /\ cache' = [i \in Nodes |-> IF i \in gone THEN "none" ELSE cache[i]]
           /\ valid' = [Invalidated(gone) EXCEPT ![t] = TRUE]
    BY DEF Leave
  <1>2. /\ at[t] = "inside" /\ at' = [at EXCEPT ![t] = "using"]
        /\ mutex' = NoThread
        /\ UNCHANGED <<holder, todo>>
    BY DEF Leave
  <1>3. valid' \in [Threads -> BOOLEAN]
    <2>1. Invalidated(gone) \in [Threads -> BOOLEAN]
      BY DEF Invalidated, Types
    <2> QED
      BY <1>1, <2>1
  <1>4. /\ cache' \in [Nodes -> {"none", "fresh", "old"}]
        /\ \A i \in Nodes : cache'[i] = "old" => cache[i] = "old"
    BY <1>1 DEF Types
  <1>5. \A u \in Threads : at'[u] = "inside" <=> mutex' = u
    BY <1>2, ThreadsNotNone DEF Types
  <1>6. Types'
    BY <1>2, <1>3, <1>4, <1>5 DEF Types, Places
  <1>7. \A u \in Threads, i \in Nodes : NodeHeld(u, i) => NodeHeld(u, i)'
    BY <1>2 DEF NodeHeld
  <1>8. Underway(t)'
    BY <1>2, <1>7, InGetnode, GoesOn DEF Types
  <1>9. \A u \in Threads \ {t} : Underway(u)'
    BY <1>2, <1>7, OthersStay DEF Types
  <1>10. OldEntryHeld'
    BY <1>2, <1>4, <1>7, OldStaysHeld
  <1>11. DirectoriesGuarded'
    BY <1>2 DEF DirectoriesGuarded, Guarded, NodeHeld
  <1> QED
    BY <1>6, <1>8, <1>9, <1>10, <1>11

(* After getnode the handler relies on the lock that getnode has left it. *)
LEMMA GetnodeReturns ==
    ASSUME NEW t \in Threads, Underway(t), Calling(t, "getnode"),
           todo'[t] = Tail(todo[t]), at'[t] = "outside",
           holder'[N(Node(t))] = t,
           \A i \in Nodes : NodeHeld(t, i) => NodeHeld(t, i)'
    PROVE  Underway(t)'
  <1>1. CASE Begun(todo[t])
    <2>1. PICK i \in Nodes : BegunWith(todo[t], i)
      BY <1>1 DEF Begun
    <2>2. Node(t) = i
      BY <2>1, FirstBegun DEF Node
    <2>3. NodeHeld(t, i)'
      BY <2>2 DEF NodeHeld
    <2>4. \/ todo'[t] = <<>>
          \/ todo'[t] = <<S(i), I(i)>>
          \/ \E p \in DirPages[i] :
                \/ todo'[t] = <<A(i, p)>>
                \/ todo'[t] = <<G(Depth), A(i, p)>>
                \/ \E r \in DirPages[i] : todo'[t] = <<A(i, p), A(i, r)>>
      <3> HIDE DEF G, S, I, A
      <3>1. /\ Tail(<<G(i)>>) = <<>> /\ Tail(<<G(i), S(i), I(i)>>) = <<S(i), I(i)>>
            /\ \A p, r :
                  /\ Tail(<<G(i), A(i, p)>>) = <<A(i, p)>>
                  /\ Tail(<<G(i), G(Depth), A(i, p)>>) = <<G(Depth), A(i, p)>>
                  /\ Tail(<<G(i), A(i, p), A(i, r)>>) = <<A(i, p), A(i, r)>>
        BY ShortLists
      <3>2. CASE todo[t] = <<G(i)>> \/ todo[t] = <<G(i), S(i), I(i)>>
        BY <3>1, <3>2
      <3>3. ASSUME NEW p \in DirPages[i],
                   \/ todo[t] = <<G(i), A(i, p)>>
                   \/ todo[t] = <<G(i), G(Depth), A(i, p)>>
            PROVE  todo'[t] = <<A(i, p)>> \/ todo'[t] = <<G(Depth), A(i, p)>>
        BY <3>1, <3>3
      <3>4. ASSUME NEW p \in DirPages[i], NEW r \in DirPages[i],
                   todo[t] = <<G(i), A(i, p), A(i, r)>>
            PROVE  todo'[t] = <<A(i, p), A(i, r)>>
        BY <3>1, <3>4
      <3> QED
        BY <2>1, <3>2, <3>3, <3>4 DEF BegunWith
    <2>5. CASE todo'[t] = <<>>
      BY <2>5 DEF Underway
    <2>6. CASE Resolved(todo'[t], i)
      BY <2>3, <2>6 DEF Underway, Resolved
    <2> QED
      BY <2>4, <2>5, <2>6 DEF Resolved
  <1>2. CASE \E i \in Nodes : Resolved(todo[t], i) /\ NodeHeld(t, i)
    <2>1. PICK i \in Nodes : Resolved(todo[t], i) /\ NodeHeld(t, i)
      BY <1>2
    <2>2. PICK p \in DirPages[i] : todo[t] = <<G(Depth), A(i, p)>>
      <3>1. Head(todo[t])[1] = "getnode"
        BY DEF Calling
      <3> QED
        BY <2>1, <3>1, FirstResolved
    <2>3. todo'[t] = <<A(i, p)>>
      BY <2>2, ShortLists
    <2>4. Resolved(todo'[t], i) /\ NodeHeld(t, i)'
      BY <2>1, <2>3 DEF Resolved
    <2> QED
      BY <2>4 DEF Underway, Resolved
  <1> QED
    BY <1>1, <1>2 DEF Underway, Calling

LEMMA UseKeeps ==
    ASSUME IInv, NEW t \in Threads, Use(t)
    PROVE  IInv'
  <1> USE DEF IInv
  <1> DEFINE x == N(Node(t))
  <1>1. /\ at[t] = "using" /\ Grantable(t, x) /\ Granted(t, x)
        /\ todo' = [todo EXCEPT ![t] = Tail(todo[t])]
        /\ at' = [at EXCEPT ![t] = "outside"]
        /\ UNCHANGED <<mutex, cache, valid>>
    BY DEF Use, Return
  <1>2. Calling(t, "getnode")
    BY <1>1, InGetnode
  <1>3. x \in Items /\ \A p : x = D(p) => Guarded(t, p)
    BY <1>2, GetnodeOfNode, PagesLocked
  <1>4. /\ holder' \in [Items -> Threads \cup {NoThread}]
        /\ \A u \in Threads, i \in Nodes : NodeHeld(u, i) => NodeHeld(u, i)'
        /\ DirectoriesGuarded'
    <2> HIDE DEF x
    <2> QED
      BY <1>1, <1>3, GrantKeeps
  <1>5. holder'[x] = t
    <2>1. Node(t) \in Nodes
      BY <1>2, GetnodeOfNode
    <2>2. x \in Items
      BY <2>1, PagesLocked
    <2> HIDE DEF x
    <2> QED
      BY <1>1, <2>2 DEF Granted, Types
  <1>6. Types'
    BY <1>1, <1>4 DEF Types, Places
  <1>7. Underway(t)'
    BY <1>1, <1>2, <1>4, <1>5, GetnodeReturns DEF Types
  <1>8. \A u \in Threads \ {t} : Underway(u)'
    BY <1>1, <1>4, OthersStay DEF Types
  <1>9. OldEntryHeld'
    BY <1>1, <1>2, <1>4, OldStaysHeld DEF Types
  <1> QED
    BY <1>4, <1>6, <1>7, <1>8, <1>9

(* The process dies: nothing is left of locks, lists and entries. *)
LEMMA UseDeletedKeeps ==
    ASSUME IInv, NEW t \in Threads, UseDeleted(t)
    PROVE  IInv'
  <1> USE DEF IInv, UseDeleted
  <1>1. Types'
    BY ThreadsNotNone DEF Types, Places
  <1>2. \A u \in Threads : Underway(u)'
    BY DEF Underway
  <1>3. OldEntryHeld'
    BY DEF OldEntryHeld
  <1>4. DirectoriesGuarded'
    BY PagesLocked DEF DirectoriesGuarded
  <1> QED
    BY <1>1, <1>2, <1>3, <1>4

-----------------------------------------------------------------------------
(* The calls after getnode. *)

(* Each is made with the lock of the node that it is about. *)
LEMMA AfterGetnode ==
    ASSUME NEW t \in Threads, Underway(t), ~Calling(t, "getnode"), todo[t] # <<>>
    PROVE  /\ at[t] = "outside"
           /\ \E i \in Nodes :
                 /\ NodeHeld(t, i) /\ Node(t) = i
                 /\ \/ todo[t] = <<S(i), I(i)>> /\ Calling(t, "setattr")
                    \/ todo[t] = <<I(i)>> /\ Calling(t, "invalidate")
                    \/ /\ Page(t) \in DirPages[i] /\ Calling(t, "addchild")
                       /\ \/ todo[t] = <<A(i, Page(t))>>
                          \/ \E r \in DirPages[i] : todo[t] = <<A(i, Page(t)), A(i, r)>>
  <1>1. ~Begun(todo[t])
    BY FirstBegun DEF Begun, Calling
  <1>2. /\ at[t] = "outside"
        /\ \E i \in Nodes : Resolved(todo[t], i) /\ NodeHeld(t, i)
    BY <1>1 DEF Underway
  <1>3. PICK i \in Nodes : Resolved(todo[t], i) /\ NodeHeld(t, i)
    BY <1>2
  <1> HIDE DEF S, I, A
  <1> QED
    BY <1>2, <1>3, FirstResolved DEF Node, Page, Calling

(* A thread is in one call at a time. *)
LEMMA OneCall ==
    ASSUME NEW t, NEW c, NEW d, Calling(t, c), Calling(t, d)
    PROVE  c = d
  BY DEF Calling

LEMMA SetattrKeeps ==
    ASSUME IInv, NEW t \in Threads, Setattr(t)
    PROVE  IInv'
  <1> USE DEF IInv
  <1>1. /\ Calling(t, "setattr") /\ at[t] = "outside"
        /\ cache' = [cache EXCEPT ![Node(t)] = IF cache[Node(t)] = "none" THEN "none" ELSE "old"]
        /\ todo' = [todo EXCEPT ![t] = Tail(todo[t])]
        /\ at' = [at EXCEPT ![t] = "outside"]
        /\ UNCHANGED <<mutex, holder, valid>>
    BY DEF Setattr, Return
  <1>2. PICK i \in Nodes :
           NodeHeld(t, i) /\ Node(t) = i /\ todo[t] = <<S(i), I(i)>>
    <2>1. ~Calling(t, "getnode") /\ ~Calling(t, "invalidate") /\ ~Calling(t, "addchild")
      BY <1>1, OneCall
    <2>2. todo[t] # <<>>
      BY <1>1 DEF Calling
    <2> QED
      BY <2>1, <2>2, AfterGetnode
  <1>3. todo'[t] = <<I(i)>>
    BY <1>1, <1>2, ShortLists DEF Types
  <1>4. Types'
    BY <1>1 DEF Types, Places
  <1>5. \A u \in Threads, k \in Nodes : NodeHeld(u, k) => NodeHeld(u, k)'
    BY <1>1 DEF NodeHeld
  <1>6. Underway(t)'
    <2>1. at'[t] = "outside" /\ Resolved(todo'[t], i) /\ NodeHeld(t, i)'
      BY <1>1, <1>2, <1>3, <1>5 DEF Types, Resolved
    <2> QED
      BY <2>1 DEF Underway, Resolved
  <1>7. \A u \in Threads \ {t} : Underway(u)'
    BY <1>1, <1>5, OthersStay DEF Types
  <1>8. OldEntryHeld'
    <2>1. SUFFICES ASSUME NEW k \in Nodes, cache'[k] = "old"
                   PROVE  /\ holder[N(k)] \in Threads
                          /\ todo'[holder[N(k)]] = <<I(k)>>
      BY <1>1 DEF OldEntryHeld, I
    <2>2. CASE k = i
      BY <1>2, <1>3, <2>2 DEF NodeHeld
    <2>3. CASE k # i
      <3>1. cache[k] = "old"
        BY <1>1, <1>2, <2>1, <2>3 DEF Types
      <3>2. /\ holder[N(k)] \in Threads
            /\ todo[holder[N(k)]] = <<I(k)>>
        BY <3>1 DEF OldEntryHeld
      <3>3. holder[N(k)] # t
        BY <1>2, <3>2 DEF S, I
      <3> QED
        BY <1>1, <3>2, <3>3 DEF Types
    <2> QED
      BY <2>2, <2>3
  <1>9. DirectoriesGuarded'
    BY <1>1 DEF DirectoriesGuarded, Guarded, NodeHeld
  <1> QED
    BY <1>4, <1>6, <1>7, <1>8, <1>9

LEMMA InvalidateKeeps ==
    ASSUME IInv, NEW t \in Threads, Invalidate(t)
    PROVE  IInv'
  <1> USE DEF IInv
  <1>1. /\ Calling(t, "invalidate") /\ at[t] = "outside"
        /\ cache' = [cache EXCEPT ![Node(t)] = "none"]
        /\ valid' = Invalidated({Node(t)})
        /\ todo' = [todo EXCEPT ![t] = Tail(todo[t])]
        /\ at' = [at EXCEPT ![t] = "outside"]
        /\ UNCHANGED <<mutex, holder>>
    BY DEF Invalidate, Return
  <1>2. PICK i \in Nodes :
           NodeHeld(t, i) /\ Node(t) = i /\ todo[t] = <<I(i)>>
    <2>1. ~Calling(t, "getnode") /\ ~Calling(t, "setattr") /\ ~Calling(t, "addchild")
      BY <1>1, OneCall
    <2>2. todo[t] # <<>>
      BY <1>1 DEF Calling
    <2> QED
      BY <2>1, <2>2, AfterGetnode
  <1>3. todo'[t] = <<>>
    BY <1>1, <1>2, ShortLists DEF Types
  <1>4. valid' \in [Threads -> BOOLEAN]
    BY <1>1 DEF Invalidated
  <1>5. Types'
    BY <1>1, <1>4 DEF Types, Places
  <1>6. \A u \in Threads, k \in Nodes : NodeHeld(u, k) => NodeHeld(u, k)'
    BY <1>1 DEF NodeHeld
  <1>7. Underway(t)'
    BY <1>1, <1>3 DEF Underway, Types
  <1>8. \A u \in Threads \ {t} : Underway(u)'
    BY <1>1, <1>6, OthersStay DEF Types
  <1>9. OldEntryHeld'
    <2>1. SUFFICES ASSUME NEW k \in Nodes, cache'[k] = "old"
                   PROVE  /\ holder[N(k)] \in Threads
                          /\ todo'[holder[N(k)]] = <<I(k)>>
      BY <1>1 DEF OldEntryHeld, I
    <2>2. k # i /\ cache[k] = "old"
      BY <1>1, <1>2, <2>1 DEF Types
    <2>3. /\ holder[N(k)] \in Threads
          /\ todo[holder[N(k)]] = <<I(k)>>
      BY <2>2 DEF OldEntryHeld
    <2>4. <<I(k)>> # <<I(i)>>
      BY <2>2 DEF I
    <2>5. holder[N(k)] # t
      BY <1>2, <2>3, <2>4
    <2> QED
      BY <1>1, <2>3, <2>5 DEF Types
  <1>10. DirectoriesGuarded'
    BY <1>1 DEF DirectoriesGuarded, Guarded, NodeHeld
  <1> QED
    BY <1>5, <1>7, <1>8, <1>9, <1>10

LEMMA AddchildKeeps ==
    ASSUME IInv, NEW t \in Threads, Addchild(t)
    PROVE  IInv'
  <1> USE DEF IInv
  <1> DEFINE x == D(Page(t))
  <1>1. /\ Calling(t, "addchild") /\ Grantable(t, x) /\ Granted(t, x)
        /\ todo' = [todo EXCEPT ![t] = Tail(todo[t])]
        /\ at' = [at EXCEPT ![t] = "outside"]
        /\ at[t] = "outside"
        /\ UNCHANGED <<mutex, cache, valid>>
    BY DEF Addchild, Return
  <1>2. PICK i \in Nodes :
           /\ NodeHeld(t, i) /\ Page(t) \in DirPages[i]
           /\ \/ todo[t] = <<A(i, Page(t))>>
              \/ \E r \in DirPages[i] : todo[t] = <<A(i, Page(t)), A(i, r)>>
    <2>1. ~Calling(t, "getnode") /\ ~Calling(t, "setattr") /\ ~Calling(t, "invalidate")
      BY <1>1, OneCall
    <2>2. todo[t] # <<>>
      BY <1>1 DEF Calling
    <2> QED
      BY <2>1, <2>2, AfterGetnode
  <1>3. todo'[t] = <<>> \/ \E r \in DirPages[i] : todo'[t] = <<A(i, r)>>
    <2> HIDE DEF A
    <2>1. todo'[t] = Tail(todo[t])
      BY <1>1 DEF Types
    <2>2. CASE todo[t] = <<A(i, Page(t))>>
      BY <2>1, <2>2, ShortLists
    <2>3. ASSUME NEW r \in DirPages[i], todo[t] = <<A(i, Page(t)), A(i, r)>>
          PROVE  todo'[t] = <<A(i, r)>>
      BY <2>1, <2>3, ShortLists
    <2> QED
      BY <1>2, <2>2, <2>3
  <1>4. x \in Items /\ \A p : x = D(p) => Guarded(t, p)
    BY <1>2, PagesLocked DEF Guarded
  <1>5. /\ holder' \in [Items -> Threads \cup {NoThread}]
        /\ \A u \in Threads, k \in Nodes : NodeHeld(u, k) => NodeHeld(u, k)'
        /\ DirectoriesGuarded'
    <2> HIDE DEF x
    <2> QED
      BY <1>1, <1>4, GrantKeeps
  <1>6. Types'
    BY <1>1, <1>5 DEF Types, Places
  <1>7. Underway(t)'
    <2>1. at'[t] = "outside" /\ NodeHeld(t, i)'
      BY <1>1, <1>2, <1>5 DEF Types
    <2>2. CASE todo'[t] = <<>>
      BY <2>1, <2>2 DEF Underway
    <2>3. CASE \E r \in DirPages[i] : todo'[t] = <<A(i, r)>>
      <3>1. Resolved(todo'[t], i)
        BY <2>3 DEF Resolved
      <3> QED
        BY <2>1, <3>1 DEF Underway, Resolved
    <2> QED
      BY <1>3, <2>2, <2>3
  <1>8. \A u \in Threads \ {t} : Underway(u)'
    BY <1>1, <1>5, OthersStay DEF Types
  <1>9. OldEntryHeld'
    <2>1. SUFFICES ASSUME NEW k \in Nodes, cache[k] = "old"
                   PROVE  /\ holder'[N(k)] \in Threads
                          /\ todo'[holder'[N(k)]] = <<I(k)>>
      BY <1>1 DEF OldEntryHeld, I
    <2> DEFINE u == holder[N(k)]
    <2>2. u \in Threads /\ todo[u] = <<I(k)>>
      BY <2>1 DEF OldEntryHeld
    <2>3. \A p, r : <<I(k)>> # <<A(i, p)>> /\ <<I(k)>> # <<A(i, p), A(i, r)>>
      BY DEF I, A
    <2>4. u # t
      BY <1>2, <2>2, <2>3
    <2>5. holder'[N(k)] = u
      BY <1>5, <2>2 DEF NodeHeld
    <2> QED
      BY <1>1, <2>2, <2>4, <2>5 DEF Types
  <1> QED
    BY <1>5, <1>6, <1>7, <1>8, <1>9

(* Who is about to remove an outdated entry waits for no lock, and so is not *)
(* the one to give way.                                                      *)
LEMMA VictimAsks ==
    ASSUME NEW t \in Threads, Detected(t)
    PROVE  LockAsked(t) # {}
  <1>1. PICK db \in {"nodes", "directories"} : WaitsIn(t, db) # {}
    BY DEF Detected, Stuck
  <1> QED
    BY <1>1 DEF WaitsIn

LEMMA RemoverAsksNothing ==
    ASSUME NEW t \in Threads, Underway(t), NEW i \in Nodes, todo[t] = <<I(i)>>
    PROVE  LockAsked(t) = {}
  <1>2. ~Calling(t, "getnode") /\ ~Calling(t, "addchild") /\ todo[t] # <<>>
    BY OnlyInvalidates DEF Calling
  <1>3. at[t] = "outside"
    BY <1>2, AfterGetnode
  <1> QED
    BY <1>2, <1>3 DEF LockAsked

LEMMA VictimKeeps ==
    ASSUME IInv, NEW t \in Threads, Victim(t)
    PROVE  IInv'
  <1> USE DEF IInv
  <1>1. /\ Detected(t)
        /\ mutex' = IF mutex = t THEN NoThread ELSE mutex
        /\ holder' = [x \in Items |-> IF holder[x] = t THEN NoThread ELSE holder[x]]
        /\ todo' = [todo EXCEPT ![t] = <<>>]
        /\ at' = [at EXCEPT ![t] = "idle"]
        /\ UNCHANGED <<cache, valid>>
    BY DEF Victim
  <1>2. /\ holder' \in [Items -> Threads \cup {NoThread}]
        /\ \A u \in Threads \ {t}, i \in Nodes : NodeHeld(u, i) => NodeHeld(u, i)'
        /\ DirectoriesGuarded'
    BY <1>1, ReleaseKeeps
  <1>3. \A u \in Threads : at'[u] = "inside" <=> mutex' = u
    BY <1>1, ThreadsNotNone DEF Types
  <1>4. Types'
    BY <1>1, <1>2, <1>3 DEF Types, Places
  <1>5. ASSUME NEW u \in Threads
        PROVE  Underway(u)'
    <2>1. CASE u = t
      BY <1>1, <2>1 DEF Underway, Types
    <2>2. CASE u # t
      BY <1>1, <1>2, <2>2, StaysUnderway DEF Types
    <2> QED
      BY <2>1, <2>2
  <1>6. OldEntryHeld'
    <2>1. SUFFICES ASSUME NEW k \in Nodes, cache[k] = "old"
                   PROVE  /\ holder'[N(k)] \in Threads
                          /\ todo'[holder'[N(k)]] = <<I(k)>>
      BY <1>1 DEF OldEntryHeld, I
    <2> DEFINE u == holder[N(k)]
    <2>2. u \in Threads /\ todo[u] = <<I(k)>>
      BY <2>1 DEF OldEntryHeld
    <2>3. u # t
      BY <1>1, <2>2, VictimAsks, RemoverAsksNothing
    <2>4. holder'[N(k)] = u
      BY <1>2, <2>2, <2>3 DEF NodeHeld
    <2> QED
      BY <1>1, <2>2, <2>3, <2>4 DEF Types
  <1> QED
    BY <1>2, <1>4, <1>5, <1>6

-----------------------------------------------------------------------------
(* The invariant. *)

LEMMA InitKeeps ==
    ASSUME Init
    PROVE  IInv
  <1> USE DEF Init
  <1>1. Types
    BY ThreadsNotNone DEF Types, Places
  <1>2. \A t \in Threads : Underway(t)
    BY DEF Underway
  <1>3. OldEntryHeld
    BY DEF OldEntryHeld
  <1>4. DirectoriesGuarded
    BY PagesLocked DEF DirectoriesGuarded
  <1> QED
    BY <1>1, <1>2, <1>3, <1>4 DEF IInv

LEMMA NextKeeps ==
    ASSUME IInv, [Next]_vars
    PROVE  IInv'
  <1>1. ASSUME NEW t \in Threads, Step(t)
        PROVE  IInv'
    <2>1. CASE Start(t) \/ End(t)
      BY <2>1, StartKeeps, EndKeeps
    <2>2. CASE Enter(t) \/ Lookup(t) \/ Leave(t)
      BY <2>2, EnterKeeps, LookupKeeps, LeaveKeeps
    <2>3. CASE Use(t) \/ UseDeleted(t)
      BY <2>3, UseKeeps, UseDeletedKeeps
    <2>4. CASE Setattr(t) \/ Invalidate(t) \/ Addchild(t)
      BY <2>4, SetattrKeeps, InvalidateKeeps, AddchildKeeps
    <2>5. CASE Victim(t)
      BY <2>5, VictimKeeps
    <2> QED
      BY <1>1, <2>1, <2>2, <2>3, <2>4, <2>5 DEF Step
  <1>2. CASE UNCHANGED vars
    <2>1. UNCHANGED <<mutex, holder, cache, todo, at, valid>>
      BY <1>2 DEF vars
    <2>2. Types' /\ DirectoriesGuarded'
      BY <2>1 DEF IInv, Types, DirectoriesGuarded, Guarded, NodeHeld
    <2>3. \A u \in Threads : Underway(u)'
      BY <2>1, StaysUnderway DEF IInv, NodeHeld
    <2>4. OldEntryHeld'
      BY <2>1 DEF IInv, OldEntryHeld, I
    <2> QED
      BY <2>2, <2>3, <2>4 DEF IInv
  <1> QED
    BY <1>1, <1>2 DEF Next

(* What is left of a handler consists of calls of the cache and the nodes. *)
LEMMA ListsOfCalls ==
    ASSUME NEW t \in Threads, Underway(t)
    PROVE  \A k \in DOMAIN todo[t] : todo[t][k] \in Calls
  <1>1. Depth \in Nodes
    BY DepthAssumption DEF Nodes
  <1>2. \A i \in Nodes : /\ G(i) \in Calls /\ S(i) \in Calls /\ I(i) \in Calls
                       /\ \A p \in DirPages[i] : A(i, p) \in Calls
    BY DEF G, S, I, A, Calls
  <1>3. CASE todo[t] = <<>>
    BY <1>3
  <1>4. CASE \E i \in Nodes : BegunWith(todo[t], i)
    <2>1. PICK i \in Nodes : BegunWith(todo[t], i)
      BY <1>4
    <2> HIDE DEF G, S, I, A
    <2> QED
      BY <1>1, <1>2, <2>1 DEF BegunWith
  <1>5. CASE \E i \in Nodes : Resolved(todo[t], i)
    <2>1. PICK i \in Nodes : Resolved(todo[t], i)
      BY <1>5
    <2> HIDE DEF G, S, I, A
    <2> QED
      BY <1>1, <1>2, <2>1 DEF Resolved
  <1> QED
    BY <1>3, <1>4, <1>5 DEF Underway, Begun

(* Who asks for a page of the directories has come there by a node, too. *)
LEMMA AskedByNode ==
    ASSUME IInv, NEW t \in Threads, NEW x \in LockAsked(t), x[1] = "directories"
    PROVE  \E p \in UNION {DirPages[i] : i \in Nodes} : x = D(p) /\ Guarded(t, p)
  <1>1. Underway(t)
    BY DEF IInv
  <1>2. \A i : N(i)[1] # "directories"
    BY DEF N
  <1>3. CASE at[t] = "inside" /\ Missing(Node(t)) # {}
    <2>1. NextMade(Node(t)) \in Nodes
      BY <1>1, <1>3, InGetnode, GetnodeOfNode, NextMadeIsPrefix, DepthAssumption DEF Nodes
    <2>2. Unread(t, NextMade(Node(t))) # {} /\ x = Asked(t, NextMade(Node(t)))
      BY <1>3 DEF LockAsked
    <2>3. x \in Items /\ \A p : x = D(p) => Guarded(t, p)
      BY <2>1, <2>2, NodeReadFirst
    <2> QED
      BY <1>2, <2>3 DEF Items
  <1>4. CASE at[t] = "outside" /\ Calling(t, "addchild")
    <2>1. x = D(Page(t))
      BY <1>4 DEF LockAsked
    <2>2. \E i \in Nodes : NodeHeld(t, i) /\ Page(t) \in DirPages[i]
      <3>1. ~Calling(t, "getnode") /\ ~Calling(t, "setattr") /\ ~Calling(t, "invalidate")
        BY <1>4, OneCall
      <3>2. todo[t] # <<>>
        BY <1>4 DEF Calling
      <3> QED
        BY <1>1, <3>1, <3>2, AfterGetnode
    <2> QED
      BY <2>1, <2>2 DEF Guarded
  <1> QED
    BY <1>2, <1>3, <1>4 DEF LockAsked

LEMMA NeighbourInTheWay ==
    ASSUME IInv, NEW t \in Threads, NEW u \in WaitsIn(t, "directories")
    PROVE  \E i, k \in Nodes :
              /\ i # k /\ holder[N(i)] = t /\ holder[N(k)] = u
              /\ \E p \in DirPages[i] \cap DirPages[k] : holder[D(p)] = u
  <1>1. PICK x \in LockAsked(t) : x[1] = "directories" /\ u = holder[x]
    BY DEF WaitsIn
  <1>2. PICK p \in UNION {DirPages[i] : i \in Nodes} : x = D(p) /\ Guarded(t, p)
    BY <1>1, AskedByNode
  <1>3. u # t /\ u # NoThread
    BY DEF WaitsIn
  <1>4. Guarded(u, p)
    BY <1>1, <1>2, <1>3 DEF IInv, DirectoriesGuarded
  <1>5. PICK i \in Nodes : p \in DirPages[i] /\ holder[N(i)] = t
    BY <1>2 DEF Guarded, NodeHeld
  <1>6. PICK k \in Nodes : p \in DirPages[k] /\ holder[N(k)] = u
    BY <1>4 DEF Guarded, NodeHeld
  <1> QED
    BY <1>1, <1>2, <1>3, <1>5, <1>6

(* What the runs check follows from the invariant. *)
LEMMA Consequences ==
    ASSUME IInv
    PROVE  TypeOK /\ OldEntriesGo /\ DirectoryWaitsForNeighbour
  <1> USE DEF IInv
  <1>1. TypeOK
    BY ListsOfCalls DEF TypeOK, Types, Places
  <1>2. OldEntriesGo
    <2>1. SUFFICES ASSUME NEW i \in Nodes, cache[i] = "old"
                   PROVE  /\ holder[N(i)] # NoThread
                          /\ \E k \in DOMAIN todo[holder[N(i)]] :
                                todo[holder[N(i)]][k] = <<"invalidate", i>>
      BY DEF OldEntriesGo
    <2> DEFINE u == holder[N(i)]
    <2>2. u \in Threads /\ todo[u] = <<I(i)>>
      BY <2>1 DEF OldEntryHeld
    <2>3. 1 \in DOMAIN todo[u] /\ todo[u][1] = I(i)
      BY <2>2
    <2> QED
      BY <2>2, <2>3, ThreadsNotNone DEF I
  <1>3. DirectoryWaitsForNeighbour
    BY NeighbourInTheWay DEF DirectoryWaitsForNeighbour
  <1> QED
    BY <1>1, <1>2, <1>3

(* For every number of threads and every depth of the tree. *)
THEOREM Invariance == Spec => []IInv
  <1>1. Init => IInv
    BY InitKeeps
  <1>2. IInv /\ [Next]_vars => IInv'
    BY NextKeeps
  <1> QED
    BY <1>1, <1>2, PTL DEF Spec

(* PathCache_hash::mutex is held by the thread inside of getnode and by no   *)
(* other, also after a request for a lock in there has failed: the handler   *)
(* that catches the exception has unlocked it.                               *)
THEOREM TypeCorrect == Spec => []TypeOK
  <1>1. IInv => TypeOK
    BY Consequences
  <1> QED
    BY <1>1, Invariance, PTL

(* chmod, chown and setxattr invalidate the path after they have written: an *)
(* entry that does not agree with its register is there only while the lock  *)
(* of that register keeps every other handler from it, whoever is made to    *)
(* give way by Berkeley DB's deadlock detector meanwhile.                    *)
THEOREM OldEntriesGone == Spec => []OldEntriesGo
  <1>1. IInv => OldEntriesGo
    BY Consequences
  <1> QED
    BY <1>1, Invariance, PTL

(* initEntry and getnode read the register of a node before anyone touches   *)
(* the entries of the directory, in the database of another transaction: two *)
(* handlers never wait there over the same directory, and only a page with   *)
(* entries of two directories lets a circle of locks span both databases.    *)
THEOREM NeighboursOnly == Spec => []DirectoryWaitsForNeighbour
  <1>1. IInv => DirectoryWaitsForNeighbour
    BY Consequences
  <1> QED
    BY <1>1, Invariance, PTL

(* What a thread has found goes while it reads it only in three ways: getnode *)
(* of another thread makes room, a writer that has the register locked        *)
(* invalidates it, or the process dies.                                       *)
LEMMA UsedEntryStep ==
    ASSUME IInv, NEW t \in Threads, NEW u \in Threads, Step(u),
           at[t] = "using", valid[t], at'[t] = "using", ~valid'[t]
    PROVE  \/ u # t /\ at[u] = "inside" /\ at'[u] = "using"
           \/ holder[N(Node(t))] \in Threads \ {t}
  <1> USE DEF IInv
  <1>1. CASE Start(u) \/ End(u) \/ Enter(u) \/ Lookup(u) \/ Use(u) \/ Setattr(u)
             \/ Addchild(u) \/ Victim(u)
    BY <1>1 DEF Start, End, Enter, Lookup, Use, Setattr, Addchild, Victim
  <1>2. CASE Leave(u)
    <2>1. at[u] = "inside" /\ at' = [at EXCEPT ![u] = "using"]
      BY <1>2 DEF Leave
    <2> QED
      BY <2>1 DEF Types
  <1>3. CASE UseDeleted(u)
    BY <1>3 DEF UseDeleted
  <1>4. CASE Invalidate(u)
    <2>1. /\ Calling(u, "invalidate") /\ at[u] = "outside"
          /\ valid' = Invalidated({Node(u)})
      BY <1>4 DEF Invalidate
    <2>2. u # t /\ Node(t) = Node(u)
      BY <2>1 DEF Invalidated
    <2>3. PICK i \in Nodes : NodeHeld(u, i) /\ Node(u) = i
      <3>1. ~Calling(u, "getnode") /\ todo[u] # <<>>
        BY <2>1, OneCall DEF Calling
      <3> QED
        BY <3>1, AfterGetnode
    <2> QED
      BY <2>2, <2>3 DEF NodeHeld
  <1> QED
    BY <1>1, <1>2, <1>3, <1>4 DEF Step

(* The entry that getnode has let go of the mutex with, and goes on to read   *)
(* (pathcache.cxx, the last line of getnode): a thread that has the register  *)
(* of that node locked loses it to another thread's need of room only.        *)
THEOREM UsedEntryLostOnly == Spec => UsedEntryLost
  <1> DEFINE B == \A t \in Threads :
          at[t] = "using" /\ valid[t] /\ at'[t] = "using" /\ ~valid'[t] =>
              \/ \E u \in Threads \ {t} : at[u] = "inside" /\ at'[u] = "using"
              \/ holder[N(Node(t))] \in Threads \ {t}
  <1>1. IInv /\ [Next]_vars => [B]_vars
    <2>1. ASSUME IInv, Next
          PROVE  B
      BY <2>1, UsedEntryStep DEF Next
    <2> QED
      BY <2>1
  <1>2. Spec => [][B]_vars
    BY <1>1, Invariance, PTL DEF Spec
  <1> QED
    BY <1>2 DEF UsedEntryLost

=============================================================================
