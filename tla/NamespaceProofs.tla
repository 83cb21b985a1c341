--------------------------- MODULE NamespaceProofs ---------------------------
(***************************************************************************)
(* Proofs about Namespace, for every set of names and every bound on ids:  *)
(* the types of the two databases, the agreement of the "nlink" attributes *)
(* with the directories, the tree that the directories form, and that the  *)
(* handlers implement FsTree.                                              *)
(***************************************************************************)
EXTENDS Namespace, FiniteSetTheorems, WellFoundedInduction, TLAPS

States == [kind  : [Ids -> Kinds],
           nlink : [Ids -> Nat],
           dirs  : [Keys -> Ids \cup {NoNode}]]

RefsIn(f, n) == {k \in Keys : f[k] = n}

(* Between two methods of a handler the link counts are exact already; the  *)
(* parts below are restored only at the end of the handler.                 *)
Exact(s) == \A n \in Ids : s.nlink[n] = Cardinality(RefsIn(s.dirs, n))

Owned(s) == \A k \in Keys : s.dirs[k] # NoNode => s.kind[k[1]] = "dir"

DotsHeld(s) ==
    \A d \in Ids :
        s.kind[d] = "dir" =>
            /\ s.dirs[<<d, ".">>] = d
            /\ s.dirs[<<d, "..">>] \in Ids
            /\ s.kind[s.dirs[<<d, "..">>]] = "dir"

LiveIffLinked(s) == \A n \in Ids : s.kind[n] = "free" <=> s.nlink[n] = 0

(* The root is its own parent and has no name. *)
Rooted(s) ==
    /\ s.kind[Root] = "dir"
    /\ s.dirs[<<Root, "..">>] = Root
    /\ \A k \in Keys : k[2] \in Names => s.dirs[k] # Root

(* A directory has one name, and has it in its parent. *)
OneName(s) ==
    \A j, k \in Keys :
        (/\ j[2] \in Names /\ k[2] \in Names
         /\ s.dirs[j] = s.dirs[k] /\ s.dirs[k] # NoNode
         /\ s.kind[s.dirs[k]] = "dir") => j = k

NamedByParent(s) ==
    \A d \in Ids :
        (s.kind[d] = "dir" /\ d # Root) =>
            \E m \in Names : s.dirs[<<s.dirs[<<d, "..">>], m>>] = d

Good(s) ==
    /\ s \in States
    /\ Exact(s)
    /\ Owned(s) /\ DotsHeld(s) /\ LiveIffLinked(s)
    /\ Rooted(s) /\ OneName(s) /\ NamedByParent(s)

(* The inductive invariant.  Exact alone is not inductive: rmdir and rename  *)
(* remove an empty directory by deleting "." and ".." and then its name, and *)
(* the count reaches zero with that name only if the directory had no second *)
(* name and no child whose ".." names it.                                    *)
IInv == Good(Db)

-----------------------------------------------------------------------------
(* Induction.  A statement about all numbers up to n is the set of those for *)
(* which it holds; what a recursive function computes is such a statement.   *)

(* Every nonempty set of naturals has a least element. *)
LEMMA LeastNatural ==
    ASSUME NEW T, T \subseteq Nat, T # {}
    PROVE  \E m \in T : \A k \in T : m <= k
  <1>1. IsWellFoundedOn(OpToRel(<, Nat), Nat)
    BY NatLessThanWellFounded
  <1>2. PICK m \in T : \A k \in T : ~(<<k, m>> \in OpToRel(<, Nat))
    BY <1>1, WFMin
  <1>3. \A k \in T : ~(k < m)
    BY <1>2 DEF OpToRel
  <1>4. QED
    BY <1>3

(* Induction, for a set instead of a predicate. *)
LEMMA SetInduction ==
    ASSUME NEW n \in Nat, NEW T, 0 \in T, \A i \in 0..(n - 1) : i \in T => i + 1 \in T
    PROVE  0..n \subseteq T
  <1> DEFINE B == (0..n) \ T
  <1>1. SUFFICES ASSUME B # {} PROVE FALSE
    OBVIOUS
  <1>a. B \subseteq Nat
    OBVIOUS
  <1> HIDE DEF B
  <1>2. PICK m \in B : \A k \in B : m <= k
    BY <1>1, <1>a, LeastNatural
  <1> USE DEF B
  <1>3. m # 0 /\ m - 1 \in 0..(n - 1) /\ m - 1 \notin B
    BY <1>2
  <1>4. QED
    BY <1>2, <1>3

(* f is computed from x in n steps; the step i is given by g. *)
Iterates(f, n, V, x, g) ==
    /\ f \in [0..n -> V]
    /\ f[0] = x
    /\ \A i \in 1..n : f[i] = g[<<i, f[i - 1]>>]

LEMMA Iteration ==
    ASSUME NEW n \in Nat, NEW V, NEW x \in V, NEW g \in [(0..n) \X V -> V]
    PROVE  \E f : Iterates(f, n, V, x, g)
  <1> DEFINE T == {j \in 0..n : \E f : Iterates(f, j, V, x, g)}
  <1>1. 0 \in T
    <2> DEFINE h == [i \in 0..0 |-> x]
    <2>1. Iterates(h, 0, V, x, g)
      BY DEF Iterates
    <2>2. 0 \in 0..n
      OBVIOUS
    <2>3. QED
      BY <2>1, <2>2
  <1>2. ASSUME NEW j \in 0..(n - 1), j \in T
        PROVE  j + 1 \in T
    <2>1. PICK f : Iterates(f, j, V, x, g)
      BY <1>2
    <2>2. f \in [0..j -> V] /\ f[0] = x /\ \A i \in 1..j : f[i] = g[<<i, f[i - 1]>>]
      BY <2>1 DEF Iterates
    <2> DEFINE h == [i \in 0..(j + 1) |-> IF i = j + 1 THEN g[<<j + 1, f[j]>>] ELSE f[i]]
    <2>3. h \in [0..(j + 1) -> V] /\ h[0] = x
      BY <2>2
    <2>4. ASSUME NEW i \in 1..(j + 1) PROVE h[i] = g[<<i, h[i - 1]>>]
      <3>1. h[i - 1] = f[i - 1]
        OBVIOUS
      <3>2. CASE i = j + 1
        <4>1. h[i] = g[<<i, f[i - 1]>>]
          BY <3>2
        <4> HIDE DEF h
        <4>2. QED
          BY <3>1, <4>1
      <3>3. CASE i # j + 1
        <4>1. i \in 1..j /\ h[i] = f[i]
          BY <3>3
        <4> HIDE DEF h
        <4>2. QED
          BY <2>2, <3>1, <4>1
      <3>4. QED
        BY <3>2, <3>3
    <2> HIDE DEF h
    <2>5. Iterates(h, j + 1, V, x, g)
      BY <2>3, <2>4 DEF Iterates
    <2>6. QED
      BY <2>5
  <1> HIDE DEF T
  <1>3. 0..n \subseteq T
    BY <1>1, <1>2, SetInduction
  <1>4. QED
    BY <1>3 DEF T

-----------------------------------------------------------------------------
(* Counting the entries that name a node. *)

(* Keys is finite, and so is every set of entries. *)
LEMMA RefsFinite ==
    ASSUME NEW f, NEW n
    PROVE  /\ IsFiniteSet(RefsIn(f, n))
           /\ Cardinality(RefsIn(f, n)) \in Nat
           /\ Cardinality(RefsIn(f, n)) = 0 <=> RefsIn(f, n) = {}
  <1>1. IsFiniteSet(Ids)
    BY MaxIdAssumption, FS_Interval DEF Ids
  <1>2. IsFiniteSet(AllNames)
    <2>1. IsFiniteSet({"."} \cup {".."})
      BY FS_Singleton, FS_Union
    <2>2. Dots = {"."} \cup {".."}
      BY DEF Dots
    <2>3. QED
      BY <2>1, <2>2, NamesAssumption, FS_Union DEF AllNames
  <1>3. IsFiniteSet(Keys)
    BY <1>1, <1>2, FS_Product DEF Keys
  <1>4. RefsIn(f, n) \in SUBSET Keys
    BY DEF RefsIn
  <1>5. IsFiniteSet(RefsIn(f, n))
    BY <1>3, <1>4, FS_Subset
  <1>6. QED
    BY <1>5, FS_CardinalityType, FS_EmptySet

(* An entry that is made adds one to the count of what it names. *)
LEMMA CountMake ==
    ASSUME NEW f \in [Keys -> Ids \cup {NoNode}], NEW key \in Keys,
           f[key] = NoNode, NEW n \in Ids, NEW x \in Ids
    PROVE  Cardinality(RefsIn([f EXCEPT ![key] = n], x)) =
               IF x = n THEN Cardinality(RefsIn(f, x)) + 1
                        ELSE Cardinality(RefsIn(f, x))
  <1> DEFINE g == [f EXCEPT ![key] = n]
  <1>1. CASE x = n
    <2>1. RefsIn(g, x) = RefsIn(f, x) \cup {key}
      BY <1>1 DEF RefsIn
    <2>2. key \notin RefsIn(f, x)
      BY NoNodeAssumption DEF RefsIn
    <2>3. QED
      BY <1>1, <2>1, <2>2, RefsFinite, FS_AddElement
  <1>2. CASE x # n
    <2>1. RefsIn(g, x) = RefsIn(f, x)
      BY <1>2, NoNodeAssumption DEF RefsIn
    <2>2. QED
      BY <1>2, <2>1
  <1>3. QED
    BY <1>1, <1>2

(* An entry that is cleared takes one from the count of what it named. *)
LEMMA CountClear ==
    ASSUME NEW f \in [Keys -> Ids \cup {NoNode}], NEW key \in Keys,
           NEW n \in Ids, f[key] = n, NEW x \in Ids
    PROVE  Cardinality(RefsIn([f EXCEPT ![key] = NoNode], x)) =
               IF x = n THEN Cardinality(RefsIn(f, x)) - 1
                        ELSE Cardinality(RefsIn(f, x))
  <1> DEFINE g == [f EXCEPT ![key] = NoNode]
  <1>1. CASE x = n
    <2>1. RefsIn(g, x) = RefsIn(f, x) \ {key}
      BY <1>1, NoNodeAssumption DEF RefsIn
    <2>2. key \in RefsIn(f, x)
      BY <1>1 DEF RefsIn
    <2>3. QED
      BY <1>1, <2>1, <2>2, RefsFinite, FS_RemoveElement
  <1>2. CASE x # n
    <2>1. RefsIn(g, x) = RefsIn(f, x)
      BY <1>2, NoNodeAssumption DEF RefsIn
    <2>2. QED
      BY <1>2, <2>1
  <1>3. QED
    BY <1>1, <1>2

(* A node that is named once has a link, one that is named twice has two. *)
LEMMA LinksAtLeast ==
    ASSUME NEW s \in States, Exact(s), NEW k \in Keys, NEW n \in Ids,
           s.dirs[k] = n
    PROVE  /\ s.nlink[n] >= 1
           /\ \A j \in Keys : s.dirs[j] = n /\ j # k => s.nlink[n] >= 2
  <1> DEFINE R == RefsIn(s.dirs, n)
  <1>1. IsFiniteSet(R) /\ Cardinality(R) \in Nat /\ Cardinality(R) # 0
    <2>1. R # {}
      BY DEF RefsIn
    <2>2. QED
      BY <2>1, RefsFinite
  <1>2. s.nlink[n] = Cardinality(R)
    BY DEF Exact
  <1>3. ASSUME NEW j \in Keys, s.dirs[j] = n, j # k
        PROVE  s.nlink[n] >= 2
    <2>1. Cardinality(R) # 1
      <3>1. j \in R /\ k \in R
        BY <1>3 DEF RefsIn
      <3>2. QED
        BY <1>1, <1>3, <3>1, FS_Singleton
    <2>2. QED
      BY <1>1, <1>2, <2>1
  <1>4. QED
    BY <1>1, <1>2, <1>3

-----------------------------------------------------------------------------
(* What the methods do to the databases, from s to t, with exact counts. *)

(* Directory d gets the name m for n. *)
MakesEntry(s, t, d, m, n) ==
    /\ t \in States /\ Exact(t)
    /\ t.kind = s.kind
    /\ t.nlink = [s.nlink EXCEPT ![n] = @ + 1]
    /\ t.dirs = [s.dirs EXCEPT ![<<d, m>>] = n]

(* Directory d loses the name m of n, and n has another. *)
ClearsEntry(s, t, d, m, n) ==
    /\ t \in States /\ Exact(t)
    /\ t.kind = s.kind
    /\ t.nlink = [s.nlink EXCEPT ![n] = @ - 1]
    /\ t.dirs = [s.dirs EXCEPT ![<<d, m>>] = NoNode]

(* Directory d loses the name m of n, and n goes with it. *)
ClearsLast(s, t, d, m, n) ==
    /\ t \in States /\ Exact(t)
    /\ t.kind = [s.kind EXCEPT ![n] = "free"]
    /\ t.nlink = [s.nlink EXCEPT ![n] = 0]
    /\ t.dirs = [s.dirs EXCEPT ![<<d, m>>] = NoNode]

(* The node id is there, without a name; a directory holds itself. *)
MakesNode(s, t, id, k) ==
    /\ t \in States /\ Exact(t)
    /\ t.kind = [s.kind EXCEPT ![id] = k]
    /\ t.nlink = [s.nlink EXCEPT ![id] = IF k = "dir" THEN 1 ELSE 0]
    /\ t.dirs = IF k = "dir" THEN [s.dirs EXCEPT ![<<id, ".">>] = id] ELSE s.dirs

(* addchild() on a free name. *)
LEMMA AddChildFree ==
    ASSUME NEW s \in States, Exact(s), NEW d \in Ids, NEW m \in AllNames,
           NEW n \in Ids, ~Taken(s, d, m)
    PROVE  MakesEntry(s, AddChild(s, d, m, n), d, m, n)
  <1> DEFINE t == AddChild(s, d, m, n)
  <1>1. <<d, m>> \in Keys
    BY DEF Keys
  <1>2. s.dirs[<<d, m>>] = NoNode
    BY DEF Taken
  <1>3. t = [kind |-> s.kind, nlink |-> [s.nlink EXCEPT ![n] = @ + 1],
             dirs |-> [s.dirs EXCEPT ![<<d, m>>] = n]]
    BY <1>2 DEF AddChild, Taken, SetEntry, LinkNode, States
  <1>4. t \in States
    BY <1>1, <1>3 DEF States
  <1>5. Exact(t)
    <2>1. SUFFICES ASSUME NEW x \in Ids
                   PROVE  t.nlink[x] = Cardinality(RefsIn(t.dirs, x))
      BY DEF Exact
    <2>2. Cardinality(RefsIn(t.dirs, x)) =
            IF x = n THEN Cardinality(RefsIn(s.dirs, x)) + 1
                     ELSE Cardinality(RefsIn(s.dirs, x))
      BY <1>1, <1>2, <1>3, CountMake DEF States
    <2>3. s.nlink[x] = Cardinality(RefsIn(s.dirs, x))
      BY DEF Exact
    <2>4. t.nlink[x] = IF x = n THEN s.nlink[x] + 1 ELSE s.nlink[x]
      BY <1>3 DEF States
    <2>5. QED
      BY <2>2, <2>3, <2>4
  <1>6. QED
    BY <1>3, <1>4, <1>5 DEF MakesEntry

(* addchild() on a taken name takes back its own link. *)
LEMMA AddChildTaken ==
    ASSUME NEW s \in States, NEW d, NEW m,
           NEW n \in Ids, Taken(s, d, m), s.nlink[n] # 0
    PROVE  AddChild(s, d, m, n) = s
  <1> DEFINE u == LinkNode(s, n)
  <1>1. u = [kind |-> s.kind, nlink |-> [s.nlink EXCEPT ![n] = @ + 1], dirs |-> s.dirs]
    BY DEF LinkNode, States
  <1>2. u.nlink[n] = s.nlink[n] + 1 /\ ~(u.nlink[n] - 1 <= 0)
    BY <1>1 DEF States
  <1>3. UnlinkNode(u, n) = [u EXCEPT !.nlink[n] = @ - 1]
    BY <1>2 DEF UnlinkNode
  <1>4. [u.nlink EXCEPT ![n] = @ - 1] = s.nlink
    <2>1. u.nlink = [s.nlink EXCEPT ![n] = @ + 1]
      BY <1>1
    <2>2. s.nlink \in [Ids -> Nat]
      BY DEF States
    <2> HIDE DEF u
    <2>3. \A x \in Ids : [u.nlink EXCEPT ![n] = @ - 1][x] = s.nlink[x]
      BY <2>1, <2>2
    <2>4. QED
      BY <2>1, <2>2, <2>3
  <1>5. UnlinkNode(u, n) = [kind |-> s.kind, nlink |-> s.nlink, dirs |-> s.dirs]
    BY <1>1, <1>3, <1>4
  <1>6. QED
    BY <1>5 DEF AddChild, States

(* delchild() of a node that keeps a link. *)
LEMMA DelChildKeeps ==
    ASSUME NEW s \in States, Exact(s), NEW d \in Ids, NEW m \in AllNames,
           NEW n \in Ids, s.dirs[<<d, m>>] = n, s.nlink[n] >= 2
    PROVE  ClearsEntry(s, DelChild(s, d, m), d, m, n)
  <1> DEFINE t == DelChild(s, d, m)
             u == SetEntry(s, d, m, NoNode)
  <1>1. <<d, m>> \in Keys /\ n # NoNode
    BY NoNodeAssumption DEF Keys
  <1>2. u = [kind |-> s.kind, nlink |-> s.nlink,
             dirs |-> [s.dirs EXCEPT ![<<d, m>>] = NoNode]]
    BY DEF SetEntry, States
  <1>3. t = UnlinkNode(u, n)
    BY <1>1 DEF DelChild
  <1>4. ~(u.nlink[n] - 1 <= 0)
    BY <1>2 DEF States
  <1>5. t = [kind |-> s.kind, nlink |-> [s.nlink EXCEPT ![n] = @ - 1],
             dirs |-> [s.dirs EXCEPT ![<<d, m>>] = NoNode]]
    BY <1>2, <1>3, <1>4 DEF UnlinkNode
  <1>6. t \in States
    BY <1>1, <1>5 DEF States
  <1>7. Exact(t)
    <2>1. SUFFICES ASSUME NEW x \in Ids
                   PROVE  t.nlink[x] = Cardinality(RefsIn(t.dirs, x))
      BY DEF Exact
    <2>2. Cardinality(RefsIn(t.dirs, x)) =
            IF x = n THEN Cardinality(RefsIn(s.dirs, x)) - 1
                     ELSE Cardinality(RefsIn(s.dirs, x))
      BY <1>1, <1>5, CountClear DEF States
    <2>3. s.nlink[x] = Cardinality(RefsIn(s.dirs, x))
      BY DEF Exact
    <2>4. t.nlink[x] = IF x = n THEN s.nlink[x] - 1 ELSE s.nlink[x]
      BY <1>5 DEF States
    <2>5. QED
      BY <2>2, <2>3, <2>4
  <1>8. QED
    BY <1>5, <1>6, <1>7 DEF ClearsEntry

(* delchild() of the last link removes the node.  The counts stay exact only *)
(* because a directory that goes this way has no entries left.               *)
LEMMA DelChildRemoves ==
    ASSUME NEW s \in States, Exact(s), NEW d \in Ids, NEW m \in AllNames,
           NEW n \in Ids, s.dirs[<<d, m>>] = n, s.nlink[n] = 1,
           s.kind[n] = "dir" => \A k \in Keys : k[1] = n => s.dirs[k] = NoNode
    PROVE  ClearsLast(s, DelChild(s, d, m), d, m, n)
  <1> DEFINE t == DelChild(s, d, m)
             u == SetEntry(s, d, m, NoNode)
             e == [s.dirs EXCEPT ![<<d, m>>] = NoNode]
  <1>1. <<d, m>> \in Keys /\ n # NoNode
    BY NoNodeAssumption DEF Keys
  <1>2. u = [kind |-> s.kind, nlink |-> s.nlink, dirs |-> e]
    BY DEF SetEntry, States
  <1>3. t = UnlinkNode(u, n)
    BY <1>1 DEF DelChild
  <1>4. u.nlink[n] - 1 <= 0
    BY <1>2 DEF States
  <1>5. e \in [Keys -> Ids \cup {NoNode}]
    BY <1>1 DEF States
  <1>6. [k \in Keys |-> IF k[1] = n /\ u.kind[n] = "dir" THEN NoNode ELSE u.dirs[k]] = e
    <2>1. ASSUME NEW k \in Keys, k[1] = n, s.kind[n] = "dir"
          PROVE  e[k] = NoNode
      BY <2>1 DEF States
    <2>2. ASSUME NEW k \in Keys
          PROVE  (IF k[1] = n /\ u.kind[n] = "dir" THEN NoNode ELSE u.dirs[k]) = e[k]
      BY <1>2, <2>1
    <2> HIDE DEF e, u
    <2>3. QED
      BY <1>5, <2>2
  <1>7. t = [kind |-> [s.kind EXCEPT ![n] = "free"],
             nlink |-> [s.nlink EXCEPT ![n] = 0], dirs |-> e]
    BY <1>2, <1>3, <1>4, <1>6 DEF UnlinkNode, RemoveNode
  <1>8. t \in States
    BY <1>5, <1>7 DEF States, Kinds
  <1>9. Exact(t)
    <2>1. SUFFICES ASSUME NEW x \in Ids
                   PROVE  t.nlink[x] = Cardinality(RefsIn(t.dirs, x))
      BY DEF Exact
    <2>2. Cardinality(RefsIn(t.dirs, x)) =
            IF x = n THEN Cardinality(RefsIn(s.dirs, x)) - 1
                     ELSE Cardinality(RefsIn(s.dirs, x))
      BY <1>1, <1>7, CountClear DEF States
    <2>3. s.nlink[x] = Cardinality(RefsIn(s.dirs, x))
      BY DEF Exact
    <2>4. t.nlink[x] = IF x = n THEN 0 ELSE s.nlink[x]
      BY <1>7 DEF States
    <2>5. QED
      BY <2>2, <2>3, <2>4
  <1>10. QED
    BY <1>7, <1>8, <1>9 DEF ClearsLast

-----------------------------------------------------------------------------
(* Facts about a good state. *)

(* Nothing names a node without links. *)
LEMMA NoLinksNoRefs ==
    ASSUME NEW s \in States, Exact(s), NEW n \in Ids, s.nlink[n] = 0
    PROVE  \A k \in Keys : s.dirs[k] # n
  BY LinksAtLeast

(* An entry names a node that is there. *)
LEMMA EntriesLive ==
    ASSUME NEW s, Good(s), NEW k \in Keys, s.dirs[k] # NoNode
    PROVE  /\ s.dirs[k] \in Ids
           /\ s.kind[s.dirs[k]] # "free"
           /\ s.nlink[s.dirs[k]] >= 1
  <1>1. s.dirs[k] \in Ids
    BY DEF Good, States
  <1>2. s.nlink[s.dirs[k]] >= 1
    BY <1>1, LinksAtLeast DEF Good
  <1>3. s.nlink[s.dirs[k]] # 0
    BY <1>1, <1>2 DEF Good, States
  <1>4. QED
    BY <1>1, <1>2, <1>3 DEF Good, LiveIffLinked

(* The keys of "." and "..", and that no name a user gives is one of them. *)
LEMMA KeyFacts ==
    /\ "." \in AllNames /\ ".." \in AllNames
    /\ "." \notin Names /\ ".." \notin Names
    /\ \A m \in Names : m \in AllNames
    /\ \A m \in AllNames : m \in Names \/ m = "." \/ m = ".."
    /\ Root \in Ids
    /\ \A d \in Ids, m \in AllNames : <<d, m>> \in Keys
    /\ \A k \in Keys : k = <<k[1], k[2]>> /\ k[1] \in Ids /\ k[2] \in AllNames
  BY NamesAssumption, MaxIdAssumption DEF AllNames, Dots, Root, Ids, Keys

(* rebuild() leaves a good state, with the root and no names. *)
LEMMA RebuiltGood ==
    /\ Good(Rebuilt)
    /\ \A n \in Ids : Rebuilt.kind[n] = IF n = Root THEN "dir" ELSE "free"
    /\ \A k \in Keys : k[2] \in Names => Rebuilt.dirs[k] = NoNode
  <1> DEFINE n0 == [n \in Ids |-> 0]
             k1 == [n \in Ids |-> IF n = Root THEN "dir" ELSE "free"]
             s1 == [kind |-> k1, nlink |-> n0, dirs |-> [k \in Keys |-> NoNode]]
             s2 == AddChild(s1, Root, ".", Root)
  <1> USE KeyFacts
  <1>1. s1 \in States
    BY DEF States, Kinds
  <1>2. Exact(s1)
    <2>1. \A n \in Ids : RefsIn(s1.dirs, n) = {}
      BY NoNodeAssumption DEF RefsIn
    <2>2. QED
      BY <2>1, FS_EmptySet DEF Exact
  <1>3. NewNode(EmptyDb, Root, "dir") = s2
    <2>1. [[n \in Ids |-> "free"] EXCEPT ![Root] = "dir"] = k1
      OBVIOUS
    <2>2. [n0 EXCEPT ![Root] = 0] = n0
      OBVIOUS
    <2>3. QED
      BY <2>1, <2>2 DEF NewNode, EmptyDb
  <1>4. s1.dirs[<<Root, ".">>] = NoNode
    OBVIOUS
  <1> HIDE DEF s2
  <1>5. MakesEntry(s1, s2, Root, ".", Root)
    BY <1>1, <1>2, <1>4, AddChildFree DEF Taken, s2
  <1>6. Rebuilt = AddChild(s2, Root, "..", Root)
    BY <1>3 DEF Rebuilt
  <1>7. s2.dirs[<<Root, "..">>] = NoNode
    BY <1>5 DEF MakesEntry
  <1>8. MakesEntry(s2, Rebuilt, Root, "..", Root)
    <2>1. s2 \in States /\ Exact(s2)
      BY <1>5 DEF MakesEntry
    <2>2. QED
      BY <1>6, <1>7, <2>1, AddChildFree DEF Taken
  <1>9. \A k \in Keys :
           Rebuilt.dirs[k] = IF k[1] = Root /\ k[2] \in {".", ".."} THEN Root ELSE NoNode
    BY <1>5, <1>8 DEF MakesEntry
  <1>10. \A n \in Ids : Rebuilt.nlink[n] = IF n = Root THEN 2 ELSE 0
    BY <1>5, <1>8 DEF MakesEntry
  <1>11. Rebuilt \in States /\ Exact(Rebuilt) /\ Rebuilt.kind = k1
    BY <1>5, <1>8 DEF MakesEntry
  <1>12. Owned(Rebuilt) /\ DotsHeld(Rebuilt) /\ LiveIffLinked(Rebuilt)
    BY <1>9, <1>10, <1>11 DEF Owned, DotsHeld, LiveIffLinked
  <1>13. Rooted(Rebuilt) /\ OneName(Rebuilt) /\ NamedByParent(Rebuilt)
    BY <1>9, <1>11, NoNodeAssumption DEF Rooted, OneName, NamedByParent
  <1>14. QED
    BY <1>9, <1>11, <1>12, <1>13 DEF Good

-----------------------------------------------------------------------------
(* Path<T>::create. *)

(* The id that createregister gives is not in use, and nothing is left of a *)
(* node that had it before.                                                 *)
LEMMA FreshId ==
    ASSUME NEW s, Good(s), NEW id \in Ids, IsNextId(s, id)
    PROVE  /\ s.kind[id] = "free" /\ s.nlink[id] = 0 /\ id # Root
           /\ \A k \in Keys : s.dirs[k] # id
           /\ \A k \in Keys : k[1] = id => s.dirs[k] = NoNode
  <1>1. s.kind[id] = "free"
    BY MaxIdAssumption DEF IsNextId, Ids
  <1>2. s.nlink[id] = 0 /\ id # Root
    BY <1>1 DEF Good, LiveIffLinked, Rooted
  <1>3. \A k \in Keys : s.dirs[k] # id
    BY <1>2, NoLinksNoRefs DEF Good
  <1>4. \A k \in Keys : k[1] = id => s.dirs[k] = NoNode
    BY <1>1 DEF Good, Owned
  <1>5. QED
    BY <1>1, <1>2, <1>3, <1>4

(* A new node has no link; a new directory is linked by its own ".". *)
LEMMA NewNodeMakes ==
    ASSUME NEW s, Good(s), NEW id \in Ids, IsNextId(s, id),
           NEW k \in {"reg", "lnk", "dir"}
    PROVE  MakesNode(s, NewNode(s, id, k), id, k)
  <1> DEFINE u == [kind  |-> [s.kind EXCEPT ![id] = k],
                   nlink |-> [s.nlink EXCEPT ![id] = 0],
                   dirs  |-> s.dirs]
             t == NewNode(s, id, k)
  <1>1. s \in States /\ Exact(s)
    BY DEF Good
  <1>2. u \in States
    BY <1>1 DEF States, Kinds
  <1>3. u.nlink = s.nlink
    BY <1>1, FreshId DEF States
  <1>4. Exact(u)
    BY <1>1, <1>3 DEF Exact
  <1>5. CASE k # "dir"
    <2>1. t = u
      BY <1>5 DEF NewNode
    <2>2. QED
      BY <1>2, <1>4, <1>5, <2>1 DEF MakesNode
  <1>6. CASE k = "dir"
    <2>1. t = AddChild(u, id, ".", id)
      BY <1>6 DEF NewNode
    <2>2. ~Taken(u, id, ".")
      BY FreshId, KeyFacts DEF Taken
    <2>3. /\ u.kind = [s.kind EXCEPT ![id] = k]
          /\ u.nlink = [s.nlink EXCEPT ![id] = 0]
          /\ u.dirs = s.dirs
      OBVIOUS
    <2> HIDE DEF u, t
    <2>4. MakesEntry(u, t, id, ".", id)
      BY <1>2, <1>4, <2>1, <2>2, KeyFacts, AddChildFree
    <2>5. [u.nlink EXCEPT ![id] = @ + 1] = [s.nlink EXCEPT ![id] = 1]
      BY <1>1, <2>3 DEF States
    <2>6. QED
      BY <1>6, <2>3, <2>4, <2>5 DEF MakesEntry, MakesNode, t
  <1>7. QED
    BY <1>5, <1>6

(* States are equal when their columns are. *)
LEMMA StateEquality ==
    ASSUME NEW s \in States, NEW t \in States,
           \A n \in Ids : s.kind[n] = t.kind[n] /\ s.nlink[n] = t.nlink[n],
           \A k \in Keys : s.dirs[k] = t.dirs[k]
    PROVE  s = t
  <1>1. s.kind = t.kind
    BY DEF States
  <1>2. s.nlink = t.nlink
    BY DEF States
  <1>3. s.dirs = t.dirs
    BY DEF States
  <1>4. QED
    BY <1>1, <1>2, <1>3 DEF States

(* Removing a node that was not there before undoes all that was done to it. *)
LEMMA RemoveNewNode ==
    ASSUME NEW s, Good(s), NEW id \in Ids, IsNextId(s, id), NEW u \in States,
           \A n \in Ids : n # id => u.kind[n] = s.kind[n] /\ u.nlink[n] = s.nlink[n],
           \A j \in Keys : (j[1] # id \/ u.kind[id] # "dir") => u.dirs[j] = s.dirs[j]
    PROVE  RemoveNode(u, id) = s
  <1> DEFINE t == RemoveNode(u, id)
  <1>1. s \in States
    BY DEF Good
  <1>2. t = [kind |-> [u.kind EXCEPT ![id] = "free"],
             nlink |-> [u.nlink EXCEPT ![id] = 0],
             dirs |-> [j \in Keys |-> IF j[1] = id /\ u.kind[id] = "dir"
                                      THEN NoNode ELSE u.dirs[j]]]
    BY DEF RemoveNode
  <1>3. t \in States
    BY <1>2 DEF States, Kinds
  <1>4. \A n \in Ids : t.kind[n] = s.kind[n] /\ t.nlink[n] = s.nlink[n]
    BY <1>2, FreshId DEF States
  <1>5. \A j \in Keys : t.dirs[j] = s.dirs[j]
    BY <1>2, FreshId
  <1>6. QED
    BY <1>1, <1>3, <1>4, <1>5, StateEquality

(* Path<T>::create on a taken name leaves the databases as they were: this   *)
(* is what the failure of mknod, mkdir and symlink rests on.                 *)
LEMMA PathCreateTaken ==
    ASSUME NEW s, Good(s), NEW d \in Ids, NEW m \in Names, NEW id \in Ids,
           IsNextId(s, id), NEW k \in {"reg", "lnk", "dir"}, Taken(s, d, m)
    PROVE  PathCreate(s, d, m, id, k) = s
  <1> DEFINE t == NewNode(s, id, k)
  <1>1. MakesNode(s, t, id, k)
    BY NewNodeMakes
  <1>2. s \in States /\ <<d, m>> \in Keys
    BY KeyFacts DEF Good
  <1> HIDE DEF t
  <1>3. t \in States
    BY <1>1 DEF MakesNode
  <1>4. \A n \in Ids : n # id => t.kind[n] = s.kind[n] /\ t.nlink[n] = s.nlink[n]
    BY <1>1, <1>2 DEF MakesNode, States
  <1>5. t.kind[id] = k /\ t.nlink[id] = IF k = "dir" THEN 1 ELSE 0
    BY <1>1, <1>2 DEF MakesNode, States
  <1>6. \A j \in Keys : (j[1] # id \/ k # "dir") => t.dirs[j] = s.dirs[j]
    BY <1>1, <1>2 DEF MakesNode, States
  <1>7. Taken(t, d, m)
    <2>1. d # id
      BY <1>2, FreshId DEF Taken
    <2>2. QED
      BY <1>2, <1>6, <2>1 DEF Taken
  <1>8. PathCreate(s, d, m, id, k) = RemoveNode(AddChild(t, d, m, id), id)
    BY DEF PathCreate, t
  <1>9. RemoveNode(t, id) = s
    BY <1>3, <1>4, <1>5, <1>6, RemoveNewNode
  <1>10. CASE k = "dir"
    <2>1. AddChild(t, d, m, id) = t
      BY <1>3, <1>5, <1>7, <1>10, AddChildTaken
    <2>2. QED
      BY <1>8, <1>9, <2>1
  <1>11. CASE k # "dir"
    <2> DEFINE u == LinkNode(t, id)
    <2>1. u = [kind |-> t.kind, nlink |-> [t.nlink EXCEPT ![id] = @ + 1], dirs |-> t.dirs]
      BY <1>3 DEF LinkNode, States
    <2>2. u \in States /\ u.kind = t.kind /\ u.dirs = t.dirs
      BY <1>3, <2>1 DEF States
    <2>3. u.nlink[id] = 1 /\ \A n \in Ids : n # id => u.nlink[n] = t.nlink[n]
      BY <1>3, <1>5, <1>11, <2>1 DEF States
    <2> HIDE DEF u
    <2>4. RemoveNode(u, id) = s
      BY <1>4, <1>5, <1>6, <2>2, <2>3, RemoveNewNode
    <2>5. AddChild(t, d, m, id) = s
      BY <1>7, <2>3, <2>4 DEF AddChild, UnlinkNode, u
    <2>6. RemoveNode(s, id) = s
      BY <1>2, RemoveNewNode
    <2>7. QED
      BY <1>8, <2>5, <2>6
  <1>12. QED
    BY <1>10, <1>11

(* Path<T>::create on a free name. *)
LEMMA PathCreateFree ==
    ASSUME NEW s, Good(s), NEW d \in Ids, NEW m \in Names, NEW id \in Ids,
           IsNextId(s, id), NEW k \in {"reg", "lnk", "dir"}, ~Taken(s, d, m)
    PROVE  \E u \in States : /\ MakesNode(s, u, id, k)
                             /\ MakesEntry(u, PathCreate(s, d, m, id, k), d, m, id)
  <1> DEFINE u == NewNode(s, id, k)
             t == PathCreate(s, d, m, id, k)
  <1>1. MakesNode(s, u, id, k)
    BY NewNodeMakes
  <1>2. s \in States /\ <<d, m>> \in Keys /\ m \in AllNames /\ m # "."
    BY KeyFacts DEF Good
  <1> HIDE DEF u
  <1>3. ~Taken(u, d, m)
    BY <1>1, <1>2 DEF Taken, MakesNode, States
  <1>4. t = AddChild(u, d, m, id)
    BY DEF PathCreate, u
  <1>5. u \in States /\ Exact(u)
    BY <1>1 DEF MakesNode
  <1>6. MakesEntry(u, t, d, m, id)
    BY <1>2, <1>3, <1>4, <1>5, AddChildFree
  <1>7. QED
    BY <1>1, <1>5, <1>6

-----------------------------------------------------------------------------
(* What the handlers do to the names, and to ".." of the directories, from a *)
(* good state s to a good state t.                                           *)

NamedKeys == Ids \X Names

(* Every directory has the parent that it had, but for one at most. *)
NewParent(s, t, c, d) ==
    \A x \in Ids :
        t.kind[x] = "dir" => t.dirs[<<x, "..">>] = IF x = c THEN d ELSE s.dirs[<<x, "..">>]

SameParents(s, t) == \A x \in Ids : t.kind[x] = "dir" => t.dirs[<<x, "..">>] = s.dirs[<<x, "..">>]

(* The node id, which was not there, gets the name m in d. *)
Creates(s, t, d, m, id, k) ==
    /\ Good(t)
    /\ s.kind[d] = "dir" /\ ~Taken(s, d, m) /\ s.kind[id] = "free"
    /\ \A x \in Ids : t.kind[x] = IF x = id THEN k ELSE s.kind[x]
    /\ \A j \in NamedKeys : t.dirs[j] = IF j = <<d, m>> THEN id ELSE s.dirs[j]
    /\ NewParent(s, t, id, d)

(* The node n, no directory, gets one more name. *)
Links(s, t, d, m, n) ==
    /\ Good(t)
    /\ s.kind[d] = "dir" /\ ~Taken(s, d, m) /\ s.kind[n] \notin {"free", "dir"}
    /\ t.kind = s.kind
    /\ \A j \in NamedKeys : t.dirs[j] = IF j = <<d, m>> THEN n ELSE s.dirs[j]
    /\ SameParents(s, t)

(* The name m in d goes, of a directory only when that is empty. *)
Drops(s, t, d, m) ==
    /\ Good(t)
    /\ s.kind[d] = "dir" /\ Taken(s, d, m)
    /\ \A x \in Names : ~Taken(s, s.dirs[<<d, m>>], x)
    /\ \A x \in Ids : /\ t.kind[x] \in {s.kind[x], "free"}
                      /\ t.kind[x] = "dir" <=> (s.kind[x] = "dir" /\ x # s.dirs[<<d, m>>])
    /\ \A j \in NamedKeys : t.dirs[j] = IF j = <<d, m>> THEN NoNode ELSE s.dirs[j]
    /\ SameParents(s, t)

(* What rename checks: the node that goes away at m2 in d2 is of the sort of  *)
(* the one that comes.                                                        *)
MayMove(s, d1, m1, d2, m2) ==
    LET src == s.dirs[<<d1, m1>>]
        dst == s.dirs[<<d2, m2>>]
    IN  /\ s.kind[d2] = "dir" /\ Taken(s, d1, m1) /\ <<d1, m1>> # <<d2, m2>>
        /\ Taken(s, d2, m2) => /\ s.kind[src] = "dir" <=> s.kind[dst] = "dir"
                               /\ \A x \in Names : ~Taken(s, dst, x)

(* And what the kernel checks: no directory goes below itself. *)
OutOfItself(s, d1, m1, d2) ==
    LET src == s.dirs[<<d1, m1>>] IN s.kind[src] = "dir" => ~IsWithin(s, d2, src)

(* A node moves from m1 in d1 to m2 in d2, a directory with its parent. *)
Moves(s, t, d1, m1, d2, m2) ==
    /\ Good(t)
    /\ \A x \in Ids : t.kind[x] \in {s.kind[x], "free"}
    /\ \A j \in NamedKeys : t.dirs[j] = IF j = <<d1, m1>> THEN NoNode
                                        ELSE IF j = <<d2, m2>> THEN s.dirs[<<d1, m1>>]
                                        ELSE s.dirs[j]
    /\ NewParent(s, t, s.dirs[<<d1, m1>>], d2)

-----------------------------------------------------------------------------
(* The handlers that make a name. *)

(* mknod and symlink. *)
LEMMA CreateGood ==
    ASSUME NEW s, Good(s), NEW d \in Ids, NEW m \in Names, NEW id \in Ids,
           s.kind[d] = "dir", IsNextId(s, id), NEW k \in {"reg", "lnk"}, ~Taken(s, d, m)
    PROVE  Creates(s, PathCreate(s, d, m, id, k), d, m, id, k)
  <1> DEFINE t == PathCreate(s, d, m, id, k)
  <1>1. PICK u \in States : MakesNode(s, u, id, k) /\ MakesEntry(u, t, d, m, id)
    BY PathCreateFree
  <1> HIDE DEF t
  <1>2. s \in States /\ <<d, m>> \in Keys
    BY KeyFacts DEF Good
  <1>3. t \in States /\ Exact(t)
    BY <1>1 DEF MakesEntry
  <1>4. \A n \in Ids : /\ t.kind[n] = IF n = id THEN k ELSE s.kind[n]
                       /\ t.nlink[n] = IF n = id THEN 1 ELSE s.nlink[n]
    BY <1>1, <1>2 DEF MakesNode, MakesEntry, States
  <1>5. \A j \in Keys : t.dirs[j] = IF j = <<d, m>> THEN id ELSE s.dirs[j]
    BY <1>1, <1>2 DEF MakesNode, MakesEntry, States
  <1>6. /\ s.kind[id] = "free" /\ id # Root /\ id # d
        /\ \A j \in Keys : s.dirs[j] # id
        /\ \A j \in Keys : j[1] = id => s.dirs[j] = NoNode
    BY FreshId
  <1>7. Owned(t)
    BY <1>4, <1>5, <1>6, KeyFacts DEF Good, Owned
  <1>8. DotsHeld(t)
    BY <1>2, <1>4, <1>5, <1>6, KeyFacts DEF Good, DotsHeld
  <1>9. LiveIffLinked(t)
    BY <1>4 DEF Good, LiveIffLinked
  <1>10. Rooted(t)
    BY <1>4, <1>5, <1>6, KeyFacts DEF Good, Rooted
  <1>11. OneName(t)
    <2>1. SUFFICES ASSUME NEW i \in Keys, NEW j \in Keys,
                          i[2] \in Names, j[2] \in Names, t.dirs[i] = t.dirs[j],
                          t.dirs[j] # NoNode, t.kind[t.dirs[j]] = "dir"
                   PROVE  i = j
      BY DEF OneName
    <2>2. t.dirs[j] # id
      BY <1>4, <2>1
    <2>3. t.dirs[i] = s.dirs[i] /\ t.dirs[j] = s.dirs[j]
      BY <1>5, <2>1, <2>2
    <2>4. t.kind[t.dirs[j]] = s.kind[s.dirs[j]]
      BY <1>3, <1>4, <2>1, <2>2, <2>3 DEF States
    <2>5. QED
      BY <2>1, <2>3, <2>4 DEF Good, OneName
  <1>12. NamedByParent(t)
    <2>1. SUFFICES ASSUME NEW c \in Ids, t.kind[c] = "dir", c # Root
                   PROVE  \E x \in Names : t.dirs[<<t.dirs[<<c, "..">>], x>>] = c
      BY DEF NamedByParent
    <2>2. c # id /\ s.kind[c] = "dir"
      BY <1>4, <2>1
    <2>3. PICK x \in Names : s.dirs[<<s.dirs[<<c, "..">>], x>>] = c
      BY <2>1, <2>2 DEF Good, NamedByParent
    <2>4. t.dirs[<<c, "..">>] = s.dirs[<<c, "..">>] /\ s.dirs[<<c, "..">>] \in Ids
      BY <1>5, <2>2, KeyFacts DEF Good, DotsHeld
    <2>5. <<s.dirs[<<c, "..">>], x>> # <<d, m>>
      BY <2>3, NoNodeAssumption DEF Taken
    <2>6. QED
      BY <1>5, <2>3, <2>4, <2>5, KeyFacts
  <1>13. Good(t)
    BY <1>3, <1>7, <1>8, <1>9, <1>10, <1>11, <1>12 DEF Good
  <1>14. NewParent(s, t, id, d)
    BY <1>4, <1>5, KeyFacts DEF NewParent
  <1>15. QED
    BY <1>4, <1>5, <1>6, <1>13, <1>14, KeyFacts DEF Creates, NamedKeys, t

(* mkdir: a directory with ".", its name and then "..". *)
LEMMA MkdirGood ==
    ASSUME NEW s, Good(s), NEW d \in Ids, NEW m \in Names, NEW id \in Ids,
           s.kind[d] = "dir", IsNextId(s, id), ~Taken(s, d, m)
    PROVE  Creates(s, AddChild(PathCreate(s, d, m, id, "dir"), id, "..", d), d, m, id, "dir")
  <1> DEFINE p == PathCreate(s, d, m, id, "dir")
             t == AddChild(p, id, "..", d)
  <1>1. PICK u \in States : MakesNode(s, u, id, "dir") /\ MakesEntry(u, p, d, m, id)
    BY PathCreateFree
  <1> HIDE DEF p
  <1>2. s \in States /\ <<d, m>> \in Keys /\ m # "." /\ m # ".." /\ m \in Names
    BY KeyFacts DEF Good
  <1>3. p \in States /\ Exact(p)
    BY <1>1 DEF MakesEntry
  <1>4. /\ s.kind[id] = "free" /\ id # Root /\ id # d
        /\ \A j \in Keys : s.dirs[j] # id
        /\ \A j \in Keys : j[1] = id => s.dirs[j] = NoNode
    BY FreshId
  <1>5. \A j \in Keys : p.dirs[j] = IF j = <<d, m>> \/ j = <<id, ".">> THEN id ELSE s.dirs[j]
    BY <1>1, <1>2 DEF MakesNode, MakesEntry, States
  <1>6. ~Taken(p, id, "..")
    BY <1>2, <1>4, <1>5, KeyFacts DEF Taken
  <1>7. MakesEntry(p, t, id, "..", d)
    BY <1>3, <1>6, KeyFacts, AddChildFree
  <1> HIDE DEF t
  <1>8. t \in States /\ Exact(t)
    BY <1>7 DEF MakesEntry
  <1>9. \A n \in Ids : /\ t.kind[n] = IF n = id THEN "dir" ELSE s.kind[n]
                       /\ t.nlink[n] = IF n = id THEN 2
                                       ELSE IF n = d THEN s.nlink[n] + 1 ELSE s.nlink[n]
    BY <1>1, <1>2, <1>3, <1>4, <1>7 DEF MakesNode, MakesEntry, States
  <1>10. \A j \in Keys : t.dirs[j] = IF j = <<d, m>> \/ j = <<id, ".">> THEN id
                                     ELSE IF j = <<id, "..">> THEN d ELSE s.dirs[j]
    BY <1>2, <1>3, <1>5, <1>7 DEF MakesEntry, States
  <1>11. Owned(t)
    BY <1>4, <1>9, <1>10, KeyFacts DEF Good, Owned
  <1>12. DotsHeld(t)
    <2>1. SUFFICES ASSUME NEW c \in Ids, t.kind[c] = "dir"
                   PROVE  /\ t.dirs[<<c, ".">>] = c
                          /\ t.dirs[<<c, "..">>] \in Ids
                          /\ t.kind[t.dirs[<<c, "..">>]] = "dir"
      BY DEF DotsHeld
    <2>2. CASE c = id
      BY <1>2, <1>4, <1>9, <1>10, <2>2, KeyFacts
    <2>3. CASE c # id
      <3>1. /\ s.dirs[<<c, ".">>] = c /\ s.dirs[<<c, "..">>] \in Ids
            /\ s.kind[s.dirs[<<c, "..">>]] = "dir"
        BY <1>9, <2>1, <2>3 DEF Good, DotsHeld
      <3>2. t.dirs[<<c, ".">>] = c /\ t.dirs[<<c, "..">>] = s.dirs[<<c, "..">>]
        BY <1>2, <1>10, <2>3, <3>1, KeyFacts
      <3>3. QED
        BY <1>9, <3>1, <3>2
    <2>4. QED
      BY <2>2, <2>3
  <1>13. LiveIffLinked(t)
    <2>1. \A n \in Ids : s.nlink[n] \in Nat
      BY <1>2 DEF States
    <2>2. s.nlink[d] # 0
      BY DEF Good, LiveIffLinked
    <2>3. QED
      BY <1>9, <2>1, <2>2 DEF Good, LiveIffLinked
  <1>14. Rooted(t)
    BY <1>2, <1>4, <1>9, <1>10, KeyFacts DEF Good, Rooted
  <1>15. OneName(t)
    <2>1. SUFFICES ASSUME NEW i \in Keys, NEW j \in Keys,
                          i[2] \in Names, j[2] \in Names, t.dirs[i] = t.dirs[j],
                          t.dirs[j] # NoNode, t.kind[t.dirs[j]] = "dir"
                   PROVE  i = j
      BY DEF OneName
    <2>2. \A k \in Keys : k[2] \in Names =>
              t.dirs[k] = IF k = <<d, m>> THEN id ELSE s.dirs[k]
      BY <1>10, KeyFacts
    <2>3. CASE t.dirs[j] = id
      BY <1>4, <2>1, <2>2, <2>3
    <2>4. CASE t.dirs[j] # id
      <3>1. t.dirs[i] = s.dirs[i] /\ t.dirs[j] = s.dirs[j]
        BY <2>1, <2>2, <2>4
      <3>2. t.kind[t.dirs[j]] = s.kind[s.dirs[j]]
        BY <1>8, <1>9, <2>1, <2>4, <3>1 DEF States
      <3>3. QED
        BY <2>1, <3>1, <3>2 DEF Good, OneName
    <2>5. QED
      BY <2>3, <2>4
  <1>16. NamedByParent(t)
    <2>1. SUFFICES ASSUME NEW c \in Ids, t.kind[c] = "dir", c # Root
                   PROVE  \E x \in Names : t.dirs[<<t.dirs[<<c, "..">>], x>>] = c
      BY DEF NamedByParent
    <2>2. CASE c = id
      <3>1. t.dirs[<<c, "..">>] = d /\ t.dirs[<<d, m>>] = c
        BY <1>2, <1>4, <1>10, <2>2, KeyFacts
      <3>2. QED
        BY <1>2, <3>1
    <2>3. CASE c # id
      <3>1. PICK x \in Names : s.dirs[<<s.dirs[<<c, "..">>], x>>] = c
        BY <1>9, <2>1, <2>3 DEF Good, NamedByParent
      <3>2. t.dirs[<<c, "..">>] = s.dirs[<<c, "..">>] /\ s.dirs[<<c, "..">>] \in Ids
        BY <1>2, <1>9, <1>10, <2>1, <2>3, KeyFacts DEF Good, DotsHeld
      <3>3. /\ <<s.dirs[<<c, "..">>], x>> # <<d, m>>
            /\ x # "." /\ x # ".."
        BY <3>1, NoNodeAssumption, KeyFacts DEF Taken
      <3>4. QED
        BY <1>10, <3>1, <3>2, <3>3, KeyFacts
    <2>4. QED
      BY <2>2, <2>3
  <1>17. Good(t)
    BY <1>8, <1>11, <1>12, <1>13, <1>14, <1>15, <1>16 DEF Good
  <1>18. NewParent(s, t, id, d)
    BY <1>2, <1>9, <1>10, KeyFacts DEF NewParent
  <1>19. \A j \in NamedKeys : t.dirs[j] = IF j = <<d, m>> THEN id ELSE s.dirs[j]
    BY <1>10, KeyFacts DEF NamedKeys
  <1>20. QED
    BY <1>4, <1>9, <1>17, <1>18, <1>19 DEF Creates, t, p

(* A further name for a node that is not a directory: link, and the last     *)
(* step but one of rename.                                                   *)
LEMMA AddLeafGood ==
    ASSUME NEW s, Good(s), NEW d \in Ids, NEW m \in Names, NEW n \in Ids,
           s.kind[d] = "dir", s.kind[n] \notin {"free", "dir"}, ~Taken(s, d, m)
    PROVE  /\ Links(s, AddChild(s, d, m, n), d, m, n)
           /\ MakesEntry(s, AddChild(s, d, m, n), d, m, n)
  <1> DEFINE t == AddChild(s, d, m, n)
  <1>1. s \in States /\ Exact(s) /\ <<d, m>> \in Keys /\ m \in AllNames
    BY KeyFacts DEF Good
  <1>2. MakesEntry(s, t, d, m, n)
    BY <1>1, AddChildFree
  <1> HIDE DEF t
  <1>3. t \in States /\ Exact(t) /\ t.kind = s.kind
    BY <1>2 DEF MakesEntry
  <1>4. \A x \in Ids : t.nlink[x] = IF x = n THEN s.nlink[x] + 1 ELSE s.nlink[x]
    BY <1>1, <1>2 DEF MakesEntry, States
  <1>5. \A j \in Keys : t.dirs[j] = IF j = <<d, m>> THEN n ELSE s.dirs[j]
    BY <1>1, <1>2 DEF MakesEntry, States
  <1>6. Owned(t)
    BY <1>3, <1>5 DEF Good, Owned
  <1>7. DotsHeld(t)
    BY <1>3, <1>5, KeyFacts DEF Good, DotsHeld
  <1>8. LiveIffLinked(t)
    <2>1. \A x \in Ids : s.nlink[x] \in Nat
      BY <1>1 DEF States
    <2>2. QED
      BY <1>3, <1>4, <2>1 DEF Good, LiveIffLinked
  <1>9. Rooted(t)
    BY <1>3, <1>5, KeyFacts DEF Good, Rooted
  <1>10. OneName(t)
    BY <1>3, <1>5 DEF Good, OneName
  <1>11. NamedByParent(t)
    <2>1. SUFFICES ASSUME NEW c \in Ids, t.kind[c] = "dir", c # Root
                   PROVE  \E x \in Names : t.dirs[<<t.dirs[<<c, "..">>], x>>] = c
      BY DEF NamedByParent
    <2>2. PICK x \in Names : s.dirs[<<s.dirs[<<c, "..">>], x>>] = c
      BY <1>3, <2>1 DEF Good, NamedByParent
    <2>3. t.dirs[<<c, "..">>] = s.dirs[<<c, "..">>] /\ s.dirs[<<c, "..">>] \in Ids
      BY <1>3, <1>5, <2>1, KeyFacts DEF Good, DotsHeld
    <2>4. <<s.dirs[<<c, "..">>], x>> # <<d, m>>
      BY <2>2, NoNodeAssumption DEF Taken
    <2>5. QED
      BY <1>5, <2>2, <2>3, <2>4, KeyFacts
  <1>12. Good(t)
    BY <1>3, <1>6, <1>7, <1>8, <1>9, <1>10, <1>11 DEF Good
  <1>13. SameParents(s, t)
    BY <1>5, KeyFacts DEF SameParents
  <1>14. QED
    BY <1>2, <1>3, <1>5, <1>12, <1>13, KeyFacts DEF Links, NamedKeys, t

(* link on a taken name leaves everything as it was. *)
LEMMA LinkTaken ==
    ASSUME NEW s, Good(s), NEW d, NEW m, NEW n \in Ids, s.kind[n] # "free", Taken(s, d, m)
    PROVE  AddChild(s, d, m, n) = s
  <1>1. s \in States /\ s.nlink[n] # 0
    BY DEF Good, LiveIffLinked
  <1>2. QED
    BY <1>1, AddChildTaken

-----------------------------------------------------------------------------
(* The handlers that take a name away. *)

(* From s to t, directory d loses the name m of a node that is no directory. *)
DropsLeaf(s, t, d, m) ==
    /\ Good(t)
    /\ \A j \in Keys : t.dirs[j] = IF j = <<d, m>> THEN NoNode ELSE s.dirs[j]
    /\ \A x \in Ids : /\ t.kind[x] \in {s.kind[x], "free"}
                      /\ t.kind[x] = "dir" <=> s.kind[x] = "dir"

(* delchild() of a node that is not a directory: unlink, and what rename     *)
(* does to a node it replaces and to the old name of the one it moves.       *)
LEMMA DropLeaf ==
    ASSUME NEW s, Good(s), NEW d \in Ids, NEW m \in Names,
           Taken(s, d, m), s.kind[s.dirs[<<d, m>>]] # "dir"
    PROVE  DropsLeaf(s, DelChild(s, d, m), d, m)
  <1> DEFINE t == DelChild(s, d, m)
             n == s.dirs[<<d, m>>]
  <1>1. s \in States /\ Exact(s) /\ <<d, m>> \in Keys /\ m \in AllNames
    BY KeyFacts DEF Good
  <1>2. n \in Ids /\ s.kind[n] # "free" /\ s.nlink[n] >= 1 /\ s.nlink[n] \in Nat
    BY <1>1, EntriesLive DEF Taken, States
  <1>3. ClearsEntry(s, t, d, m, n) \/ ClearsLast(s, t, d, m, n)
    <2>1. CASE s.nlink[n] >= 2
      BY <1>1, <1>2, <2>1, DelChildKeeps
    <2>2. CASE s.nlink[n] = 1
      BY <1>1, <1>2, <2>2, DelChildRemoves
    <2>3. QED
      BY <1>2, <2>1, <2>2
  <1> HIDE DEF t
  <1>4. t \in States /\ Exact(t)
    BY <1>3 DEF ClearsEntry, ClearsLast
  <1>5. \A j \in Keys : t.dirs[j] = IF j = <<d, m>> THEN NoNode ELSE s.dirs[j]
    BY <1>1, <1>3 DEF ClearsEntry, ClearsLast, States
  <1>6. \A x \in Ids : x # n => t.kind[x] = s.kind[x] /\ t.nlink[x] = s.nlink[x]
    BY <1>1, <1>3 DEF ClearsEntry, ClearsLast, States
  <1>7. /\ t.kind[n] # "dir" /\ t.kind[n] \in {s.kind[n], "free"}
        /\ t.kind[n] = "free" <=> t.nlink[n] = 0
    <2>1. CASE ClearsLast(s, t, d, m, n)
      BY <1>1, <1>2, <2>1 DEF ClearsLast, States
    <2>2. CASE ClearsEntry(s, t, d, m, n) /\ s.nlink[n] >= 2
      <3>1. t.kind[n] = s.kind[n] /\ t.nlink[n] = s.nlink[n] - 1
        BY <1>1, <1>2, <2>2 DEF ClearsEntry, States
      <3>2. QED
        BY <1>2, <2>2, <3>1
    <2>3. CASE s.nlink[n] = 1
      BY <1>1, <1>2, <2>1, <2>3, DelChildRemoves DEF t
    <2>4. QED
      BY <1>2, <1>3, <2>1, <2>2, <2>3
  <1>8. \A x \in Ids : /\ t.kind[x] \in {s.kind[x], "free"}
                       /\ t.kind[x] = "dir" <=> s.kind[x] = "dir"
    BY <1>2, <1>6, <1>7
  <1>9. Owned(t)
    BY <1>5, <1>8, KeyFacts DEF Good, Owned
  <1>10. DotsHeld(t)
    BY <1>5, <1>8, KeyFacts DEF Good, DotsHeld
  <1>11. LiveIffLinked(t)
    BY <1>6, <1>7 DEF Good, LiveIffLinked
  <1>12. Rooted(t)
    BY <1>1, <1>5, <1>8, KeyFacts, NoNodeAssumption DEF Good, Rooted
  <1>13. OneName(t)
    <2>1. \A j \in Keys : t.dirs[j] # NoNode => t.dirs[j] = s.dirs[j] /\ s.dirs[j] \in Ids
      BY <1>1, <1>5 DEF States
    <2>2. QED
      BY <1>8, <2>1 DEF Good, OneName
  <1>14. NamedByParent(t)
    <2>1. SUFFICES ASSUME NEW c \in Ids, t.kind[c] = "dir", c # Root
                   PROVE  \E x \in Names : t.dirs[<<t.dirs[<<c, "..">>], x>>] = c
      BY DEF NamedByParent
    <2>2. s.kind[c] = "dir"
      BY <1>8, <2>1
    <2>3. PICK x \in Names : s.dirs[<<s.dirs[<<c, "..">>], x>>] = c
      BY <2>1, <2>2 DEF Good, NamedByParent
    <2>4. t.dirs[<<c, "..">>] = s.dirs[<<c, "..">>] /\ s.dirs[<<c, "..">>] \in Ids
      BY <1>5, <2>2, KeyFacts DEF Good, DotsHeld
    <2>5. <<s.dirs[<<c, "..">>], x>> # <<d, m>>
      BY <2>2, <2>3
    <2>6. QED
      BY <1>5, <2>3, <2>4, <2>5, KeyFacts
  <1>15. QED
    BY <1>4, <1>5, <1>8, <1>9, <1>10, <1>11, <1>12, <1>13, <1>14 DEF Good, DropsLeaf, t

(* "It should only contain . and ..": a directory with two children at most. *)
LEMMA EmptyDirectory ==
    ASSUME NEW s, Good(s), NEW n \in Ids, s.kind[n] = "dir",
           Cardinality(Children(s, n)) <= 2
    PROVE  \A m \in Names : ~Taken(s, n, m)
  <1> DEFINE C == Children(s, n)
             D == ({"."} \cup {".."})
  <1>1. IsFiniteSet(D) /\ Cardinality(D) = 2
    <2>1. IsFiniteSet({"."}) /\ Cardinality({"."}) = 1 /\ ".." \notin {"."}
      BY FS_Singleton
    <2>2. Cardinality({"."} \cup {".."}) = Cardinality({"."}) + 1
      BY <2>1, FS_AddElement
    <2>3. IsFiniteSet({"."} \cup {".."})
      BY <2>1, FS_AddElement
    <2>4. QED
      BY <2>1, <2>2, <2>3
  <1>2. IsFiniteSet(C)
    <2>1. IsFiniteSet(AllNames)
      <3>1. Dots = D
        BY DEF Dots
      <3>2. QED
        BY <1>1, <3>1, NamesAssumption, FS_Union DEF AllNames
    <2>2. C \in SUBSET AllNames
      BY DEF Children
    <2>3. QED
      BY <2>1, <2>2, FS_Subset
  <1>3. D \subseteq C
    <2>1. s.dirs[<<n, ".">>] = n /\ s.dirs[<<n, "..">>] \in Ids
      BY DEF Good, DotsHeld
    <2>2. QED
      BY <2>1, KeyFacts, NoNodeAssumption DEF Children, Taken
  <1>4. ASSUME NEW m \in Names, Taken(s, n, m)
        PROVE  FALSE
    <2>1. m \in C /\ m \notin D
      BY <1>4, KeyFacts DEF Children
    <2>2. (D \cup {m}) \in SUBSET C
      BY <1>3, <2>1
    <2> HIDE DEF C, D
    <2>3. Cardinality(D \cup {m}) = 3 /\ IsFiniteSet(D \cup {m})
      BY <1>1, <2>1, FS_AddElement
    <2>4. Cardinality(D \cup {m}) <= Cardinality(C) /\ Cardinality(C) \in Nat
      BY <1>2, <2>2, FS_Subset, FS_CardinalityType
    <2>5. QED
      BY <2>3, <2>4 DEF C
  <1>5. QED
    BY <1>4

(* From s to t, the empty directory n loses ".", ".." and its name m in d. *)
DropsDir(s, t, d, m, n) ==
    /\ Good(t)
    /\ \A j \in Keys :
          t.dirs[j] = IF j \in {<<d, m>>, <<n, ".">>, <<n, "..">>} THEN NoNode ELSE s.dirs[j]
    /\ \A x \in Ids : t.kind[x] = IF x = n THEN "free" ELSE s.kind[x]

(* What names an empty directory: "." in it, and its name in its parent. *)
LEMMA EmptyDirectoryRefs ==
    ASSUME NEW s, Good(s), NEW d \in Ids, NEW m \in Names, NEW n \in Ids,
           s.dirs[<<d, m>>] = n, s.kind[n] = "dir", \A x \in Names : ~Taken(s, n, x)
    PROVE  /\ n # Root /\ d # n /\ s.dirs[<<n, "..">>] # n
           /\ \A j \in Keys : s.dirs[j] = n => j = <<d, m>> \/ j = <<n, ".">>
  <1>1. <<d, m>> \in Keys /\ n # NoNode /\ n # Root
    BY KeyFacts, NoNodeAssumption DEF Good, Rooted
  <1>2. d # n
    BY <1>1 DEF Taken
  <1>3. ASSUME NEW c \in Ids, s.kind[c] = "dir", s.dirs[<<c, "..">>] = n
        PROVE  FALSE
    <2>1. c # Root
      BY <1>1, <1>3 DEF Good, Rooted
    <2>2. PICK x \in Names : s.dirs[<<n, x>>] = c
      BY <1>3, <2>1 DEF Good, NamedByParent
    <2>3. QED
      BY <2>2, NoNodeAssumption DEF Taken
  <1>4. ASSUME NEW j \in Keys, s.dirs[j] = n
        PROVE  j = <<d, m>> \/ j = <<n, ".">>
    <2>1. s.kind[j[1]] = "dir" /\ j[1] \in Ids /\ j = <<j[1], j[2]>>
      BY <1>1, <1>4, KeyFacts DEF Good, Owned
    <2>2. CASE j[2] = "."
      <3>1. j = <<j[1], ".">>
        BY <2>1, <2>2
      <3>2. s.dirs[<<j[1], ".">>] = j[1]
        BY <2>1 DEF Good, DotsHeld
      <3>3. QED
        BY <1>4, <3>1, <3>2
    <2>3. CASE j[2] = ".."
      BY <1>3, <1>4, <2>1, <2>3
    <2>4. CASE j[2] \in Names
      BY <1>1, <1>4, <2>4 DEF Good, OneName
    <2>5. QED
      BY <2>2, <2>3, <2>4, KeyFacts
  <1>5. s.dirs[<<n, "..">>] # n
    BY <1>3
  <1>6. QED
    BY <1>1, <1>2, <1>4, <1>5

(* rmdir, and rename when it replaces a directory. *)
LEMMA DropEmptyDir ==
    ASSUME NEW s, Good(s), NEW d \in Ids, NEW m \in Names, NEW n \in Ids,
           s.dirs[<<d, m>>] = n, s.kind[n] = "dir", \A x \in Names : ~Taken(s, n, x)
    PROVE  DropsDir(s, DelChild(DelDots(s, n), d, m), d, m, n)
  <1> DEFINE s1 == DelChild(s, n, ".")
             s2 == DelChild(s1, n, "..")
             t  == DelChild(s2, d, m)
             p  == s.dirs[<<n, "..">>]
  <1>1. /\ s \in States /\ Exact(s)
        /\ <<d, m>> \in Keys /\ <<n, ".">> \in Keys /\ <<n, "..">> \in Keys
        /\ m \in AllNames /\ "." \in AllNames /\ ".." \in AllNames
        /\ m # "." /\ m # ".."
    BY KeyFacts DEF Good
  <1>2. /\ s.dirs[<<n, ".">>] = n /\ p \in Ids /\ s.kind[p] = "dir"
        /\ s.dirs[<<p, ".">>] = p /\ <<p, ".">> \in Keys
    BY KeyFacts DEF Good, DotsHeld
  <1>3. /\ n # Root /\ d # n /\ p # n
        /\ \A j \in Keys : s.dirs[j] = n => j = <<d, m>> \/ j = <<n, ".">>
    BY EmptyDirectoryRefs
  <1>4. s.nlink[n] >= 2
    BY <1>1, <1>2, <1>3, LinksAtLeast
  <1>5. ClearsEntry(s, s1, n, ".", n)
    BY <1>1, <1>2, <1>4, DelChildKeeps
  <1> HIDE DEF s1
  <1>6. s1 \in States /\ Exact(s1) /\ s1.kind = s.kind
    BY <1>5 DEF ClearsEntry
  <1>7. \A j \in Keys : s1.dirs[j] = IF j = <<n, ".">> THEN NoNode ELSE s.dirs[j]
    BY <1>1, <1>5 DEF ClearsEntry, States
  <1>8. s1.dirs[<<n, "..">>] = p /\ s1.dirs[<<p, ".">>] = p
    BY <1>1, <1>2, <1>3, <1>7
  <1>9. s1.nlink[p] >= 2
    BY <1>1, <1>2, <1>6, <1>8, LinksAtLeast
  <1>10. ClearsEntry(s1, s2, n, "..", p)
    BY <1>1, <1>2, <1>6, <1>8, <1>9, DelChildKeeps
  <1> HIDE DEF s2
  <1>11. s2 \in States /\ Exact(s2) /\ s2.kind = s.kind
    BY <1>6, <1>10 DEF ClearsEntry
  <1>12. \A j \in Keys : s2.dirs[j] = IF j \in {<<n, ".">>, <<n, "..">>} THEN NoNode ELSE s.dirs[j]
    BY <1>1, <1>6, <1>7, <1>10 DEF ClearsEntry, States
  <1>13. s2.dirs[<<d, m>>] = n
    BY <1>1, <1>3, <1>12
  <1>14. s2.nlink[n] = 1
    <2>1. RefsIn(s2.dirs, n) = {<<d, m>>}
      BY <1>1, <1>3, <1>12, <1>13, NoNodeAssumption DEF RefsIn
    <2>2. QED
      BY <1>11, <2>1, FS_Singleton DEF Exact
  <1>15. \A k \in Keys : k[1] = n => s2.dirs[k] = NoNode
    BY <1>12, KeyFacts DEF Taken
  <1>16. ClearsLast(s2, t, d, m, n)
    BY <1>1, <1>11, <1>13, <1>14, <1>15, DelChildRemoves
  <1> HIDE DEF t
  <1>17. t \in States /\ Exact(t)
    BY <1>16 DEF ClearsLast
  <1>18. \A j \in Keys :
           t.dirs[j] = IF j \in {<<d, m>>, <<n, ".">>, <<n, "..">>} THEN NoNode ELSE s.dirs[j]
    BY <1>1, <1>11, <1>12, <1>16 DEF ClearsLast, States
  <1>19. \A x \in Ids : t.kind[x] = IF x = n THEN "free" ELSE s.kind[x]
    BY <1>1, <1>11, <1>16 DEF ClearsLast, States
  <1>20. \A x \in Ids : x # n /\ x # p => t.nlink[x] = s.nlink[x]
    BY <1>1, <1>5, <1>6, <1>10, <1>11, <1>16 DEF ClearsEntry, ClearsLast, States
  <1>21. t.nlink[n] = 0 /\ t.nlink[p] # 0
    <2>1. t.nlink[n] = 0
      BY <1>11, <1>16 DEF ClearsLast, States
    <2>2. t.dirs[<<p, ".">>] = p
      BY <1>1, <1>2, <1>3, <1>18
    <2>3. QED
      BY <1>2, <1>17, <2>1, <2>2, NoLinksNoRefs
  <1>22. Owned(t)
    BY <1>3, <1>15, <1>18, <1>19, KeyFacts DEF Good, Owned, Taken
  <1>23. DotsHeld(t)
    <2>1. SUFFICES ASSUME NEW c \in Ids, t.kind[c] = "dir"
                   PROVE  /\ t.dirs[<<c, ".">>] = c
                          /\ t.dirs[<<c, "..">>] \in Ids
                          /\ t.kind[t.dirs[<<c, "..">>]] = "dir"
      BY DEF DotsHeld
    <2>2. c # n /\ s.kind[c] = "dir"
      BY <1>19, <2>1
    <2>3. /\ s.dirs[<<c, ".">>] = c /\ s.dirs[<<c, "..">>] \in Ids
          /\ s.kind[s.dirs[<<c, "..">>]] = "dir"
      BY <2>2 DEF Good, DotsHeld
    <2>4. t.dirs[<<c, ".">>] = c /\ t.dirs[<<c, "..">>] = s.dirs[<<c, "..">>]
      BY <1>1, <1>18, <2>2, <2>3, KeyFacts
    <2>5. s.dirs[<<c, "..">>] # n
      BY <1>1, <1>3, <2>2, KeyFacts
    <2>6. QED
      BY <1>19, <2>3, <2>4, <2>5
  <1>24. LiveIffLinked(t)
    <2>1. SUFFICES ASSUME NEW x \in Ids
                   PROVE  t.kind[x] = "free" <=> t.nlink[x] = 0
      BY DEF LiveIffLinked
    <2>2. CASE x = n
      BY <1>19, <1>21, <2>2
    <2>3. CASE x = p
      BY <1>2, <1>3, <1>19, <1>21, <2>3
    <2>4. CASE x # n /\ x # p
      BY <1>19, <1>20, <2>4 DEF Good, LiveIffLinked
    <2>5. QED
      BY <2>2, <2>3, <2>4
  <1>25. Rooted(t)
    BY <1>1, <1>3, <1>18, <1>19, KeyFacts, NoNodeAssumption DEF Good, Rooted
  <1>26. OneName(t)
    <2>1. \A j \in Keys : t.dirs[j] # NoNode =>
             /\ t.dirs[j] = s.dirs[j] /\ s.dirs[j] \in Ids
             /\ t.kind[t.dirs[j]] = "dir" => s.kind[s.dirs[j]] = "dir"
      BY <1>1, <1>18, <1>19 DEF States
    <2>2. QED
      BY <2>1 DEF Good, OneName
  <1>27. NamedByParent(t)
    <2>1. SUFFICES ASSUME NEW c \in Ids, t.kind[c] = "dir", c # Root
                   PROVE  \E x \in Names : t.dirs[<<t.dirs[<<c, "..">>], x>>] = c
      BY DEF NamedByParent
    <2>2. c # n /\ s.kind[c] = "dir"
      BY <1>19, <2>1
    <2>3. PICK x \in Names : s.dirs[<<s.dirs[<<c, "..">>], x>>] = c
      BY <2>1, <2>2 DEF Good, NamedByParent
    <2>4. s.dirs[<<c, "..">>] \in Ids
      BY <2>2 DEF Good, DotsHeld
    <2>5. t.dirs[<<c, "..">>] = s.dirs[<<c, "..">>]
      BY <1>1, <1>18, <2>2, KeyFacts
    <2>6. <<s.dirs[<<c, "..">>], x>> # <<d, m>> /\ x # "." /\ x # ".."
      BY <2>2, <2>3, KeyFacts
    <2>7. QED
      BY <1>18, <2>3, <2>4, <2>5, <2>6, KeyFacts
  <1>28. QED
    BY <1>17, <1>18, <1>19, <1>22, <1>23, <1>24, <1>25, <1>26, <1>27
       DEF Good, DropsDir, DelDots, s1, s2, t

(* delchild() of a leaf and rmdir, as seen by the names. *)
LEMMA LeafDrops ==
    ASSUME NEW s, Good(s), NEW d \in Ids, NEW m \in Names, s.kind[d] = "dir",
           Taken(s, d, m), s.kind[s.dirs[<<d, m>>]] # "dir"
    PROVE  Drops(s, DelChild(s, d, m), d, m)
  <1> DEFINE n == s.dirs[<<d, m>>]
             t == DelChild(s, d, m)
  <1>1. <<d, m>> \in Keys
    BY KeyFacts
  <1>2. n \in Ids /\ s.kind[n] # "dir"
    BY <1>1, EntriesLive DEF Taken
  <1>3. \A x \in Names : ~Taken(s, n, x)
    BY <1>2, KeyFacts DEF Good, Owned, Taken
  <1>4. DropsLeaf(s, t, d, m)
    BY DropLeaf
  <1> HIDE DEF t
  <1>5. SameParents(s, t)
    BY <1>4, KeyFacts DEF DropsLeaf, SameParents
  <1>6. QED
    BY <1>2, <1>3, <1>4, <1>5, KeyFacts DEF DropsLeaf, Drops, NamedKeys, t

LEMMA EmptyDirDrops ==
    ASSUME NEW s, Good(s), NEW d \in Ids, NEW m \in Names, NEW n \in Ids, s.kind[d] = "dir",
           s.dirs[<<d, m>>] = n, s.kind[n] = "dir", \A x \in Names : ~Taken(s, n, x)
    PROVE  Drops(s, DelChild(DelDots(s, n), d, m), d, m)
  <1> DEFINE t == DelChild(DelDots(s, n), d, m)
  <1>1. DropsDir(s, t, d, m, n)
    BY DropEmptyDir
  <1> HIDE DEF t
  <1>2. Taken(s, d, m)
    BY NoNodeAssumption DEF Taken
  <1>3. SameParents(s, t)
    BY <1>1, KeyFacts DEF DropsDir, SameParents
  <1>4. \A j \in NamedKeys : t.dirs[j] = IF j = <<d, m>> THEN NoNode ELSE s.dirs[j]
    BY <1>1, KeyFacts DEF DropsDir, NamedKeys
  <1>5. \A x \in Ids : /\ t.kind[x] \in {s.kind[x], "free"}
                       /\ t.kind[x] = "dir" <=> (s.kind[x] = "dir" /\ x # n)
    BY <1>1 DEF DropsDir
  <1>6. QED
    BY <1>1, <1>2, <1>3, <1>4, <1>5 DEF DropsDir, Drops, t

-----------------------------------------------------------------------------
(* rename. *)

(* A node that is not a directory gets its new name and loses the old one. *)
LEMMA MoveLeaf ==
    ASSUME NEW s, Good(s), NEW d1 \in Ids, NEW m1 \in Names, NEW d2 \in Ids, NEW m2 \in Names,
           Taken(s, d1, m1), s.kind[s.dirs[<<d1, m1>>]] # "dir",
           s.kind[d2] = "dir", ~Taken(s, d2, m2)
    PROVE  Moves(s, DelChild(AddChild(s, d2, m2, s.dirs[<<d1, m1>>]), d1, m1), d1, m1, d2, m2)
  <1> DEFINE src == s.dirs[<<d1, m1>>]
             t   == AddChild(s, d2, m2, src)
             u   == DelChild(t, d1, m1)
  <1>1. <<d1, m1>> \in Keys /\ <<d2, m2>> \in Keys /\ s \in States
    BY KeyFacts DEF Good
  <1>2. src \in Ids /\ s.kind[src] \notin {"free", "dir"}
    BY <1>1, EntriesLive DEF Taken
  <1>3. Good(t) /\ MakesEntry(s, t, d2, m2, src)
    BY <1>2, AddLeafGood DEF Links
  <1> HIDE DEF t
  <1>4. t.kind = s.kind /\ t.dirs[<<d1, m1>>] = src
    BY <1>1, <1>2, <1>3 DEF MakesEntry, Taken, States
  <1>5. Taken(t, d1, m1) /\ t.kind[t.dirs[<<d1, m1>>]] # "dir"
    BY <1>2, <1>4, NoNodeAssumption DEF Taken
  <1>6. DropsLeaf(t, u, d1, m1)
    BY <1>3, <1>5, DropLeaf
  <1> HIDE DEF u
  <1>7. \A j \in Keys : u.dirs[j] = IF j = <<d1, m1>> THEN NoNode
                                    ELSE IF j = <<d2, m2>> THEN src ELSE s.dirs[j]
    BY <1>1, <1>3, <1>6 DEF DropsLeaf, MakesEntry, States
  <1>8. \A x \in Ids : u.kind[x] \in {s.kind[x], "free"}
    BY <1>4, <1>6 DEF DropsLeaf
  <1>9. NewParent(s, u, src, d2)
    BY <1>2, <1>7, <1>8, KeyFacts DEF NewParent
  <1>10. QED
    BY <1>6, <1>7, <1>8, <1>9, KeyFacts DEF Moves, DropsLeaf, NamedKeys, t, u

(* A directory gets a new parent, then its new name, and loses the old one. *)
LEMMA MoveDir ==
    ASSUME NEW s, Good(s), NEW d1 \in Ids, NEW m1 \in Names, NEW d2 \in Ids, NEW m2 \in Names,
           NEW src \in Ids, s.dirs[<<d1, m1>>] = src, s.kind[src] = "dir",
           s.kind[d2] = "dir", ~Taken(s, d2, m2)
    PROVE  Moves(s, DelChild(AddChild(AddChild(DelChild(s, src, ".."), src, "..", d2),
                                      d2, m2, src), d1, m1), d1, m1, d2, m2)
  <1> DEFINE p  == s.dirs[<<src, "..">>]
             s1 == DelChild(s, src, "..")
             s2 == AddChild(s1, src, "..", d2)
             s3 == AddChild(s2, d2, m2, src)
             t  == DelChild(s3, d1, m1)
  <1>1. /\ s \in States /\ Exact(s)
        /\ <<d1, m1>> \in Keys /\ <<d2, m2>> \in Keys
        /\ <<src, ".">> \in Keys /\ <<src, "..">> \in Keys /\ <<d2, ".">> \in Keys
        /\ ".." \in AllNames /\ m1 \in AllNames /\ m2 \in AllNames
        /\ m1 # "." /\ m1 # ".." /\ m2 # "." /\ m2 # ".."
    BY KeyFacts DEF Good
  <1>2. /\ p \in Ids /\ s.kind[p] = "dir" /\ <<p, ".">> \in Keys
        /\ s.dirs[<<p, ".">>] = p
    BY KeyFacts DEF Good, DotsHeld
  <1>3. s.dirs[<<d2, m2>>] = NoNode /\ src # NoNode /\ <<d1, m1>> # <<d2, m2>> /\ src # Root
    BY <1>1, NoNodeAssumption DEF Taken, Good, Rooted
  <1>4. s.nlink[p] >= 2
    BY <1>1, <1>2, LinksAtLeast
  <1>5. ClearsEntry(s, s1, src, "..", p)
    BY <1>1, <1>2, <1>4, DelChildKeeps
  <1> HIDE DEF s1
  <1>6. s1 \in States /\ Exact(s1) /\ s1.kind = s.kind
    BY <1>5 DEF ClearsEntry
  <1>7. \A j \in Keys : s1.dirs[j] = IF j = <<src, "..">> THEN NoNode ELSE s.dirs[j]
    BY <1>1, <1>5 DEF ClearsEntry, States
  <1>8. ~Taken(s1, src, "..")
    BY <1>1, <1>7 DEF Taken
  <1>9. MakesEntry(s1, s2, src, "..", d2)
    BY <1>1, <1>6, <1>8, AddChildFree
  <1> HIDE DEF s2
  <1>10. s2 \in States /\ Exact(s2) /\ s2.kind = s.kind
    BY <1>6, <1>9 DEF MakesEntry
  <1>11. \A j \in Keys : s2.dirs[j] = IF j = <<src, "..">> THEN d2 ELSE s.dirs[j]
    BY <1>1, <1>6, <1>7, <1>9 DEF MakesEntry, States
  <1>12. ~Taken(s2, d2, m2)
    BY <1>1, <1>3, <1>11 DEF Taken
  <1>13. MakesEntry(s2, s3, d2, m2, src)
    BY <1>1, <1>10, <1>12, AddChildFree
  <1> HIDE DEF s3
  <1>14. s3 \in States /\ Exact(s3) /\ s3.kind = s.kind
    BY <1>10, <1>13 DEF MakesEntry
  <1>15. \A j \in Keys : s3.dirs[j] = IF j = <<d2, m2>> THEN src
                                      ELSE IF j = <<src, "..">> THEN d2 ELSE s.dirs[j]
    BY <1>1, <1>10, <1>11, <1>13 DEF MakesEntry, States
  <1>16. s3.dirs[<<d1, m1>>] = src /\ s3.dirs[<<d2, m2>>] = src
    BY <1>1, <1>3, <1>15
  <1>17. s3.nlink[src] >= 2
    BY <1>1, <1>3, <1>14, <1>16, LinksAtLeast
  <1>18. ClearsEntry(s3, t, d1, m1, src)
    BY <1>1, <1>14, <1>16, <1>17, DelChildKeeps
  <1> HIDE DEF t
  <1>19. t \in States /\ Exact(t) /\ t.kind = s.kind
    BY <1>14, <1>18 DEF ClearsEntry
  <1>20. \A j \in Keys : t.dirs[j] = IF j = <<d1, m1>> THEN NoNode
                                     ELSE IF j = <<d2, m2>> THEN src
                                     ELSE IF j = <<src, "..">> THEN d2 ELSE s.dirs[j]
    BY <1>1, <1>14, <1>15, <1>18 DEF ClearsEntry, States
  <1>21. \A x \in Ids : x \notin {p, d2, src} => t.nlink[x] = s.nlink[x]
    BY <1>1, <1>5, <1>6, <1>9, <1>10, <1>13, <1>14, <1>18 DEF ClearsEntry, MakesEntry, States
  <1>22. Owned(t)
    BY <1>1, <1>19, <1>20, KeyFacts DEF Good, Owned
  <1>23. DotsHeld(t)
    <2>1. SUFFICES ASSUME NEW c \in Ids, s.kind[c] = "dir"
                   PROVE  /\ t.dirs[<<c, ".">>] = c
                          /\ t.dirs[<<c, "..">>] \in Ids
                          /\ s.kind[t.dirs[<<c, "..">>]] = "dir"
      BY <1>19 DEF DotsHeld
    <2>2. /\ s.dirs[<<c, ".">>] = c /\ s.dirs[<<c, "..">>] \in Ids
          /\ s.kind[s.dirs[<<c, "..">>]] = "dir"
      BY <2>1 DEF Good, DotsHeld
    <2>3. t.dirs[<<c, ".">>] = c
      BY <1>1, <1>20, <2>2, KeyFacts
    <2>4. t.dirs[<<c, "..">>] = IF c = src THEN d2 ELSE s.dirs[<<c, "..">>]
      BY <1>1, <1>20, KeyFacts
    <2>5. QED
      BY <2>2, <2>3, <2>4
  <1>24. LiveIffLinked(t)
    <2>1. SUFFICES ASSUME NEW x \in Ids
                   PROVE  s.kind[x] = "free" <=> t.nlink[x] = 0
      BY <1>19 DEF LiveIffLinked
    <2>2. CASE x \notin {p, d2, src}
      BY <1>21, <2>2 DEF Good, LiveIffLinked
    <2>3. CASE x \in {p, d2, src}
      <3>1. s.kind[x] = "dir"
        BY <1>2, <2>3
      <3>2. t.dirs[<<x, ".">>] = x /\ <<x, ".">> \in Keys
        BY <1>19, <1>23, <3>1, KeyFacts DEF DotsHeld
      <3>3. t.nlink[x] # 0
        BY <1>19, <3>2, NoLinksNoRefs
      <3>4. QED
        BY <3>1, <3>3
    <2>4. QED
      BY <2>2, <2>3
  <1>25. Rooted(t)
    <2>1. t.dirs[<<Root, "..">>] = Root
      BY <1>1, <1>3, <1>20, KeyFacts DEF Good, Rooted
    <2>2. \A k \in Keys : k[2] \in Names => t.dirs[k] # Root
      BY <1>1, <1>3, <1>20, KeyFacts, NoNodeAssumption DEF Good, Rooted
    <2>3. QED
      BY <1>19, <2>1, <2>2 DEF Good, Rooted
  <1>26. OneName(t)
    <2>1. SUFFICES ASSUME NEW i \in Keys, NEW j \in Keys,
                          i[2] \in Names, j[2] \in Names, t.dirs[i] = t.dirs[j],
                          t.dirs[j] # NoNode, s.kind[t.dirs[j]] = "dir"
                   PROVE  i = j
      BY <1>19 DEF OneName
    <2>2. \A k \in Keys : k[2] \in Names =>
             t.dirs[k] = IF k = <<d1, m1>> THEN NoNode
                         ELSE IF k = <<d2, m2>> THEN src ELSE s.dirs[k]
      BY <1>20, KeyFacts
    <2>3. \A k \in Keys : (k[2] \in Names /\ s.dirs[k] = src) => k = <<d1, m1>>
      BY <1>1, <1>3 DEF Good, OneName
    <2>4. CASE t.dirs[j] = src
      BY <2>1, <2>2, <2>3, <2>4
    <2>5. CASE t.dirs[j] # src
      <3>1. t.dirs[i] = s.dirs[i] /\ t.dirs[j] = s.dirs[j]
        BY <2>1, <2>2, <2>5
      <3>2. QED
        BY <2>1, <3>1 DEF Good, OneName
    <2>6. QED
      BY <2>4, <2>5
  <1>27. NamedByParent(t)
    <2>1. SUFFICES ASSUME NEW c \in Ids, s.kind[c] = "dir", c # Root
                   PROVE  \E x \in Names : t.dirs[<<t.dirs[<<c, "..">>], x>>] = c
      BY <1>19 DEF NamedByParent
    <2>2. t.dirs[<<c, "..">>] = IF c = src THEN d2 ELSE s.dirs[<<c, "..">>]
      BY <1>1, <1>20, <2>1, KeyFacts
    <2>3. CASE c = src
      <3>1. t.dirs[<<d2, m2>>] = src
        BY <1>1, <1>3, <1>20
      <3>2. QED
        BY <2>2, <2>3, <3>1
    <2>4. CASE c # src
      <3>1. PICK x \in Names : s.dirs[<<s.dirs[<<c, "..">>], x>>] = c
        BY <2>1 DEF Good, NamedByParent
      <3>2. s.dirs[<<c, "..">>] \in Ids
        BY <2>1 DEF Good, DotsHeld
      <3>3. /\ <<s.dirs[<<c, "..">>], x>> # <<d1, m1>>
            /\ <<s.dirs[<<c, "..">>], x>> # <<d2, m2>>
            /\ x # ".."
        BY <1>3, <2>4, <3>1, NoNodeAssumption, KeyFacts
      <3>4. QED
        BY <1>20, <2>2, <2>4, <3>1, <3>2, <3>3, KeyFacts
    <2>5. QED
      BY <2>3, <2>4
  <1>28. Good(t)
    BY <1>19, <1>22, <1>23, <1>24, <1>25, <1>26, <1>27 DEF Good
  <1>29. NewParent(s, t, src, d2)
    BY <1>1, <1>20, KeyFacts DEF NewParent
  <1>30. QED
    BY <1>19, <1>20, <1>28, <1>29, KeyFacts DEF Moves, NamedKeys, s1, s2, s3, t

(* The whole of rename: what the destination held goes first. *)
LEMMA RenamedMoves ==
    ASSUME NEW s, Good(s), NEW d1 \in Ids, NEW m1 \in Names, NEW d2 \in Ids, NEW m2 \in Names,
           MayMove(s, d1, m1, d2, m2)
    PROVE  Moves(s, Renamed(s, d1, m1, d2, m2), d1, m1, d2, m2)
  <1> DEFINE src == s.dirs[<<d1, m1>>]
             dst == s.dirs[<<d2, m2>>]
             s1  == IF dst = NoNode THEN s
                    ELSE DelChild(IF s.kind[src] = "dir" THEN DelDots(s, dst) ELSE s, d2, m2)
             t   == Renamed(s, d1, m1, d2, m2)
  <1>1. s \in States /\ <<d1, m1>> \in NamedKeys /\ <<d2, m2>> \in NamedKeys
    BY DEF Good, NamedKeys
  <1>2. /\ s.kind[d2] = "dir" /\ Taken(s, d1, m1) /\ <<d1, m1>> # <<d2, m2>>
        /\ dst # NoNode => /\ s.kind[src] = "dir" <=> s.kind[dst] = "dir"
                           /\ \A x \in Names : ~Taken(s, dst, x)
    BY DEF MayMove, Taken
  <1>3. src \in Ids /\ (dst # NoNode => dst \in Ids)
    BY <1>2, EntriesLive, KeyFacts DEF Taken
  <1>4. dst # NoNode => Drops(s, s1, d2, m2)
    <2>1. SUFFICES ASSUME dst # NoNode PROVE Drops(s, s1, d2, m2)
      OBVIOUS
    <2>2. Taken(s, d2, m2)
      BY <2>1 DEF Taken
    <2>3. CASE s.kind[src] = "dir"
      <3>1. s1 = DelChild(DelDots(s, dst), d2, m2)
        BY <2>1, <2>3
      <3>2. QED
        BY <1>2, <1>3, <2>1, <2>3, <3>1, EmptyDirDrops
    <2>4. CASE s.kind[src] # "dir"
      <3>1. s1 = DelChild(s, d2, m2)
        BY <2>1, <2>4
      <3>2. QED
        BY <1>2, <2>1, <2>2, <2>4, <3>1, LeafDrops
    <2>5. QED
      BY <2>3, <2>4
  <1>5. /\ Good(s1)
        /\ \A x \in Ids : /\ s1.kind[x] \in {s.kind[x], "free"}
                          /\ s1.kind[x] = "dir" <=> (s.kind[x] = "dir" /\ x # dst)
        /\ \A j \in NamedKeys : s1.dirs[j] = IF j = <<d2, m2>> THEN NoNode ELSE s.dirs[j]
        /\ SameParents(s, s1)
    <2>1. CASE dst = NoNode
      BY <2>1, NoNodeAssumption DEF SameParents
    <2>2. CASE dst # NoNode
      BY <1>4, <2>2 DEF Drops
    <2>3. QED
      BY <2>1, <2>2
  <1> HIDE DEF s1
  <1>6. s1.dirs[<<d1, m1>>] = src /\ ~Taken(s1, d2, m2) /\ Taken(s1, d1, m1)
    BY <1>1, <1>2, <1>5 DEF Taken
  <1>7. d2 # dst
    <2>1. dst # NoNode => ~Taken(s, dst, m2)
      BY <1>2
    <2>2. QED
      BY <2>1, NoNodeAssumption DEF Taken
  <1>8. s.kind[src] = "dir" => src # dst
    BY <1>1, <1>2, KeyFacts DEF Good, OneName, Taken, NamedKeys
  <1>9. s1.kind[d2] = "dir" /\ (s1.kind[src] = "dir" <=> s.kind[src] = "dir")
    <2>1. s1.kind[d2] = "dir" <=> (s.kind[d2] = "dir" /\ d2 # dst)
      BY <1>5
    <2>2. s1.kind[src] = "dir" <=> (s.kind[src] = "dir" /\ src # dst)
      BY <1>3, <1>5
    <2> HIDE DEF src, dst
    <2>3. QED
      BY <1>2, <1>7, <1>8, <2>1, <2>2
  <1>10. t = DelChild(AddChild(IF s.kind[src] = "dir"
                               THEN AddChild(DelChild(s1, src, ".."), src, "..", d2)
                               ELSE s1, d2, m2, src), d1, m1)
    BY DEF Renamed, s1
  <1>11. Moves(s1, t, d1, m1, d2, m2)
    <2>1. CASE s.kind[src] = "dir"
      BY <1>3, <1>5, <1>6, <1>9, <1>10, <2>1, MoveDir
    <2>2. CASE s.kind[src] # "dir"
      BY <1>5, <1>6, <1>9, <1>10, <2>2, MoveLeaf
    <2>3. QED
      BY <2>1, <2>2
  <1> HIDE DEF t
  <1>12. NewParent(s, t, src, d2)
    <2>1. \A x \in Ids : t.kind[x] = "dir" => s1.kind[x] = "dir"
      BY <1>11 DEF Moves
    <2>2. QED
      BY <1>5, <1>6, <1>11, <2>1 DEF Moves, NewParent, SameParents
  <1>13. \A x \in Ids : t.kind[x] \in {s.kind[x], "free"}
    <2>1. SUFFICES ASSUME NEW x \in Ids PROVE t.kind[x] \in {s.kind[x], "free"}
      OBVIOUS
    <2>2. t.kind[x] \in {s1.kind[x], "free"}
      BY <1>11 DEF Moves
    <2>3. s1.kind[x] \in {s.kind[x], "free"}
      BY <1>5
    <2>4. QED
      BY <2>2, <2>3
  <1>14. QED
    BY <1>1, <1>5, <1>6, <1>11, <1>12, <1>13 DEF Moves, t

-----------------------------------------------------------------------------
(* The handlers. *)

LEMMA Commits ==
    ASSUME NEW t \in States, Commit(t)
    PROVE  Db' = t
  BY DEF Commit, Db, States

(* What each handler does, when it is not refused. *)

LEMMA MakeEffect ==
    ASSUME IInv, NEW d \in Ids, NEW m \in Names, NEW id \in Ids, NEW k \in {"reg", "lnk"},
           IsDir(d), IsNextId(Db, id), Commit(PathCreate(Db, d, m, id, k))
    PROVE  Db' = Db \/ Creates(Db, Db', d, m, id, k)
  <1> DEFINE t == PathCreate(Db, d, m, id, k)
  <1>1. Good(Db)
    BY DEF IInv
  <1>2. CASE Taken(Db, d, m)
    <2>1. t = Db
      BY <1>1, <1>2, PathCreateTaken DEF Db, IsDir
    <2>2. QED
      BY <1>1, <2>1, Commits DEF Good
  <1>3. CASE ~Taken(Db, d, m)
    <2>1. Creates(Db, t, d, m, id, k)
      BY <1>1, <1>3, CreateGood DEF IsDir, Db
    <2> HIDE DEF t
    <2>2. Db' = t
      BY <2>1, Commits DEF Creates, Good, t
    <2>3. QED
      BY <2>1, <2>2
  <1>4. QED
    BY <1>2, <1>3

LEMMA MkdirEffect ==
    ASSUME IInv, NEW d \in Ids, NEW m \in Names, NEW id \in Ids, Mkdir(d, m, id)
    PROVE  Db' = Db \/ Creates(Db, Db', d, m, id, "dir")
  <1>1. Good(Db)
    BY DEF IInv
  <1>2. CASE Taken(Db, d, m)
    <2>1. PathCreate(Db, d, m, id, "dir") = Db
      BY <1>1, <1>2, PathCreateTaken DEF Mkdir
    <2>2. Commit(Db)
      BY <1>2, <2>1 DEF Mkdir
    <2>3. QED
      BY <1>1, <2>2, Commits DEF Good
  <1>3. CASE ~Taken(Db, d, m)
    <2> DEFINE t == AddChild(PathCreate(Db, d, m, id, "dir"), id, "..", d)
    <2>1. Creates(Db, t, d, m, id, "dir")
      BY <1>1, <1>3, MkdirGood DEF Mkdir, IsDir, Db
    <2>2. Commit(t)
      BY <1>3 DEF Mkdir
    <2> HIDE DEF t
    <2>3. Db' = t
      BY <2>1, <2>2, Commits DEF Creates, Good
    <2>4. QED
      BY <2>1, <2>3
  <1>4. QED
    BY <1>2, <1>3

LEMMA LinkEffect ==
    ASSUME IInv, NEW d \in Ids, NEW m \in Names, NEW n \in Ids,
           VfsAllowsLink(n), Link(n, d, m)
    PROVE  Db' = Db \/ Links(Db, Db', d, m, n)
  <1> DEFINE t == AddChild(Db, d, m, n)
  <1>1. Good(Db) /\ Db.kind[d] = "dir" /\ Db.kind[n] \notin {"free", "dir"} /\ Commit(t)
    BY DEF IInv, VfsAllowsLink, Link, IsDir, Db
  <1>2. CASE Taken(Db, d, m)
    <2>1. t = Db
      BY <1>1, <1>2, LinkTaken
    <2>2. QED
      BY <1>1, <2>1, Commits DEF Good
  <1>3. CASE ~Taken(Db, d, m)
    <2>1. Links(Db, t, d, m, n)
      BY <1>1, <1>3, AddLeafGood
    <2> HIDE DEF t
    <2>2. Db' = t
      BY <1>1, <2>1, Commits DEF Links, Good
    <2>3. QED
      BY <2>1, <2>2
  <1>4. QED
    BY <1>2, <1>3

LEMMA DropEffect ==
    ASSUME IInv, NEW d \in Ids, NEW m \in Names, NEW t, Drops(Db, t, d, m), Commit(t)
    PROVE  Drops(Db, Db', d, m)
  <1>1. Db' = t
    BY Commits DEF Drops, Good
  <1>2. QED
    BY <1>1

LEMMA UnlinkEffect ==
    ASSUME IInv, NEW d \in Ids, NEW m \in Names, IsDir(d), Taken(Db, d, m),
           kind[directories[<<d, m>>]] # "dir", Commit(DelChild(Db, d, m))
    PROVE  Drops(Db, Db', d, m)
  <1>1. Drops(Db, DelChild(Db, d, m), d, m)
    BY LeafDrops DEF IInv, IsDir, Db
  <1>2. QED
    BY <1>1, DropEffect

LEMMA RmdirEffect ==
    ASSUME IInv, NEW d \in Ids, NEW m \in Names, IsDir(d), Taken(Db, d, m),
           kind[directories[<<d, m>>]] = "dir",
           Cardinality(Children(Db, directories[<<d, m>>])) <= 2,
           Commit(DelChild(DelDots(Db, directories[<<d, m>>]), d, m))
    PROVE  Drops(Db, Db', d, m)
  <1> DEFINE n == directories[<<d, m>>]
  <1>1. Good(Db) /\ Db.kind = kind /\ Db.dirs = directories
    BY DEF IInv, Db
  <1>2. n \in Ids
    BY <1>1, EntriesLive, KeyFacts DEF Taken
  <1>3. \A x \in Names : ~Taken(Db, n, x)
    BY <1>1, <1>2, EmptyDirectory
  <1>4. Drops(Db, DelChild(DelDots(Db, n), d, m), d, m)
    BY <1>1, <1>2, <1>3, EmptyDirDrops DEF IsDir
  <1>5. QED
    BY <1>4, DropEffect

LEMMA RenameEffect ==
    ASSUME IInv, NEW d \in Ids, NEW m \in Names, NEW d2 \in Ids, NEW m2 \in Names,
           Rename(d, m, d2, m2)
    PROVE  MayMove(Db, d, m, d2, m2) /\ Moves(Db, Db', d, m, d2, m2)
  <1> DEFINE src == directories[<<d, m>>]
             dst == directories[<<d2, m2>>]
             t == Renamed(Db, d, m, d2, m2)
  <1>1. Good(Db) /\ Db.kind = kind /\ Db.dirs = directories
    BY DEF IInv, Db
  <1>2. /\ kind[d2] = "dir" /\ Taken(Db, d, m) /\ <<d, m>> # <<d2, m2>>
        /\ dst # NoNode => MayReplace(src, dst, d2)
        /\ Commit(t)
    BY DEF Rename, IsDir
  <1>3. ASSUME dst # NoNode
        PROVE  /\ kind[src] = "dir" <=> kind[dst] = "dir"
               /\ \A x \in Names : ~Taken(Db, dst, x)
    <2>1. dst \in Ids
      BY <1>1, <1>3, EntriesLive, KeyFacts
    <2>2. CASE kind[src] = "dir"
      BY <1>1, <1>2, <1>3, <2>1, <2>2, EmptyDirectory DEF MayReplace
    <2>3. CASE kind[src] # "dir"
      <3>1. kind[dst] # "dir"
        BY <1>2, <1>3, <2>3 DEF MayReplace
      <3>2. QED
        BY <1>1, <2>1, <2>3, <3>1, KeyFacts DEF Good, Owned, Taken
    <2>4. QED
      BY <2>2, <2>3
  <1>4. MayMove(Db, d, m, d2, m2)
    BY <1>1, <1>2, <1>3 DEF MayMove, Taken
  <1>5. Moves(Db, t, d, m, d2, m2)
    BY <1>1, <1>4, RenamedMoves
  <1> HIDE DEF t
  <1>6. Db' = t
    BY <1>2, <1>5, Commits DEF Moves, Good
  <1>7. QED
    BY <1>4, <1>5, <1>6

(* Every handler leaves the databases as they were or has one of the effects. *)
Effect(s, t) ==
    \/ t = s
    \/ \E d \in Ids, m \in Names :
          \/ \E id \in Ids, k \in Kinds \ {"free"} : Creates(s, t, d, m, id, k)
          \/ \E n \in Ids : Links(s, t, d, m, n)
          \/ Drops(s, t, d, m)
          \/ \E d2 \in Ids, m2 \in Names :
                /\ MayMove(s, d, m, d2, m2) /\ OutOfItself(s, d, m, d2)
                /\ Moves(s, t, d, m, d2, m2)

LEMMA NextEffect ==
    ASSUME IInv, Next
    PROVE  Effect(Db, Db')
  <1>1. PICK d \in Ids, m \in Names :
           \/ \E id \in Ids : Mknod(d, m, id) \/ Symlink(d, m, id) \/ Mkdir(d, m, id)
           \/ Unlink(d, m)
           \/ Rmdir(d, m)
           \/ \E n \in Ids : VfsAllowsLink(n) /\ Link(n, d, m)
           \/ \E d2 \in Ids, m2 \in Names :
                 VfsAllowsRename(directories[<<d, m>>], d2) /\ Rename(d, m, d2, m2)
    BY DEF Next
  <1>2. \A k \in {"reg", "lnk", "dir"} : k \in Kinds \ {"free"}
    BY DEF Kinds
  <1>3. ASSUME NEW id \in Ids, Mknod(d, m, id) \/ Symlink(d, m, id) \/ Mkdir(d, m, id)
        PROVE  Effect(Db, Db')
    <2>1. \/ Db' = Db
          \/ \E k \in {"reg", "lnk", "dir"} : Creates(Db, Db', d, m, id, k)
      BY <1>3, MakeEffect, MkdirEffect DEF Mknod, Symlink
    <2>2. QED
      BY <1>2, <2>1 DEF Effect
  <1>4. ASSUME Unlink(d, m) \/ Rmdir(d, m)
        PROVE  Effect(Db, Db')
    <2>1. Drops(Db, Db', d, m)
      BY <1>4, UnlinkEffect, RmdirEffect DEF Unlink, Rmdir
    <2>2. QED
      BY <2>1 DEF Effect
  <1>5. ASSUME NEW n \in Ids, VfsAllowsLink(n), Link(n, d, m)
        PROVE  Effect(Db, Db')
    BY <1>5, LinkEffect DEF Effect
  <1>6. ASSUME NEW d2 \in Ids, NEW m2 \in Names,
               VfsAllowsRename(directories[<<d, m>>], d2), Rename(d, m, d2, m2)
        PROVE  Effect(Db, Db')
    <2>1. MayMove(Db, d, m, d2, m2) /\ Moves(Db, Db', d, m, d2, m2)
      BY <1>6, RenameEffect
    <2>2. OutOfItself(Db, d, m, d2)
      BY <1>6 DEF VfsAllowsRename, OutOfItself, Db
    <2>3. QED
      BY <2>1, <2>2 DEF Effect
  <1>7. QED
    BY <1>1, <1>3, <1>4, <1>5, <1>6

(* Every handler takes a good state to a good state. *)
LEMMA NextGood ==
    ASSUME IInv, Next
    PROVE  IInv'
  <1>1. Effect(Db, Db') /\ Good(Db)
    BY NextEffect DEF IInv
  <1>2. Good(Db')
    BY <1>1 DEF Effect, Creates, Links, Drops, Moves
  <1>3. QED
    BY <1>2 DEF IInv

-----------------------------------------------------------------------------
(* The names tell everything. *)

(* A handler that leaves the names alone leaves everything alone. *)
LEMMA EffectShows ==
    ASSUME NEW s, Good(s), NEW t, Effect(s, t), \A k \in NamedKeys : t.dirs[k] = s.dirs[k]
    PROVE  t = s
  <1>1. \A d \in Ids, m \in Names : <<d, m>> \in NamedKeys /\ <<d, m>> \in Keys
    BY KeyFacts DEF NamedKeys
  <1>2. ASSUME NEW d \in Ids, NEW m \in Names, NEW id \in Ids, NEW k, Creates(s, t, d, m, id, k)
        PROVE  FALSE
    BY <1>1, <1>2, NoNodeAssumption DEF Creates, Taken
  <1>3. ASSUME NEW d \in Ids, NEW m \in Names, NEW n \in Ids, Links(s, t, d, m, n)
        PROVE  FALSE
    BY <1>1, <1>3, NoNodeAssumption DEF Links, Taken
  <1>4. ASSUME NEW d \in Ids, NEW m \in Names, Drops(s, t, d, m)
        PROVE  FALSE
    BY <1>1, <1>4 DEF Drops, Taken
  <1>5. ASSUME NEW d \in Ids, NEW m \in Names, NEW d2 \in Ids, NEW m2 \in Names,
               MayMove(s, d, m, d2, m2), Moves(s, t, d, m, d2, m2)
        PROVE  FALSE
    BY <1>1, <1>5 DEF MayMove, Moves, Taken
  <1>6. QED
    BY <1>2, <1>3, <1>4, <1>5 DEF Effect

-----------------------------------------------------------------------------
(* Nothing is detached. *)

(* The directories that ".." leads to from d, step by step. *)
LEMMA UpSteps ==
    ASSUME NEW s \in States, NEW d \in Ids
    PROVE  /\ Up(s, d) \in [0..MaxId -> Ids \cup {NoNode}]
           /\ Up(s, d)[0] = d
           /\ \A i \in 1..MaxId :
                Up(s, d)[i] = IF Up(s, d)[i - 1] \in Ids
                              THEN s.dirs[<<Up(s, d)[i - 1], "..">>] ELSE NoNode
  <1> DEFINE V == Ids \cup {NoNode}
             g == [a \in (0..MaxId) \X V |->
                     IF a[2] \in Ids THEN s.dirs[<<a[2], "..">>] ELSE NoNode]
             Is(f) == f = [i \in 0..MaxId |->
                             IF i = 0 THEN d
                             ELSE IF f[i - 1] \in Ids THEN s.dirs[<<f[i - 1], "..">>] ELSE NoNode]
  <1>1. g \in [(0..MaxId) \X V -> V]
    BY KeyFacts DEF States
  <1>a. d \in V
    OBVIOUS
  <1> HIDE DEF g
  <1> HIDE DEF V
  <1>b. PICK f : Iterates(f, MaxId, V, d, g)
    BY <1>1, <1>a, MaxIdAssumption, Iteration
  <1>2. f \in [0..MaxId -> V] /\ f[0] = d /\ \A i \in 1..MaxId : f[i] = g[<<i, f[i - 1]>>]
    BY <1>b DEF Iterates
  <1> USE DEF V
  <1>3. \A i \in 1..MaxId : f[i] = IF f[i - 1] \in Ids THEN s.dirs[<<f[i - 1], "..">>] ELSE NoNode
    <2>1. SUFFICES ASSUME NEW i \in 1..MaxId
                   PROVE  f[i] = IF f[i - 1] \in Ids THEN s.dirs[<<f[i - 1], "..">>] ELSE NoNode
      OBVIOUS
    <2>2. f[i] = g[<<i, f[i - 1]>>] /\ i \in 0..MaxId /\ f[i - 1] \in V
      BY <1>2, MaxIdAssumption
    <2>3. <<i, f[i - 1]>> \in (0..MaxId) \X V
      BY <2>2
    <2>4. QED
      BY <2>2, <2>3 DEF g
  <1>4. Is(f)
    BY <1>2, <1>3
  <1>5. Is(Up(s, d))
    <2>1. Is(CHOOSE h : Is(h))
      BY <1>4
    <2>2. QED
      BY <2>1 DEF Up
  <1> DEFINE U == Up(s, d)
  <1> HIDE DEF U
  <1>6. U = [i \in 0..MaxId |->
                             IF i = 0 THEN d
                             ELSE IF U[i - 1] \in Ids THEN s.dirs[<<U[i - 1], "..">>] ELSE NoNode]
    BY <1>5 DEF U
  <1>7. U[0] = d /\ \A i \in 1..MaxId :
           U[i] = IF U[i - 1] \in Ids THEN s.dirs[<<U[i - 1], "..">>] ELSE NoNode
    <2>1. U[0] = d
      BY <1>6, MaxIdAssumption
    <2>2. ASSUME NEW i \in 1..MaxId
          PROVE  U[i] = IF U[i - 1] \in Ids THEN s.dirs[<<U[i - 1], "..">>] ELSE NoNode
      <3>1. i \in 0..MaxId /\ i # 0
        BY MaxIdAssumption
      <3>2. QED
        BY <1>6, <3>1
    <2>3. QED
      BY <2>1, <2>2
  <1>8. \A i \in 0..MaxId : U[i] \in V
    BY <1>6, MaxIdAssumption, KeyFacts DEF States
  <1>9. U \in [0..MaxId -> V]
    BY <1>6, <1>8
  <1>10. QED
    BY <1>7, <1>9 DEF U

Dirs(s) == {n \in Ids : s.kind[n] = "dir"}

(* The directories of S have their parents in S. *)
ClosedUp(s, S) == \A n \in S : s.dirs[<<n, "..">>] \in S

(* Without reference to the length of a path: no set of directories other   *)
(* than one that holds the root is closed under "..".                       *)
Attached(s) == \A S \in SUBSET Dirs(s) : S # {} /\ ClosedUp(s, S) => Root \in S

(* ".." leads to directories only. *)
LEMMA UpDirs ==
    ASSUME NEW s, Good(s), NEW d \in Dirs(s)
    PROVE  /\ Up(s, d) \in [0..MaxId -> Dirs(s)]
           /\ Up(s, d)[0] = d
           /\ \A i \in 1..MaxId : Up(s, d)[i] = s.dirs[<<Up(s, d)[i - 1], "..">>]
  <1> DEFINE U == Up(s, d)
             T == {i \in 0..MaxId : U[i] \in Dirs(s)}
  <1>1. s \in States /\ d \in Ids
    BY DEF Good, Dirs
  <1>2. /\ U \in [0..MaxId -> Ids \cup {NoNode}]
        /\ U[0] = d
        /\ \A i \in 1..MaxId :
             U[i] = IF U[i - 1] \in Ids THEN s.dirs[<<U[i - 1], "..">>] ELSE NoNode
    BY <1>1, UpSteps
  <1> HIDE DEF U
  <1>3. 0 \in T
    BY <1>2, MaxIdAssumption
  <1>4. ASSUME NEW i \in 0..(MaxId - 1), i \in T
        PROVE  i + 1 \in T
    <2>1. i + 1 \in 1..MaxId /\ i + 1 \in 0..MaxId /\ (i + 1) - 1 = i
      BY MaxIdAssumption
    <2>2. U[i] \in Ids /\ s.kind[U[i]] = "dir"
      BY <1>4 DEF Dirs
    <2>3. U[i + 1] = s.dirs[<<U[i], "..">>]
      BY <1>2, <2>1, <2>2
    <2>4. U[i + 1] \in Dirs(s)
      BY <2>2, <2>3 DEF Good, DotsHeld, Dirs
    <2>5. QED
      BY <2>1, <2>4
  <1> HIDE DEF T
  <1>5. 0..MaxId \subseteq T
    BY <1>3, <1>4, MaxIdAssumption, SetInduction
  <1>6. \A i \in 0..MaxId : U[i] \in Dirs(s)
    BY <1>5 DEF T
  <1>7. \A i \in 1..MaxId : U[i] = s.dirs[<<U[i - 1], "..">>]
    <2>1. \A i \in 1..MaxId : i - 1 \in 0..MaxId
      BY MaxIdAssumption
    <2>2. QED
      BY <1>2, <1>6, <2>1 DEF Dirs
  <1>8. U \in [0..MaxId -> Dirs(s)]
    BY <1>2, <1>6
  <1>9. QED
    BY <1>2, <1>7, <1>8 DEF U

(* ".." leads to the root: MaxId steps cannot visit MaxId + 1 directories    *)
(* other than the root, and if they come back the set they visit is closed.  *)
LEMMA UpReachesRoot ==
    ASSUME NEW s, Good(s), Attached(s), NEW d \in Dirs(s)
    PROVE  \E i \in 0..MaxId : Up(s, d)[i] = Root
  <1> DEFINE U == Up(s, d)
  <1>1. /\ U \in [0..MaxId -> Dirs(s)]
        /\ U[0] = d
        /\ \A i \in 1..MaxId : U[i] = s.dirs[<<U[i - 1], "..">>]
    BY UpDirs
  <1> HIDE DEF U
  <1>2. SUFFICES ASSUME \A i \in 0..MaxId : U[i] # Root PROVE FALSE
    BY DEF U
  <1>3. ASSUME NEW i \in 0..MaxId, NEW j \in 0..MaxId, i < j, U[i] = U[j]
        PROVE  FALSE
    <2> DEFINE S == {U[k] : k \in 0..(j - 1)}
    <2>1. S \in SUBSET Dirs(s)
      BY <1>1, <1>3, MaxIdAssumption
    <2>2. S # {}
      BY <1>3
    <2>3. ASSUME NEW k \in 0..(j - 1)
          PROVE  s.dirs[<<U[k], "..">>] \in S
      <3>1. k + 1 \in 1..MaxId /\ (k + 1) - 1 = k
        BY <1>3, MaxIdAssumption
      <3>2. U[k + 1] = s.dirs[<<U[k], "..">>]
        BY <1>1, <3>1
      <3>3. CASE k + 1 = j
        <4>1. U[k + 1] = U[i] /\ i \in 0..(j - 1)
          BY <1>3, <3>3
        <4>2. QED
          BY <3>2, <4>1
      <3>4. CASE k + 1 # j
        <4>1. k + 1 \in 0..(j - 1)
          BY <1>3, <3>4
        <4>2. QED
          BY <3>2, <4>1
      <3>5. QED
        BY <3>3, <3>4
    <2>4. ClosedUp(s, S)
      BY <2>3 DEF ClosedUp
    <2>5. Root \notin S
      BY <1>2, <1>3, MaxIdAssumption
    <2> HIDE DEF S
    <2>6. QED
      BY <2>1, <2>2, <2>4, <2>5 DEF Attached
  <1>4. IsFiniteSet(0..MaxId) /\ Cardinality(0..MaxId) = MaxId + 1
    BY MaxIdAssumption, FS_Interval
  <1> DEFINE R == Ids \ {Root}
  <1>5. IsFiniteSet(R) /\ Cardinality(R) < Cardinality(0..MaxId)
    <2>1. R = 1..MaxId
      BY MaxIdAssumption DEF Ids, Root
    <2>2. IsFiniteSet(1..MaxId) /\ Cardinality(1..MaxId) = MaxId
      BY MaxIdAssumption, FS_Interval
    <2>3. MaxId < MaxId + 1
      BY MaxIdAssumption
    <2>4. QED
      BY <1>4, <2>1, <2>2, <2>3
  <1>6. U \in [0..MaxId -> R]
    BY <1>1, <1>2 DEF Dirs
  <1> HIDE DEF R
  <1>7. PICK i, j \in 0..MaxId : i # j /\ U[i] = U[j]
    BY <1>4, <1>5, <1>6, FS_PigeonHole
  <1>8. QED
    BY <1>3, <1>7

(* No handler takes a directory off the root; rename, because it does not    *)
(* move a directory below itself: the parents of the new parent then lead    *)
(* to the root without the directory that moves.                             *)
LEMMA EffectAttached ==
    ASSUME NEW s, Good(s), Attached(s), NEW t, Effect(s, t)
    PROVE  Attached(t)
  <1>1. ASSUME NEW S \in SUBSET Dirs(t), S # {}, ClosedUp(t, S), S \subseteq Dirs(s),
               \A x \in S : t.dirs[<<x, "..">>] = s.dirs[<<x, "..">>]
        PROVE  Root \in S
    <2>1. ClosedUp(s, S)
      BY <1>1 DEF ClosedUp
    <2>2. QED
      BY <1>1, <2>1 DEF Attached
  <1>2. SUFFICES ASSUME NEW S \in SUBSET Dirs(t), S # {}, ClosedUp(t, S)
                 PROVE  Root \in S
    BY DEF Attached
  <1>3. \A x \in S : x \in Ids /\ t.kind[x] = "dir"
    BY DEF Dirs
  <1>4. CASE t = s
    BY <1>1, <1>2, <1>4
  <1>5. ASSUME NEW d \in Ids, NEW m \in Names, NEW id \in Ids, NEW k, Creates(s, t, d, m, id, k)
        PROVE  Root \in S
    <2>1. \A x \in S : t.dirs[<<x, "..">>] = IF x = id THEN d ELSE s.dirs[<<x, "..">>]
      BY <1>3, <1>5 DEF Creates, NewParent
    <2>2. \A x \in S : x # id => x \in Dirs(s)
      BY <1>3, <1>5 DEF Creates, Dirs
    <2>3. CASE id \notin S
      BY <1>1, <1>2, <2>1, <2>2, <2>3
    <2>4. CASE id \in S
      <3> DEFINE S2 == S \ {id}
      <3>1. d \in S2
        BY <1>2, <1>5, <2>1, <2>4 DEF ClosedUp, Creates
      <3>2. ASSUME NEW x \in S2 PROVE s.dirs[<<x, "..">>] \in S2
        <4>1. s.dirs[<<x, "..">>] \in S
          BY <1>2, <2>1 DEF ClosedUp
        <4>2. s.dirs[<<x, "..">>] # id
          BY <1>5, <2>2 DEF Creates, Dirs, Good, DotsHeld
        <4>3. QED
          BY <4>1, <4>2
      <3>3. S2 \in SUBSET Dirs(s)
        BY <2>2
      <3> HIDE DEF S2
      <3>4. Root \in S2
        BY <3>1, <3>2, <3>3 DEF Attached, ClosedUp
      <3>5. QED
        BY <3>4 DEF S2
    <2>5. QED
      BY <2>3, <2>4
  <1>6. ASSUME NEW d \in Ids, NEW m \in Names, NEW n \in Ids, Links(s, t, d, m, n)
        PROVE  Root \in S
    <2>1. /\ \A x \in S : t.dirs[<<x, "..">>] = s.dirs[<<x, "..">>]
          /\ S \subseteq Dirs(s)
      BY <1>3, <1>6 DEF Links, SameParents, Dirs
    <2>2. QED
      BY <1>1, <1>2, <2>1
  <1>7. ASSUME NEW d \in Ids, NEW m \in Names, Drops(s, t, d, m)
        PROVE  Root \in S
    <2>1. /\ \A x \in S : t.dirs[<<x, "..">>] = s.dirs[<<x, "..">>]
          /\ S \subseteq Dirs(s)
      BY <1>3, <1>7 DEF Drops, SameParents, Dirs
    <2>2. QED
      BY <1>1, <1>2, <2>1
  <1>8. ASSUME NEW d1 \in Ids, NEW m1 \in Names, NEW d2 \in Ids, NEW m2 \in Names,
               MayMove(s, d1, m1, d2, m2), OutOfItself(s, d1, m1, d2),
               Moves(s, t, d1, m1, d2, m2)
        PROVE  Root \in S
    <2> DEFINE src == s.dirs[<<d1, m1>>]
    <2>1. \A x \in S : /\ x \in Dirs(s)
                       /\ t.dirs[<<x, "..">>] = IF x = src THEN d2 ELSE s.dirs[<<x, "..">>]
      <3>1. SUFFICES ASSUME NEW x \in S
                     PROVE  /\ x \in Dirs(s)
                            /\ t.dirs[<<x, "..">>] = IF x = src THEN d2 ELSE s.dirs[<<x, "..">>]
        OBVIOUS
      <3>2. x \in Ids /\ t.kind[x] = "dir"
        BY <1>3
      <3>3. t.kind[x] \in {s.kind[x], "free"}
        BY <1>8, <3>2 DEF Moves
      <3>4. QED
        BY <1>8, <3>2, <3>3 DEF Moves, NewParent, Dirs
    <2>2. CASE src \notin S
      BY <1>1, <1>2, <2>1, <2>2
    <2>3. CASE src \in S
      <3> DEFINE U == Up(s, d2)
                 T == {i \in 0..MaxId : U[i] \in S}
      <3>1. d2 \in S /\ d2 \in Dirs(s)
        BY <1>2, <2>1, <2>3 DEF ClosedUp
      <3>2. s.kind[src] = "dir" /\ src # Root
        BY <2>1, <2>3, <1>8, KeyFacts DEF Dirs, Good, Rooted
      <3>3. \A i \in 0..MaxId : U[i] # src
        BY <1>8, <3>2 DEF OutOfItself, IsWithin
      <3>4. /\ U[0] = d2
            /\ \A i \in 1..MaxId : U[i] = s.dirs[<<U[i - 1], "..">>]
        BY <3>1, UpDirs
      <3>5. PICK r \in 0..MaxId : U[r] = Root
        BY <3>1, UpReachesRoot
      <3> HIDE DEF U
      <3>6. 0 \in T
        BY <3>1, <3>4, MaxIdAssumption
      <3>7. ASSUME NEW i \in 0..(MaxId - 1), i \in T
            PROVE  i + 1 \in T
        <4>1. i + 1 \in 1..MaxId /\ i + 1 \in 0..MaxId /\ (i + 1) - 1 = i
          BY MaxIdAssumption
        <4>2. U[i + 1] = s.dirs[<<U[i], "..">>]
          BY <3>4, <4>1
        <4>3. U[i] \in S /\ U[i] # src
          BY <3>3, <3>7
        <4>4. s.dirs[<<U[i], "..">>] \in S
          BY <1>2, <2>1, <4>3 DEF ClosedUp
        <4>5. QED
          BY <4>1, <4>2, <4>4
      <3> HIDE DEF T
      <3>8. 0..MaxId \subseteq T
        BY <3>6, <3>7, MaxIdAssumption, SetInduction
      <3>9. QED
        BY <3>5, <3>8 DEF T
    <2>4. QED
      BY <2>2, <2>3
  <1>9. QED
    BY <1>4, <1>5, <1>6, <1>7, <1>8 DEF Effect

-----------------------------------------------------------------------------
(* The tree. *)

(* A register is there exactly when it is the root or a name leads to it:    *)
(* "." and ".." name directories only, and a directory has a name besides.   *)
LEMMA LiveIffNamed ==
    ASSUME NEW s, Good(s), NEW n \in Ids
    PROVE  s.kind[n] # "free" <=> (n = Root \/ \E k \in NamedKeys : s.dirs[k] = n)
  <1>1. ASSUME n = Root PROVE s.kind[n] # "free"
    BY <1>1 DEF Good, Rooted
  <1>2. ASSUME NEW k \in NamedKeys, s.dirs[k] = n PROVE s.kind[n] # "free"
    BY <1>2, EntriesLive, KeyFacts, NoNodeAssumption DEF NamedKeys
  <1>3. ASSUME s.kind[n] = "dir", n # Root PROVE \E k \in NamedKeys : s.dirs[k] = n
    <2>1. PICK m \in Names : s.dirs[<<s.dirs[<<n, "..">>], m>>] = n
      BY <1>3 DEF Good, NamedByParent
    <2>2. s.dirs[<<n, "..">>] \in Ids
      BY <1>3 DEF Good, DotsHeld
    <2>3. QED
      BY <2>1, <2>2 DEF NamedKeys
  <1>4. ASSUME s.kind[n] \notin {"free", "dir"} PROVE \E k \in NamedKeys : s.dirs[k] = n
    <2>1. RefsIn(s.dirs, n) # {}
      <3>1. s.nlink[n] # 0 /\ s.nlink[n] = Cardinality(RefsIn(s.dirs, n))
        BY <1>4 DEF Good, LiveIffLinked, Exact
      <3>2. QED
        BY <3>1, RefsFinite
    <2>2. PICK k \in Keys : s.dirs[k] = n
      BY <2>1 DEF RefsIn
    <2>3. /\ k = <<k[1], k[2]>> /\ k[1] \in Ids
          /\ k[2] \in Names \/ k[2] = "." \/ k[2] = ".."
      BY KeyFacts
    <2>4. s.kind[k[1]] = "dir"
      BY <2>2, NoNodeAssumption DEF Good, Owned
    <2>5. s.dirs[<<k[1], ".">>] = k[1] /\ s.kind[s.dirs[<<k[1], "..">>]] = "dir"
      BY <2>3, <2>4 DEF Good, DotsHeld
    <2>6. k[2] # "."
      BY <1>4, <2>2, <2>3, <2>4, <2>5
    <2>7. k[2] # ".."
      BY <1>4, <2>2, <2>3, <2>5
    <2>8. k \in NamedKeys
      BY <2>3, <2>6, <2>7 DEF NamedKeys
    <2>9. QED
      BY <2>2, <2>8
  <1>5. QED
    BY <1>1, <1>2, <1>3, <1>4

-----------------------------------------------------------------------------
(* The databases implement the tree. *)

Entry == [k \in Ids \X Names |-> directories[k]]

LEMMA TreeCardinality == \A S : Tree!Cardinality(S) = Cardinality(S)
  BY DEF Tree!Cardinality, Cardinality

(* What the abstract step may go through: the directories above d are on the *)
(* way from d to the root that ".." leads.                                   *)
LEMMA AboveIsUp ==
    ASSUME IInv, Attached(Db), NEW d \in Dirs(Db)
    PROVE  \A n \in Tree!Above(d) : \E i \in 0..MaxId : Up(Db, d)[i] = n
  <1> DEFINE U == Up(Db, d)
             N == Cardinality(Ids)
             V == SUBSET Ids
             Parents(S) == {k[1] : k \in {k \in DOMAIN Entry : Entry[k] \in S}}
             g == [a \in (0..N) \X V |-> a[2] \cup Parents(a[2])]
             Is(f) == f = [i \in 0..N |-> IF i = 0 THEN {d} ELSE f[i - 1] \cup Parents(f[i - 1])]
  <1>1. N \in Nat
    BY MaxIdAssumption, FS_Interval, FS_CardinalityType DEF Ids
  <1>2. d \in Ids /\ {d} \in V
    BY DEF Dirs
  <1>3. g \in [(0..N) \X V -> V]
    <2>1. \A S : Parents(S) \in V
      BY DEF Entry
    <2> HIDE DEF Parents
    <2>2. QED
      BY <2>1
  <1> HIDE DEF N, V, g
  <1>4. PICK f : Iterates(f, N, V, {d}, g)
    BY <1>1, <1>2, <1>3, Iteration
  <1>5. f \in [0..N -> V] /\ f[0] = {d} /\ \A i \in 1..N : f[i] = g[<<i, f[i - 1]>>]
    BY <1>4 DEF Iterates
  <1>6. \A i \in 1..N : f[i] = f[i - 1] \cup Parents(f[i - 1])
    <2>1. SUFFICES ASSUME NEW i \in 1..N PROVE f[i] = f[i - 1] \cup Parents(f[i - 1])
      OBVIOUS
    <2>2. f[i] = g[<<i, f[i - 1]>>] /\ <<i, f[i - 1]>> \in (0..N) \X V
      BY <1>1, <1>5
    <2>3. QED
      BY <2>2 DEF g
  <1>7. Is(f)
    <2> HIDE DEF Parents
    <2>1. QED
      BY <1>1, <1>5, <1>6
  <1>8. PICK h : Is(h) /\ Tree!Above(d) = h[N]
    <2>1. Is(CHOOSE h : Is(h))
      BY <1>7
    <2>2. QED
      BY <2>1, TreeCardinality DEF Tree!Above, Entry, N
  <1>9. h[0] = {d} /\ \A i \in 1..N : h[i] = h[i - 1] \cup Parents(h[i - 1])
    <2> HIDE DEF Parents
    <2>1. h = [i \in 0..N |-> IF i = 0 THEN {d} ELSE h[i - 1] \cup Parents(h[i - 1])]
      BY <1>8
    <2>2. h[0] = {d}
      BY <1>1, <2>1
    <2>3. ASSUME NEW i \in 1..N PROVE h[i] = h[i - 1] \cup Parents(h[i - 1])
      <3>1. i \in 0..N /\ i # 0
        BY <1>1
      <3>2. QED
        BY <2>1, <3>1
    <2>4. QED
      BY <2>2, <2>3
  <1>10. /\ U \in [0..MaxId -> Dirs(Db)]
         /\ U[0] = d
         /\ \A i \in 1..MaxId : U[i] = Db.dirs[<<U[i - 1], "..">>]
    BY UpDirs DEF IInv
  <1>11. PICK r \in 0..MaxId : U[r] = Root
    BY UpReachesRoot DEF IInv
  <1> HIDE DEF U
  <1> DEFINE P == {U[i] : i \in 0..r}
             T == {i \in 0..N : h[i] \subseteq P}
  <1>12. Parents(P) \subseteq P
    <2>1. SUFFICES ASSUME NEW k \in NamedKeys, Db.dirs[k] \in P PROVE k[1] \in P
      BY DEF Entry, NamedKeys, Db
    <2>2. PICK j \in 0..r : Db.dirs[k] = U[j]
      BY <2>1
    <2>3. k \in Keys /\ k[2] \in Names /\ k = <<k[1], k[2]>>
      BY KeyFacts DEF NamedKeys
    <2>4. U[j] # Root /\ U[j] \in Dirs(Db)
      BY <1>10, <1>11, <2>2, <2>3, MaxIdAssumption DEF IInv, Good, Rooted
    <2>5. j # r
      BY <1>11, <2>4
    <2>6. j + 1 \in 1..MaxId /\ (j + 1) - 1 = j /\ j + 1 \in 0..r
      BY <2>5, MaxIdAssumption
    <2>7. U[j + 1] = Db.dirs[<<U[j], "..">>]
      BY <1>10, <2>6
    <2>8. PICK m \in Names : Db.dirs[<<U[j + 1], m>>] = U[j]
      BY <2>4, <2>7 DEF IInv, Good, NamedByParent, Dirs
    <2>9. <<U[j + 1], m>> \in Keys
      BY <1>10, <2>6, KeyFacts, MaxIdAssumption DEF Dirs
    <2>10. k = <<U[j + 1], m>>
      BY <2>2, <2>3, <2>4, <2>8, <2>9, NoNodeAssumption DEF IInv, Good, OneName, Dirs
    <2>11. QED
      BY <2>6, <2>10
  <1>13. 0 \in T
    BY <1>1, <1>9, <1>10, <1>11
  <1>14. ASSUME NEW i \in 0..(N - 1), i \in T
         PROVE  i + 1 \in T
    <2>1. i + 1 \in 1..N /\ i + 1 \in 0..N /\ (i + 1) - 1 = i
      BY <1>1
    <2>2. h[i] \subseteq P
      BY <1>14
    <2>3. Parents(h[i]) \subseteq Parents(P)
      BY <2>2
    <2> HIDE DEF Parents, P
    <2>4. h[i + 1] = h[i] \cup Parents(h[i])
      BY <1>9, <2>1
    <2>5. QED
      BY <1>12, <2>1, <2>2, <2>3, <2>4
  <1> HIDE DEF T, P
  <1>15. 0..N \subseteq T
    BY <1>1, <1>13, <1>14, SetInduction
  <1>16. h[N] \subseteq P
    BY <1>1, <1>15 DEF T
  <1>17. QED
    <2>1. \A n \in h[N] : \E i \in 0..MaxId : U[i] = n
      BY <1>16, MaxIdAssumption DEF P
    <2> HIDE DEF Is
    <2>2. QED
      BY <1>8, <2>1 DEF U

(* In the tree a node lives exactly as long as it is named, and so here. *)
LEMMA BecomesOf ==
    ASSUME IInv', NEW e \in [NamedKeys -> Ids \cup {NoNode}], NEW tt,
           \A k \in NamedKeys : directories'[k] = e[k],
           \A x \in Ids : kind'[x] \in {tt[x], "free"}
    PROVE  /\ [k \in Ids \X Names |-> directories'[k]] = e
           /\ kind' = [n \in Ids |-> IF n = Root \/ Tree!NamesOf(e, n) # {} THEN tt[n] ELSE "free"]
  <1>1. Good(Db') /\ Db'.kind = kind' /\ Db'.dirs = directories'
    BY DEF IInv, Db
  <1>2. [k \in Ids \X Names |-> directories'[k]] = e
    BY DEF NamedKeys
  <1>3. kind' = [n \in Ids |-> IF n = Root \/ Tree!NamesOf(e, n) # {} THEN tt[n] ELSE "free"]
    <2>1. ASSUME NEW n \in Ids
          PROVE  kind'[n] = IF n = Root \/ Tree!NamesOf(e, n) # {} THEN tt[n] ELSE "free"
      <3>1. Tree!NamesOf(e, n) # {} <=> \E k \in NamedKeys : Db'.dirs[k] = n
        BY <1>1 DEF Tree!NamesOf
      <3>2. kind'[n] # "free" <=> (n = Root \/ Tree!NamesOf(e, n) # {})
        BY <1>1, <3>1, LiveIffNamed
      <3>3. QED
        BY <3>2
    <2>2. kind' \in [Ids -> Kinds]
      BY <1>1 DEF Good, States
    <2>3. QED
      BY <2>1, <2>2
  <1>4. QED
    BY <1>2, <1>3

LEMMA NextIsTree ==
    ASSUME IInv, Attached(Db), IInv', Next
    PROVE  [Tree!Next]_<<kind, Entry>>
  <1> DEFINE s == Db
             t == Db'
  <1>1. Good(s) /\ Good(t) /\ Effect(s, t)
    BY NextEffect DEF IInv
  <1>2. /\ s.kind = kind /\ s.dirs = directories /\ t.kind = kind' /\ t.dirs = directories'
        /\ s = [kind |-> kind, nlink |-> nlink, dirs |-> directories]
        /\ t = [kind |-> kind', nlink |-> nlink', dirs |-> directories']
    BY DEF Db
  <1>3. /\ Entry \in [NamedKeys -> Ids \cup {NoNode}]
        /\ \A d \in Ids, m \in Names : <<d, m>> \in NamedKeys
        /\ \A k \in NamedKeys : Entry[k] = s.dirs[k] /\ k \in Keys
    BY <1>1, <1>2, KeyFacts DEF Entry, NamedKeys, Good, States
  <1>4. \A d \in Ids, m \in Names : Tree!Free(d, m) <=> ~Taken(s, d, m)
    BY <1>2, <1>3 DEF Tree!Free, Taken, Entry
  <1>5. CASE t = s
    <2>1. UNCHANGED <<kind, directories>>
      BY <1>2, <1>5
    <2>2. QED
      BY <2>1 DEF Entry
  <1>6. ASSUME NEW d \in Ids, NEW m \in Names, NEW id \in Ids, NEW k \in Kinds \ {"free"},
               Creates(s, t, d, m, id, k)
        PROVE  Tree!Next
    <2> DEFINE e == [Entry EXCEPT ![<<d, m>>] = id]
               tt == [kind EXCEPT ![id] = k]
    <2>1. Tree!Becomes(e, tt)
      <3>1. e \in [NamedKeys -> Ids \cup {NoNode}]
        BY <1>3
      <3>2. \A j \in NamedKeys : directories'[j] = e[j]
        BY <1>2, <1>3, <1>6 DEF Creates
      <3>3. \A x \in Ids : kind'[x] \in {tt[x], "free"}
        BY <1>1, <1>2, <1>6 DEF Creates, Good, States
      <3> HIDE DEF e, tt
      <3>4. QED
        BY <3>1, <3>2, <3>3, BecomesOf DEF Tree!Becomes
    <2>2. Tree!Create(d, m, id, k)
      BY <1>2, <1>4, <1>6, <2>1 DEF Tree!Create, Creates, Entry
    <2>3. k \in {"dir", "reg", "lnk"}
      BY DEF Kinds
    <2>4. QED
      BY <2>2, <2>3 DEF Tree!Next
  <1>7. ASSUME NEW d \in Ids, NEW m \in Names, NEW n \in Ids, Links(s, t, d, m, n)
        PROVE  Tree!Next
    <2> DEFINE e == [Entry EXCEPT ![<<d, m>>] = n]
    <2>1. Tree!Becomes(e, kind)
      <3>1. e \in [NamedKeys -> Ids \cup {NoNode}]
        BY <1>3
      <3>2. \A j \in NamedKeys : directories'[j] = e[j]
        BY <1>2, <1>3, <1>7 DEF Links
      <3>3. \A x \in Ids : kind'[x] \in {kind[x], "free"}
        BY <1>2, <1>7 DEF Links
      <3> HIDE DEF e
      <3>4. QED
        BY <3>1, <3>2, <3>3, BecomesOf DEF Tree!Becomes
    <2>2. Tree!AddName(d, m, n)
      BY <1>2, <1>4, <1>7, <2>1 DEF Tree!AddName, Links, Entry
    <2>3. QED
      BY <2>2 DEF Tree!Next
  <1>8. ASSUME NEW d \in Ids, NEW m \in Names, Drops(s, t, d, m)
        PROVE  Tree!Next
    <2> DEFINE e == [Entry EXCEPT ![<<d, m>>] = NoNode]
    <2>1. Tree!Becomes(e, kind)
      <3>1. e \in [NamedKeys -> Ids \cup {NoNode}]
        BY <1>3
      <3>2. \A j \in NamedKeys : directories'[j] = e[j]
        BY <1>2, <1>3, <1>8 DEF Drops
      <3>3. \A x \in Ids : kind'[x] \in {kind[x], "free"}
        BY <1>2, <1>8 DEF Drops
      <3> HIDE DEF e
      <3>4. QED
        BY <3>1, <3>2, <3>3, BecomesOf DEF Tree!Becomes
    <2>2. Entry[<<d, m>>] = s.dirs[<<d, m>>] /\ s.dirs[<<d, m>>] \in Ids
      BY <1>1, <1>3, <1>8, EntriesLive DEF Drops, Taken
    <2>3. Tree!Empty(Entry[<<d, m>>])
      BY <1>4, <1>8, <2>2 DEF Tree!Empty, Drops
    <2>4. Tree!RemoveName(d, m)
      BY <1>4, <1>8, <2>1, <2>3 DEF Tree!RemoveName, Drops, Entry
    <2>5. QED
      BY <2>4 DEF Tree!Next
  <1>9. ASSUME NEW d1 \in Ids, NEW m1 \in Names, NEW d2 \in Ids, NEW m2 \in Names,
               MayMove(s, d1, m1, d2, m2), OutOfItself(s, d1, m1, d2),
               Moves(s, t, d1, m1, d2, m2)
        PROVE  Tree!Next
    <2> DEFINE src == Entry[<<d1, m1>>]
               dst == Entry[<<d2, m2>>]
               e == [Entry EXCEPT ![<<d2, m2>>] = src, ![<<d1, m1>>] = NoNode]
    <2>1. /\ src = s.dirs[<<d1, m1>>] /\ dst = s.dirs[<<d2, m2>>]
          /\ src \in Ids /\ (dst # NoNode => dst \in Ids)
      BY <1>1, <1>3, <1>9, EntriesLive DEF MayMove, Taken
    <2> HIDE DEF src, dst
    <2>2. /\ kind[d2] = "dir" /\ Taken(s, d1, m1) /\ <<d1, m1>> # <<d2, m2>>
          /\ Taken(s, d2, m2) => /\ kind[src] = "dir" <=> kind[dst] = "dir"
                                 /\ \A x \in Names : ~Taken(s, dst, x)
          /\ kind[src] = "dir" => ~IsWithin(s, d2, src)
      BY <1>2, <1>9, <2>1 DEF MayMove, OutOfItself
    <2>3. Tree!Becomes(e, kind)
      <3>1. e \in [NamedKeys -> Ids \cup {NoNode}]
        BY <1>3, <2>1
      <3>2. \A j \in NamedKeys : directories'[j] = e[j]
        BY <1>2, <1>3, <1>9, <2>1, <2>2 DEF Moves
      <3>3. \A x \in Ids : kind'[x] \in {kind[x], "free"}
        BY <1>2, <1>9 DEF Moves
      <3> HIDE DEF e
      <3>4. QED
        BY <3>1, <3>2, <3>3, BecomesOf DEF Tree!Becomes
    <2>4. kind[src] = "dir" => src \notin Tree!Above(d2)
      <3>1. src # Root
        BY <1>1, <1>3, <2>1, KeyFacts DEF Good, Rooted
      <3>2. d2 \in Dirs(s)
        BY <1>2, <2>2 DEF Dirs
      <3>3. kind[src] = "dir" => \A i \in 0..MaxId : Up(s, d2)[i] # src
        BY <2>2, <3>1 DEF IsWithin
      <3>4. QED
        BY <3>2, <3>3, AboveIsUp
    <2>5. dst # NoNode => (kind[src] = "dir") = (kind[dst] = "dir") /\ Tree!Empty(dst)
      <3>1. dst # NoNode => Taken(s, d2, m2)
        BY <2>1 DEF Taken
      <3>2. dst # NoNode => Tree!Empty(dst)
        BY <1>4, <2>1, <2>2, <3>1 DEF Tree!Empty
      <3>3. QED
        BY <2>2, <3>1, <3>2
    <2>6. Tree!Move(d1, m1, d2, m2)
      <3>1. ~Tree!Free(d1, m1)
        BY <1>4, <2>2
      <3>2. QED
        BY <2>2, <2>3, <2>4, <2>5, <3>1 DEF Tree!Move, src, dst, Entry
    <2>7. QED
      BY <2>6 DEF Tree!Next
  <1>10. QED
    BY <1>1, <1>5, <1>6, <1>7, <1>8, <1>9 DEF Effect

LEMMA InitIsTree == Init => Tree!Init /\ IInv /\ Attached(Db)
  <1> SUFFICES ASSUME Init PROVE Tree!Init /\ IInv /\ Attached(Db)
    OBVIOUS
  <1> USE KeyFacts
  <1>1. Good(Rebuilt)
    BY RebuiltGood
  <1>2. Db = Rebuilt
    <2>1. Rebuilt \in States
      BY <1>1 DEF Good
    <2>2. QED
      BY <2>1 DEF Init, Db, States
  <1>3. IInv /\ Db.kind = kind /\ Db.dirs = directories
    BY <1>1, <1>2 DEF IInv, Db
  <1>4. \A n \in Ids : kind[n] = IF n = Root THEN "dir" ELSE "free"
    BY RebuiltGood, <1>2, <1>3
  <1>5. \A k \in NamedKeys : directories[k] = NoNode
    BY RebuiltGood, <1>2, <1>3 DEF NamedKeys
  <1>6. Attached(Db)
    BY <1>3, <1>4 DEF Attached, Dirs
  <1>7. kind \in [Ids -> Kinds]
    BY <1>3 DEF IInv, Good, States
  <1>8. Tree!Init
    BY <1>4, <1>5, <1>7 DEF Tree!Init, NamedKeys
  <1>9. QED
    BY <1>3, <1>6, <1>8

-----------------------------------------------------------------------------
(* What the invariant says of the properties. *)

LEMMA GoodCounts == IInv => LinkCountExact
  BY DEF IInv, Good, Exact, RefsIn, Refs, Db, LinkCountExact

LEMMA GoodNames == IInv => NodeIffNamed
  <1>1. SUFFICES ASSUME IInv, NEW n \in Ids
                 PROVE  kind[n] # "free" <=> Refs(n) # {}
    BY DEF NodeIffNamed
  <1>2. nlink[n] = Cardinality(Refs(n)) /\ (kind[n] = "free" <=> nlink[n] = 0)
    BY <1>1 DEF IInv, Good, Exact, LiveIffLinked, RefsIn, Refs, Db
  <1>3. Cardinality(Refs(n)) = 0 <=> Refs(n) = {}
    BY RefsFinite DEF RefsIn, Refs
  <1>4. QED
    BY <1>2, <1>3

LEMMA GoodTree == IInv => TreeShape
  <1>1. SUFFICES ASSUME IInv PROVE TreeShape
    OBVIOUS
  <1>2. /\ Good(Db) /\ Db.kind = kind /\ Db.dirs = directories
    BY <1>1 DEF IInv, Db
  <1>3. \A k \in Keys : directories[k] # NoNode => kind[k[1]] = "dir"
    BY <1>2 DEF Good, Owned
  <1>4. ASSUME NEW d \in Ids, kind[d] = "dir"
        PROVE  /\ directories[<<d, ".">>] = d
               /\ {k \in Refs(d) : k[2] \in Names} =
                    IF d = Root THEN {}
                    ELSE {k \in Refs(d) : k[2] \in Names /\ k[1] = directories[<<d, "..">>]}
               /\ d # Root => Cardinality({k \in Refs(d) : k[2] \in Names}) = 1
    <2> DEFINE N == {k \in Refs(d) : k[2] \in Names}
    <2>1. directories[<<d, ".">>] = d /\ directories[<<d, "..">>] \in Ids
      BY <1>2, <1>4 DEF Good, DotsHeld
    <2>2. CASE d = Root
      <3>1. N = {}
        BY <1>2, <2>2 DEF Good, Rooted, Refs
      <3>2. QED
        BY <2>1, <2>2, <3>1
    <2>3. CASE d # Root
      <3>1. PICK m \in Names : directories[<<directories[<<d, "..">>], m>>] = d
        BY <1>2, <1>4, <2>3 DEF Good, NamedByParent
      <3> DEFINE key == <<directories[<<d, "..">>], m>>
      <3>2. key \in Keys /\ key[2] \in Names /\ key[1] = directories[<<d, "..">>]
        BY <2>1, KeyFacts
      <3>3. ASSUME NEW k \in Keys, directories[k] = d, k[2] \in Names
            PROVE  k = key
        BY <1>2, <1>4, <3>1, <3>2, <3>3, NoNodeAssumption DEF Good, OneName
      <3> HIDE DEF key
      <3>4. directories[key] = d
        BY <3>1 DEF key
      <3>5. N = {key}
        BY <3>2, <3>3, <3>4 DEF Refs
      <3>6. {k \in Refs(d) : k[2] \in Names /\ k[1] = directories[<<d, "..">>]} = {key}
        BY <3>2, <3>3, <3>4 DEF Refs
      <3>7. Cardinality(N) = 1
        BY <3>5, FS_Singleton
      <3>8. QED
        BY <2>1, <2>3, <3>5, <3>6, <3>7
    <2>4. QED
      BY <2>2, <2>3
  <1>5. QED
    BY <1>3, <1>4 DEF TreeShape

-----------------------------------------------------------------------------
(* The theorems. *)

(* The invariant of the two databases: after any sequence of handlers the    *)
(* link counts are exact and the directories form parent and child pairs.    *)
THEOREM Invariance == Spec => []IInv
  <1>1. Init => IInv
    <2>1. SUFFICES ASSUME Init PROVE IInv
      OBVIOUS
    <2>2. Rebuilt \in States
      BY RebuiltGood DEF Good
    <2>3. Rebuilt = [kind |-> Rebuilt.kind, nlink |-> Rebuilt.nlink, dirs |-> Rebuilt.dirs]
      BY <2>2 DEF States
    <2>4. Db = Rebuilt
      BY <2>1, <2>3 DEF Init, Db
    <2>5. QED
      BY <2>4, RebuiltGood DEF IInv
  <1>2. IInv /\ [Next]_vars => IInv'
    <2>1. CASE Next
      BY <2>1, NextGood
    <2>2. CASE UNCHANGED vars
      BY <2>2 DEF vars, IInv, Db, Good, Exact, Owned, DotsHeld, LiveIffLinked,
                  Rooted, OneName, NamedByParent
    <2>3. QED
      BY <2>1, <2>2
  <1>3. QED
    BY <1>1, <1>2, PTL DEF Spec

(* Both databases hold only what their columns may hold, and a removed       *)
(* register keeps no link count (Register::remove, register.hxx:149).        *)
THEOREM TypeCorrect == Spec => []TypeOK
  <1>1. IInv => TypeOK
    BY DEF IInv, Good, States, LiveIffLinked, Db, TypeOK
  <1>2. QED
    BY <1>1, Invariance, PTL

(* The "nlink" attribute that link() and unlink() keep (node.cxx:47-57) is   *)
(* the number of directory entries that name the node.                       *)
THEOREM LinksCounted == Spec => []LinkCountExact
  BY Invariance, GoodCounts, PTL

(* unlink() removes a node when its last name goes and never before: no      *)
(* entry dangles, no node is left over.                                      *)
THEOREM NodesNamed == Spec => []NodeIffNamed
  BY Invariance, GoodNames, PTL

(* Directories form a tree of parents and children: rename rewrites ".." to  *)
(* the one directory that names the moved directory (fs.cxx:347-353).        *)
THEOREM DirectoriesFormTree == Spec => []TreeShape
  BY Invariance, GoodTree, PTL

(* mknod, mkdir, symlink and link undo what they did when the name is taken  *)
(* (node.hxx:54-66, node.cxx:30-39): a handler that changes no name changes  *)
(* no kind, count or register, for any number of names and nodes.            *)
THEOREM FailureLeavesNoTrace == Spec => NoTraceOfFailure
  <1> DEFINE Same == \A k \in Ids \X Names : directories'[k] = directories[k]
  <1>1. IInv /\ [Next]_vars => [Same => UNCHANGED vars]_vars
    <2>1. SUFFICES ASSUME IInv, Next, Same PROVE UNCHANGED vars
      OBVIOUS
    <2>2. Good(Db) /\ Effect(Db, Db')
      BY <2>1, NextEffect DEF IInv
    <2>3. \A k \in NamedKeys : Db'.dirs[k] = Db.dirs[k]
      BY <2>1 DEF Db, NamedKeys
    <2>4. Db' = Db
      BY <2>2, <2>3, EffectShows
    <2>5. QED
      BY <2>4 DEF Db, vars
  <1> HIDE DEF Same
  <1>2. Spec => [][Same => UNCHANGED vars]_vars
    BY <1>1, Invariance, PTL DEF Spec
  <1>3. QED
    BY <1>2 DEF NoTraceOfFailure, Same

(* No sequence of handlers cuts a subtree off, as long as the kernel renames *)
(* no directory into its own subtree: rename itself looks for that only when *)
(* a node is replaced (fs.cxx:324-329).                                      *)
THEOREM Attachment == Spec => []Attached(Db)
  <1>1. Init => Attached(Db)
    BY InitIsTree
  <1>2. IInv /\ Attached(Db) /\ [Next]_vars => Attached(Db)'
    <2>1. SUFFICES ASSUME IInv, Attached(Db), [Next]_vars PROVE Attached(Db')
      OBVIOUS
    <2>2. CASE Next
      BY <2>1, <2>2, NextEffect, EffectAttached DEF IInv
    <2>3. CASE UNCHANGED vars
      BY <2>1, <2>3 DEF vars, Db
    <2>4. QED
      BY <2>1, <2>2, <2>3
  <1>3. QED
    BY <1>1, <1>2, Invariance, PTL DEF Spec

(* From every directory ".." leads to the root, and every other node has a   *)
(* name: rename rewrites ".." when it moves a directory (fs.cxx:347-353).    *)
THEOREM EverythingAttached == Spec => []AllAttached
  <1>1. IInv /\ Attached(Db) => AllAttached
    <2>1. SUFFICES ASSUME IInv, Attached(Db), NEW n \in Ids
                   PROVE  /\ kind[n] = "dir" => \E i \in 0..MaxId : Up(Db, n)[i] = Root
                          /\ kind[n] \in {"reg", "lnk"} => \E k \in Refs(n) : k[2] \in Names
      BY DEF AllAttached
    <2>2. Good(Db) /\ Db.kind = kind /\ Db.dirs = directories
      BY <2>1 DEF IInv, Db
    <2>3. kind[n] = "dir" => \E i \in 0..MaxId : Up(Db, n)[i] = Root
      BY <2>1, <2>2, UpReachesRoot DEF Dirs
    <2>4. ASSUME kind[n] \in {"reg", "lnk"} PROVE \E k \in Refs(n) : k[2] \in Names
      <3>1. n # Root
        BY <2>2, <2>4 DEF Good, Rooted
      <3>2. PICK k \in NamedKeys : directories[k] = n
        BY <2>2, <2>4, <3>1, LiveIffNamed
      <3>3. k \in Refs(n) /\ k[2] \in Names
        BY <3>2, KeyFacts DEF NamedKeys, Refs
      <3>4. QED
        BY <3>3
    <2>5. QED
      BY <2>3, <2>4
  <1>2. QED
    BY <1>1, Invariance, Attachment, PTL

(* The two databases, with their link counts and their "." and "..",         *)
(* implement a tree of names: each handler is one step of the tree or none.  *)
THEOREM ImplementsTree == Spec => TreeSpec
  <1>1. Init => Tree!Init
    BY InitIsTree
  <1>2. IInv /\ Attached(Db) /\ IInv' /\ [Next]_vars => [Tree!Next]_(Tree!vars)
    <2>1. CASE Next
      BY <2>1, NextIsTree DEF Tree!vars, Entry
    <2>2. CASE UNCHANGED vars
      BY <2>2 DEF vars, Tree!vars
    <2>3. QED
      BY <2>1, <2>2
  <1>3. QED
    BY <1>1, <1>2, Invariance, Attachment, PTL DEF Spec, TreeSpec, Tree!Spec

=============================================================================
