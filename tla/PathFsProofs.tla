---------------------------- MODULE PathFsProofs ----------------------------
(***************************************************************************)
(* Proofs about PathFs and PathCache, for every set of names and every     *)
(* bound on ids, on the depth of a path and on the size of the cache: what *)
(* the methods of the cache leave and return, that the entries below the   *)
(* old path of a moved directory are the only ones that can be stale, that *)
(* any other path is answered as without a cache, and that the databases   *)
(* stay in agreement whatever the cache answers.                           *)
(*                                                                         *)
(* The recursive functions of PathCache (Resolve, Lookup, Searched) are    *)
(* unfolded by induction over the tokens of a path, each with a predicate  *)
(* that says what holds after i of them: Way, LookedTo and SearchedTo.     *)
(***************************************************************************)
EXTENDS PathFs, NamespaceProofs, SequenceTheorems

-----------------------------------------------------------------------------
(* Paths. *)

LEMMA PathIs ==
    ASSUME NEW p \in Paths
    PROVE  /\ p \in Seq(Names) /\ Len(p) \in 0..MaxDepth /\ DOMAIN p = 1..Len(p)
           /\ \A i \in 1..Len(p) : p[i] \in Names
           /\ (p = <<>> <=> Len(p) = 0)
  <1>1. PICK i \in 0..MaxDepth : p \in [1..i -> Names]
    BY DEF Paths
  <1>2. p \in Seq(Names) /\ Len(p) = i
    BY <1>1, MaxDepthAssumption
  <1>3. QED
    BY <1>2

LEMMA SeqIsPath ==
    ASSUME NEW p \in Seq(Names), Len(p) <= MaxDepth
    PROVE  p \in Paths
  <1>1. Len(p) \in 0..MaxDepth /\ p \in [1..Len(p) -> Names]
    BY MaxDepthAssumption
  <1>2. QED
    BY <1>1 DEF Paths

LEMMA RootPath == <<>> \in Paths /\ Len(<<>>) = 0
  <1>1. PICK p \in Seq(Names) : p = <<>> /\ Len(p) = 0
    BY EmptySeq
  <1>2. p \in Paths
    <2>1. Len(p) <= MaxDepth
      BY <1>1, MaxDepthAssumption
    <2>2. QED
      BY <2>1, SeqIsPath
  <1>3. QED
    BY <1>1, <1>2

LEMMA PrefixIs ==
    ASSUME NEW p \in Paths, NEW i \in 0..Len(p)
    PROVE  /\ Cache!Prefix(p, i) \in Paths /\ Len(Cache!Prefix(p, i)) = i
           /\ \A j \in 1..i : Cache!Prefix(p, i)[j] = p[j]
           /\ i = Len(p) => Cache!Prefix(p, i) = p
           /\ i = 0 => Cache!Prefix(p, i) = <<>>
  <1>1. p \in Seq(Names) /\ Len(p) \in 0..MaxDepth
    BY PathIs
  <1>2. SubSeq(p, 1, i) \in Seq(Names) /\ Len(SubSeq(p, 1, i)) = i
        /\ \A j \in 1..i : SubSeq(p, 1, i)[j] = p[j]
    BY <1>1
  <1>3. SubSeq(p, 1, i) \in Paths
    <2>1. PICK q \in Seq(Names) : q = SubSeq(p, 1, i) /\ Len(q) = i
      BY <1>2
    <2>2. Len(q) <= MaxDepth
      BY <1>1, <2>1, MaxDepthAssumption
    <2>3. QED
      BY <2>1, <2>2, SeqIsPath
  <1>4. i = Len(p) => SubSeq(p, 1, i) = p
    BY <1>1, <1>2, SeqEqual
  <1>5. i = 0 => SubSeq(p, 1, i) = <<>>
    BY <1>1, <1>2
  <1>6. QED
    BY <1>2, <1>3, <1>4, <1>5 DEF Cache!Prefix

(* Paths with the same names are the same. *)
LEMMA SamePath ==
    ASSUME NEW p \in Paths, NEW q \in Paths, Len(p) = Len(q),
           \A i \in 1..Len(p) : p[i] = q[i]
    PROVE  p = q
  BY PathIs, SeqEqual

LEMMA PrefixOfPrefix ==
    ASSUME NEW p \in Paths, NEW i \in 0..Len(p), NEW j \in 0..i
    PROVE  Cache!Prefix(Cache!Prefix(p, i), j) = Cache!Prefix(p, j)
  <1>1. Len(p) \in Nat
    BY PathIs
  <1>2. j \in 0..Len(p)
    BY <1>1
  <1> DEFINE q == Cache!Prefix(p, i)
  <1>3. q \in Paths /\ Len(q) = i /\ \A k \in 1..i : q[k] = p[k]
    BY PrefixIs
  <1> HIDE DEF q
  <1>4. /\ Cache!Prefix(q, j) \in Paths /\ Len(Cache!Prefix(q, j)) = j
        /\ \A k \in 1..j : Cache!Prefix(q, j)[k] = q[k]
    BY <1>3, PrefixIs
  <1>5. /\ Cache!Prefix(p, j) \in Paths /\ Len(Cache!Prefix(p, j)) = j
        /\ \A k \in 1..j : Cache!Prefix(p, j)[k] = p[k]
    BY <1>2, PrefixIs
  <1>6. \A k \in 1..j : Cache!Prefix(q, j)[k] = Cache!Prefix(p, j)[k]
    BY <1>3, <1>4, <1>5
  <1>7. Cache!Prefix(q, j) = Cache!Prefix(p, j)
    BY <1>4, <1>5, <1>6, SamePath
  <1>8. QED
    BY <1>7 DEF q

(* A path with a leaf is its parent and that name. *)
LEMMA ParentIs ==
    ASSUME NEW p \in Leaves
    PROVE  /\ p \in Paths /\ Len(p) \in 1..MaxDepth /\ p # <<>>
           /\ Parent(p) \in Paths /\ Parent(p) = Cache!Prefix(p, Len(p) - 1)
           /\ Len(Parent(p)) = Len(p) - 1
           /\ Leaf(p) \in Names /\ Leaf(p) = p[Len(p)]
  <1>1. p \in Paths /\ Len(p) \in 1..MaxDepth /\ p # <<>> /\ p[Len(p)] \in Names
    BY PathIs DEF Leaves
  <1>2. Len(p) - 1 \in 0..Len(p)
    BY <1>1
  <1>3. QED
    BY <1>1, <1>2, PrefixIs DEF Parent, Leaf, Cache!Prefix

-----------------------------------------------------------------------------
(* What the databases say of a path. *)

(* What the path cache reads. *)
FsStates == [kind : [Ids -> Kinds], dirs : [Keys -> Ids \cup {NoNode}], search : [Ids -> BOOLEAN]]

LEMMA GetChildIs ==
    ASSUME NEW s \in FsStates, NEW d \in Ids \cup {NoNode}, NEW m \in Names
    PROVE  /\ Cache!GetChild(s, d, m) \in Ids \cup {NoNode}
           /\ Cache!GetChild(s, d, m) # NoNode =>
                 /\ d \in Ids /\ s.kind[d] = "dir" /\ <<d, m>> \in Keys
                 /\ Cache!GetChild(s, d, m) = s.dirs[<<d, m>>]
  BY KeyFacts DEF FsStates, Cache!GetChild

(* f[i] is what the first i tokens of p lead to. *)
Way(f, s, u, p) ==
    /\ f \in [0..Len(p) -> Ids \cup {NoNode}]
    /\ f[0] = Root
    /\ \A i \in 1..Len(p) :
          f[i] = IF f[i - 1] # NoNode /\ (u = "root" \/ s.search[f[i - 1]])
                 THEN Cache!GetChild(s, f[i - 1], p[i]) ELSE NoNode
    /\ Cache!Resolve(s, u, p) = f[Len(p)]

LEMMA ResolveIs ==
    ASSUME NEW s \in FsStates, NEW u, NEW p \in Paths
    PROVE  \E f : Way(f, s, u, p)
  <1> DEFINE V == Ids \cup {NoNode}
             n == Len(p)
             Next1(d, m) == IF d # NoNode /\ (u = "root" \/ s.search[d])
                           THEN Cache!GetChild(s, d, m) ELSE NoNode
             g == [x \in (0..n) \X V |-> IF x[1] = 0 THEN NoNode ELSE Next1(x[2], p[x[1]])]
  <1>1. n \in Nat /\ Root \in V
    BY PathIs, KeyFacts
  <1>2. \A d \in V, m \in Names : Next1(d, m) \in V
    BY GetChildIs
  <1>3. \A i \in 1..n : p[i] \in Names
    BY PathIs
  <1>4. g \in [(0..n) \X V -> V]
    <2> HIDE DEF Next1
    <2>1. \A x \in (0..n) \X V : (IF x[1] = 0 THEN NoNode ELSE Next1(x[2], p[x[1]])) \in V
      BY <1>1, <1>2, <1>3
    <2>2. QED
      BY <2>1
  <1> HIDE DEF V
  <1>5. PICK f : Iterates(f, n, V, Root, g)
    BY <1>1, <1>4, Iteration
  <1>6. f \in [0..n -> V] /\ f[0] = Root /\ \A i \in 1..n : f[i] = g[<<i, f[i - 1]>>]
    BY <1>5 DEF Iterates
  <1>7. \A i \in 1..n : f[i] = Next1(f[i - 1], p[i])
    <2> HIDE DEF Next1
    <2>1. SUFFICES ASSUME NEW i \in 1..n PROVE f[i] = Next1(f[i - 1], p[i])
      OBVIOUS
    <2>2. <<i, f[i - 1]>> \in (0..n) \X V /\ i # 0
      BY <1>1, <1>6
    <2>3. g[<<i, f[i - 1]>>] = Next1(f[i - 1], p[i])
      BY <2>2
    <2> HIDE DEF g
    <2>4. QED
      BY <1>6, <2>3
  <1> HIDE DEF g
  <1> DEFINE Body(h) == [i \in 0..n |-> IF i = 0 THEN Root
                                 ELSE LET d == h[i - 1] IN
                                      IF d # NoNode /\ (u = "root" \/ s.search[d])
                                      THEN Cache!GetChild(s, d, p[i]) ELSE NoNode]
  <1>8. f = Body(f)
    BY <1>1, <1>6, <1>7
  <1>9. \A h : h = Body(h) => h = f
    <2>1. SUFFICES ASSUME NEW h, h = Body(h) PROVE h = f
      OBVIOUS
    <2>2. h[0] = Root /\ \A i \in 1..n : h[i] = Next1(h[i - 1], p[i])
      <3>1. \A i \in 0..n : h[i] = Body(h)[i]
        BY <2>1
      <3> QED
        BY <1>1, <3>1
    <2> DEFINE T == {i \in 0..n : h[i] = f[i]}
    <2>3. 0 \in T
      BY <1>1, <1>6, <2>2
    <2>4. ASSUME NEW i \in 0..(n - 1), i \in T PROVE i + 1 \in T
      <3> HIDE DEF Next1
      <3>1. i + 1 \in 1..n /\ (i + 1) - 1 = i /\ h[i] = f[i]
        BY <1>1, <2>4
      <3>2. h[i + 1] = f[i + 1]
        BY <1>7, <2>2, <3>1
      <3>3. QED
        BY <3>1, <3>2
    <2> HIDE DEF T
    <2>5. 0..n \subseteq T
      BY <1>1, <2>3, <2>4, SetInduction
    <2>6. DOMAIN h = 0..n /\ DOMAIN f = 0..n /\ \A i \in 0..n : h[i] = f[i]
      BY <1>6, <2>1, <2>5 DEF T
    <2>7. h = [i \in 0..n |-> h[i]] /\ f = [i \in 0..n |-> f[i]]
      BY <2>1, <2>6, <1>6
    <2>8. QED
      BY <2>6, <2>7
  <1>10. Cache!Resolve(s, u, p) = (CHOOSE h : h = Body(h))[n]
    BY DEF Cache!Resolve
  <1>11. (CHOOSE h : h = Body(h)) = f
    BY <1>8, <1>9
  <1>12. QED
    BY <1>6, <1>7, <1>10, <1>11 DEF V, Way

LEMMA ResolveRoot ==
    ASSUME NEW s \in FsStates, NEW u
    PROVE  Cache!Resolve(s, u, <<>>) = Root
  BY RootPath, ResolveIs DEF Way

(* One token more. *)
LEMMA ResolveNext ==
    ASSUME NEW s \in FsStates, NEW u, NEW p \in Paths, NEW i \in 1..Len(p)
    PROVE  LET d == Cache!Resolve(s, u, Cache!Prefix(p, i - 1)) IN
           /\ d \in Ids \cup {NoNode}
           /\ Cache!Resolve(s, u, Cache!Prefix(p, i)) =
                 IF d # NoNode /\ (u = "root" \/ s.search[d])
                 THEN Cache!GetChild(s, d, p[i]) ELSE NoNode
  <1> DEFINE q == Cache!Prefix(p, i)
             r == Cache!Prefix(p, i - 1)
  <1>1. Len(p) \in Nat /\ i \in 0..Len(p) /\ i - 1 \in 0..Len(p) /\ i - 1 \in Nat
    BY PathIs
  <1>2. q \in Paths /\ Len(q) = i /\ \A j \in 1..i : q[j] = p[j]
    BY <1>1, PrefixIs
  <1>3. r \in Paths /\ Len(r) = i - 1 /\ \A j \in 1..(i - 1) : r[j] = p[j]
    BY <1>1, PrefixIs
  <1> HIDE DEF q, r
  <1>4. PICK f : Way(f, s, u, q)
    BY <1>2, ResolveIs
  <1>5. PICK g : Way(g, s, u, r)
    BY <1>3, ResolveIs
  <1> DEFINE T == {j \in 0..(i - 1) : f[j] = g[j]}
  <1>6. 0 \in T
    BY <1>1, <1>4, <1>5 DEF Way
  <1>7. ASSUME NEW j \in 0..((i - 1) - 1), j \in T PROVE j + 1 \in T
    <2>1. j + 1 \in 1..(i - 1) /\ j + 1 \in 1..i /\ (j + 1) - 1 = j /\ f[j] = g[j]
      BY <1>1, <1>7
    <2>2. q[j + 1] = r[j + 1]
      BY <1>2, <1>3, <2>1
    <2>3. f[j + 1] = g[j + 1]
      BY <1>2, <1>3, <1>4, <1>5, <2>1, <2>2 DEF Way
    <2>4. QED
      BY <2>1, <2>3
  <1> HIDE DEF T
  <1>8. 0..(i - 1) \subseteq T
    BY <1>1, <1>6, <1>7, SetInduction
  <1>9. f[i - 1] = g[i - 1] /\ i \in 1..i /\ i - 1 \in 0..i
    BY <1>1, <1>8 DEF T
  <1>10. q[i] = p[i]
    BY <1>2, <1>9
  <1>11. QED
    BY <1>2, <1>3, <1>4, <1>5, <1>9, <1>10 DEF q, r, Way

(* Every path leads to a node or to none, and only by way of nodes. *)
LEMMA ResolveWay ==
    ASSUME NEW s \in FsStates, NEW u, NEW p \in Paths
    PROVE  \A i \in 0..Len(p) :
              /\ Cache!Resolve(s, u, Cache!Prefix(p, i)) \in Ids \cup {NoNode}
              /\ Cache!Resolve(s, u, p) # NoNode => Cache!Resolve(s, u, Cache!Prefix(p, i)) # NoNode
  <1> DEFINE n == Len(p)
             R(i) == Cache!Resolve(s, u, Cache!Prefix(p, i))
  <1>1. n \in Nat /\ Cache!Prefix(p, n) = p /\ Cache!Prefix(p, 0) = <<>>
    BY PathIs, PrefixIs
  <1>2. R(0) \in Ids \cup {NoNode}
    BY <1>1, ResolveRoot, KeyFacts
  <1>3. \A i \in 1..n : /\ R(i) \in Ids \cup {NoNode}
                        /\ R(i) # NoNode => R(i - 1) # NoNode
    <2>1. \A i \in 1..n : p[i] \in Names
      BY PathIs
    <2>2. SUFFICES ASSUME NEW i \in 1..n
                   PROVE  R(i) \in Ids \cup {NoNode} /\ (R(i) # NoNode => R(i - 1) # NoNode)
      OBVIOUS
    <2>3. /\ R(i - 1) \in Ids \cup {NoNode}
          /\ R(i) = IF R(i - 1) # NoNode /\ (u = "root" \/ s.search[R(i - 1)])
                    THEN Cache!GetChild(s, R(i - 1), p[i]) ELSE NoNode
      BY ResolveNext
    <2> HIDE DEF R
    <2>4. QED
      BY <2>1, <2>3, GetChildIs
  <1> HIDE DEF R
  <1>4. \A i \in 0..n : R(i) \in Ids \cup {NoNode}
    <2>1. \A i \in 0..n : i = 0 \/ i \in 1..n
      BY <1>1
    <2>2. QED
      BY <1>2, <1>3, <2>1
  <1> DEFINE T == {j \in 0..n : R(n) # NoNode => R(n - j) # NoNode}
  <1>5. 0 \in T
    BY <1>1
  <1>6. ASSUME NEW j \in 0..(n - 1), j \in T PROVE j + 1 \in T
    <2>1. n - j \in 1..n /\ (n - j) - 1 = n - (j + 1) /\ j + 1 \in 0..n
      BY <1>1
    <2>2. R(n - j) # NoNode => R(n - (j + 1)) # NoNode
      BY <1>3, <2>1
    <2>3. QED
      BY <1>6, <2>1, <2>2
  <1> HIDE DEF T
  <1>7. 0..n \subseteq T
    BY <1>1, <1>5, <1>6, SetInduction
  <1>8. \A i \in 0..n : R(n) # NoNode => R(i) # NoNode
    <2>1. SUFFICES ASSUME NEW i \in 0..n PROVE R(n) # NoNode => R(i) # NoNode
      OBVIOUS
    <2>2. n - i \in 0..n /\ n - (n - i) = i
      BY <1>1
    <2>3. n - i \in T
      BY <1>7, <2>2
    <2>4. QED
      BY <2>2, <2>3 DEF T
  <1>9. QED
    BY <1>1, <1>4, <1>8 DEF R

R(s, p) == Cache!Resolve(s, "root", p)

(* For root, nothing but the names decides. *)
LEMMA Step ==
    ASSUME NEW s \in FsStates, NEW p \in Paths, NEW i \in 1..Len(p)
    PROVE  /\ R(s, Cache!Prefix(p, i - 1)) \in Ids \cup {NoNode}
           /\ R(s, Cache!Prefix(p, i)) = Cache!GetChild(s, R(s, Cache!Prefix(p, i - 1)), p[i])
  <1>1. Cache!GetChild(s, NoNode, p[i]) = NoNode
    BY NoNodeAssumption DEF Cache!GetChild, FsStates
  <1>2. QED
    BY <1>1, ResolveNext DEF R

LEMMA LeafStep ==
    ASSUME NEW s \in FsStates, NEW p \in Leaves
    PROVE  /\ R(s, Parent(p)) \in Ids \cup {NoNode}
           /\ R(s, p) = Cache!GetChild(s, R(s, Parent(p)), Leaf(p))
           /\ R(s, p) # NoNode =>
                 /\ R(s, Parent(p)) \in Ids /\ s.kind[R(s, Parent(p))] = "dir"
                 /\ <<R(s, Parent(p)), Leaf(p)>> \in NamedKeys
                 /\ R(s, p) = s.dirs[<<R(s, Parent(p)), Leaf(p)>>]
  <1>1. p \in Paths /\ Len(p) \in 1..Len(p) /\ Cache!Prefix(p, Len(p)) = p
        /\ Cache!Prefix(p, Len(p) - 1) = Parent(p) /\ Leaf(p) = p[Len(p)] /\ Leaf(p) \in Names
    BY ParentIs, PrefixIs
  <1>2. /\ R(s, Parent(p)) \in Ids \cup {NoNode}
        /\ R(s, p) = Cache!GetChild(s, R(s, Parent(p)), Leaf(p))
    BY <1>1, Step
  <1>3. QED
    BY <1>1, <1>2, GetChildIs DEF NamedKeys

(* Nodes that have a name are there. *)
Live(s) ==
    \A x \in Ids : (x = Root \/ \E k \in NamedKeys : s.dirs[k] = x) => s.kind[x] # "free"

LEMMA ResolvedLive ==
    ASSUME NEW s \in FsStates, Live(s), NEW p \in Paths, R(s, p) # NoNode
    PROVE  R(s, p) \in Ids /\ s.kind[R(s, p)] # "free"
  <1>1. CASE p = <<>>
    <2>1. R(s, p) = Root
      BY <1>1, ResolveRoot DEF R
    <2>2. QED
      BY <2>1, KeyFacts DEF Live
  <1>2. CASE p # <<>>
    <2>1. p \in Leaves
      BY <1>2 DEF Leaves
    <2>2. /\ <<R(s, Parent(p)), Leaf(p)>> \in NamedKeys
          /\ R(s, p) = s.dirs[<<R(s, Parent(p)), Leaf(p)>>]
      BY <2>1, LeafStep
    <2>3. R(s, p) \in Ids
      BY <2>2, KeyFacts DEF NamedKeys, FsStates
    <2>4. QED
      BY <2>2, <2>3 DEF Live
  <1>3. QED
    BY <1>1, <1>2

(* A directory is found on one path only. *)
LEMMA OnePath ==
    ASSUME NEW s \in FsStates, Rooted(s), OneName(s), NEW p \in Paths, NEW q \in Paths,
           R(s, p) = R(s, q), R(s, p) # NoNode, s.kind[R(s, p)] = "dir"
    PROVE  p = q
  <1> DEFINE Same(x, y) == R(s, x) = R(s, y) /\ R(s, x) # NoNode /\ s.kind[R(s, x)] = "dir" => x = y
             T == {k \in 0..MaxDepth : \A x, y \in Paths : Len(x) = k => Same(x, y)}
  <1>1. \A y \in Leaves : R(s, y) # Root
    <2>1. SUFFICES ASSUME NEW y \in Leaves, R(s, y) = Root PROVE FALSE
      OBVIOUS
    <2>2. R(s, y) # NoNode
      BY <2>1, KeyFacts, NoNodeAssumption
    <2>3. QED
      BY <2>1, <2>2, LeafStep, KeyFacts DEF Rooted, NamedKeys
  <1>2. R(s, <<>>) = Root
    BY ResolveRoot DEF R
  <1>3. 0 \in T
    <2>1. SUFFICES ASSUME NEW x \in Paths, NEW y \in Paths, Len(x) = 0, R(s, x) = R(s, y)
                   PROVE  x = y
      BY MaxDepthAssumption
    <2>2. x = <<>>
      BY <2>1, PathIs
    <2>3. y = <<>>
      BY <1>1, <1>2, <2>1, <2>2 DEF Leaves
    <2>4. QED
      BY <2>2, <2>3
  <1>4. ASSUME NEW k \in 0..(MaxDepth - 1), k \in T PROVE k + 1 \in T
    <2>1. SUFFICES ASSUME NEW x \in Paths, NEW y \in Paths, Len(x) = k + 1,
                          R(s, x) = R(s, y), R(s, x) # NoNode, s.kind[R(s, x)] = "dir"
                   PROVE  x = y
      BY MaxDepthAssumption
    <2>2. x \in Leaves
      BY <2>1, RootPath DEF Leaves
    <2>3. y \in Leaves
      BY <1>1, <1>2, <2>1, <2>2 DEF Leaves
    <2>4. /\ R(s, Parent(x)) \in Ids /\ s.kind[R(s, Parent(x))] = "dir"
          /\ <<R(s, Parent(x)), Leaf(x)>> \in NamedKeys
          /\ R(s, x) = s.dirs[<<R(s, Parent(x)), Leaf(x)>>]
      BY <2>1, <2>2, LeafStep
    <2>5. /\ <<R(s, Parent(y)), Leaf(y)>> \in NamedKeys
          /\ R(s, y) = s.dirs[<<R(s, Parent(y)), Leaf(y)>>]
      BY <2>1, <2>3, LeafStep
    <2>6. <<R(s, Parent(x)), Leaf(x)>> = <<R(s, Parent(y)), Leaf(y)>>
      <3>1. \A j \in NamedKeys : j \in Keys /\ j[2] \in Names
        BY KeyFacts DEF NamedKeys
      <3>2. PICK j1 \in NamedKeys : j1 = <<R(s, Parent(x)), Leaf(x)>>
        BY <2>4
      <3>3. PICK j2 \in NamedKeys : j2 = <<R(s, Parent(y)), Leaf(y)>>
        BY <2>5
      <3>4. s.dirs[j1] = s.dirs[j2] /\ s.dirs[j2] # NoNode /\ s.kind[s.dirs[j2]] = "dir"
        BY <2>1, <2>4, <2>5, <3>2, <3>3
      <3>5. j1 = j2
        BY <3>1, <3>4 DEF OneName
      <3>6. QED
        BY <3>2, <3>3, <3>5
    <2>7. Parent(x) \in Paths /\ Parent(y) \in Paths /\ Len(Parent(x)) = k
          /\ Len(x) = Len(Parent(x)) + 1 /\ Len(y) = Len(Parent(y)) + 1
      BY <2>1, <2>2, <2>3, ParentIs
    <2>8. Parent(x) = Parent(y)
      BY <1>4, <2>4, <2>6, <2>7, NoNodeAssumption
    <2>9. \A i \in 1..Len(x) : x[i] = y[i]
      <3>1. SUFFICES ASSUME NEW i \in 1..Len(x) PROVE x[i] = y[i]
        OBVIOUS
      <3>2. CASE i = Len(x)
        BY <2>2, <2>3, <2>6, <2>7, <2>8, <3>2, ParentIs
      <3>3. CASE i # Len(x)
        <4>1. i \in 1..(Len(x) - 1) /\ Len(x) - 1 \in 0..Len(x) /\ Len(y) - 1 \in 0..Len(y)
          BY <2>1, <2>7, <2>8, <3>3
        <4>2. Parent(x)[i] = x[i] /\ Parent(y)[i] = y[i]
          BY <2>2, <2>3, <2>7, <2>8, <4>1, ParentIs, PrefixIs
        <4>3. QED
          BY <2>8, <4>2
      <3>4. QED
        BY <3>2, <3>3
    <2>10. QED
      BY <2>7, <2>8, <2>9, SamePath
  <1> HIDE DEF T
  <1>5. 0..MaxDepth \subseteq T
    BY <1>3, <1>4, MaxDepthAssumption, SetInduction
  <1>6. Len(p) \in T
    BY <1>5, PathIs
  <1>7. QED
    BY <1>6 DEF T

(* A path leads where it led as long as no name on it changes. *)
LEMMA KeptPath ==
    ASSUME NEW s \in FsStates, NEW t \in FsStates, Live(s), Live(t),
           \A x \in Ids : s.kind[x] # "free" => t.kind[x] \in {s.kind[x], "free"},
           NEW q \in Paths, R(s, q) # NoNode,
           \A i \in 1..Len(q) :
               LET k == <<R(s, Cache!Prefix(q, i - 1)), q[i]>> IN t.dirs[k] = s.dirs[k]
    PROVE  /\ R(t, q) = R(s, q) /\ R(s, q) \in Ids
           /\ t.kind[R(s, q)] = s.kind[R(s, q)]
  <1> DEFINE n == Len(q)
             P(i) == Cache!Prefix(q, i)
             T == {i \in 0..n : R(t, P(i)) = R(s, P(i))}
  <1>1. n \in Nat /\ P(0) = <<>> /\ P(n) = q
    BY PathIs, PrefixIs
  <1>2. \A i \in 0..n : P(i) \in Paths /\ R(s, P(i)) # NoNode
    BY PrefixIs, ResolveWay DEF R
  <1>3. 0 \in T
    BY <1>1, ResolveRoot DEF R
  <1>4. ASSUME NEW i \in 0..n, R(t, P(i)) = R(s, P(i))
        PROVE  /\ R(s, P(i)) \in Ids
               /\ t.kind[R(s, P(i))] = s.kind[R(s, P(i))]
    <2>1. R(s, P(i)) \in Ids /\ s.kind[R(s, P(i))] # "free"
      BY <1>2, ResolvedLive
    <2>2. t.kind[R(s, P(i))] # "free"
      BY <1>2, <1>4, ResolvedLive
    <2>3. QED
      BY <2>1, <2>2
  <1>5. ASSUME NEW i \in 0..(n - 1), i \in T PROVE i + 1 \in T
    <2>1. i + 1 \in 1..n /\ (i + 1) - 1 = i /\ i \in 0..n /\ i + 1 \in 0..n
      BY <1>1
    <2> DEFINE d == R(s, P(i))
    <2>2. d \in Ids /\ t.kind[d] = s.kind[d] /\ R(t, P(i)) = d
      BY <1>4, <1>5, <2>1
    <2>3. R(s, P(i + 1)) = Cache!GetChild(s, d, q[i + 1])
      BY <2>1, Step
    <2>4. R(t, P(i + 1)) = Cache!GetChild(t, d, q[i + 1])
      BY <2>1, <2>2, Step
    <2>5. t.dirs[<<d, q[i + 1]>>] = s.dirs[<<d, q[i + 1]>>]
      BY <2>1
    <2>6. R(s, P(i + 1)) # NoNode
      BY <1>2, <2>1
    <2> HIDE DEF d
    <2>7. Cache!GetChild(t, d, q[i + 1]) = Cache!GetChild(s, d, q[i + 1])
      BY <2>2, <2>3, <2>5, <2>6 DEF Cache!GetChild, FsStates
    <2>8. QED
      BY <2>1, <2>3, <2>4, <2>7
  <1> HIDE DEF T
  <1>6. 0..n \subseteq T
    BY <1>1, <1>3, <1>5, SetInduction
  <1>7. R(t, P(n)) = R(s, P(n))
    BY <1>1, <1>6 DEF T
  <1>8. QED
    BY <1>1, <1>4, <1>7

-----------------------------------------------------------------------------
(* The queue. *)

Entries == [path : Paths, node : Ids, search : BOOLEAN]

(* Caches with entries of the set K and one entry for a path. *)
Caches(K) == {c \in Seq(K) : \A i, j \in DOMAIN c : c[i].path = c[j].path => i = j}

LEMMA Larger ==
    ASSUME NEW K, NEW L, K \subseteq L, NEW c \in Caches(K)
    PROVE  c \in Caches(L)
  <1>1. c \in Seq(L)
    BY DEF Caches
  <1>2. QED
    BY <1>1 DEF Caches

LEMMA CachedIs ==
    ASSUME NEW K, NEW c \in Caches(K), NEW p, Cache!Cached(c, p)
    PROVE  /\ Cache!QueueIt(c, p) \in 1..Len(c) /\ Len(c) \in Nat
           /\ Cache!EntryOf(c, p) \in K /\ Cache!EntryOf(c, p).path = p
  <1>1. Cache!QueueIt(c, p) \in DOMAIN c /\ c[Cache!QueueIt(c, p)].path = p
    BY DEF Cache!Cached, Cache!QueueIt
  <1>2. DOMAIN c = 1..Len(c) /\ Len(c) \in Nat /\ \A i \in 1..Len(c) : c[i] \in K
    BY DEF Caches
  <1>3. QED
    BY <1>1, <1>2 DEF Cache!EntryOf

LEMMA EmptyCache == ASSUME NEW K PROVE <<>> \in Caches(K)
  <1>1. PICK c \in Seq(K) : c = <<>> /\ Len(c) = 0
    BY EmptySeq
  <1>2. DOMAIN c = {}
    BY <1>1
  <1>3. QED
    BY <1>1, <1>2 DEF Caches

LEMMA AppendIs ==
    ASSUME NEW K, NEW c \in Caches(K), NEW e \in K, ~Cache!Cached(c, e.path)
    PROVE  /\ Append(c, e) \in Caches(K)
           /\ Cache!Cached(Append(c, e), e.path)
           /\ \A p : Cache!Cached(Append(c, e), p) => p = e.path \/ Cache!Cached(c, p)
  <1> DEFINE q == Append(c, e)
             n == Len(c)
  <1>1. c \in Seq(K) /\ n \in Nat /\ DOMAIN c = 1..n
    BY DEF Caches
  <1>2. q \in Seq(K) /\ DOMAIN q = 1..(n + 1) /\ q[n + 1] = e /\ \A i \in 1..n : q[i] = c[i]
    BY <1>1
  <1> HIDE DEF q
  <1>3. \A i \in 1..n : q[i].path # e.path
    BY <1>1, <1>2 DEF Cache!Cached
  <1>4. ASSUME NEW i \in DOMAIN q, NEW j \in DOMAIN q, q[i].path = q[j].path PROVE i = j
    <2>1. CASE i = n + 1 \/ j = n + 1
      BY <1>1, <1>2, <1>3, <1>4, <2>1
    <2>2. CASE i # n + 1 /\ j # n + 1
      <3>1. i \in 1..n /\ j \in 1..n
        BY <1>1, <1>2, <2>2
      <3>2. QED
        BY <1>1, <1>2, <1>4, <3>1 DEF Caches
    <2>3. QED
      BY <2>1, <2>2
  <1>5. q \in Caches(K)
    BY <1>2, <1>4 DEF Caches
  <1>6. n + 1 \in DOMAIN q /\ q[n + 1].path = e.path
    BY <1>1, <1>2
  <1>7. Cache!Cached(q, e.path)
    BY <1>6 DEF Cache!Cached
  <1>8. \A p : Cache!Cached(q, p) => p = e.path \/ Cache!Cached(c, p)
    <2>1. SUFFICES ASSUME NEW p, NEW i \in DOMAIN q, q[i].path = p, p # e.path
                   PROVE  \E j \in DOMAIN c : c[j].path = p
      BY DEF Cache!Cached
    <2>2. i \in 1..n
      BY <1>1, <1>2, <2>1
    <2>3. QED
      BY <1>1, <1>2, <2>1, <2>2
  <1>9. QED
    BY <1>5, <1>7, <1>8 DEF q

Others(K, p) == {e \in K : e.path # p}

LEMMA EraseIs ==
    ASSUME NEW K, NEW c \in Caches(K), NEW p, Cache!Cached(c, p)
    PROVE  /\ Cache!Erase(c, Cache!QueueIt(c, p)) \in Caches(Others(K, p))
           /\ ~Cache!Cached(Cache!Erase(c, Cache!QueueIt(c, p)), p)
  <1> DEFINE k == Cache!QueueIt(c, p)
             n == Len(c)
             q == Cache!Erase(c, k)
             At(i) == IF i < k THEN i ELSE i + 1
  <1>1. c \in Seq(K) /\ n \in Nat /\ DOMAIN c = 1..n /\ k \in 1..n
    BY CachedIs DEF Caches
  <1>2. c[k].path = p
    BY CachedIs DEF Cache!EntryOf
  <1>3. \A i, j \in 1..n : c[i].path = c[j].path => i = j
    BY <1>1 DEF Caches
  <1> HIDE DEF k, n
  <1>4. q \in Seq(K) /\ DOMAIN q = 1..(n - 1) /\ \A i \in 1..(n - 1) : q[i] = c[At(i)]
    <2> DEFINE a == SubSeq(c, 1, k - 1)
               b == SubSeq(c, k + 1, n)
    <2>1. a \in Seq(K) /\ Len(a) = k - 1 /\ \A i \in 1..(k - 1) : a[i] = c[i]
      BY <1>1 DEF n
    <2>2. b \in Seq(K) /\ Len(b) = n - k /\ \A i \in 1..(n - k) : b[i] = c[k + i]
      <3>1. k + 1 \in 1..(n + 1) /\ n \in Nat /\ n - (k + 1) + 1 = n - k
        BY <1>1
      <3>2. Len(b) = IF k + 1 <= n THEN n - (k + 1) + 1 ELSE 0
        BY <1>1, <3>1 DEF n
      <3>3. \A i \in 1..(n - (k + 1) + 1) : b[i] = c[(k + 1) + i - 1]
        BY <1>1, <3>1 DEF n
      <3>4. b \in Seq(K)
        BY <1>1, <3>1 DEF n
      <3>5. \A i \in 1..(n - k) : (k + 1) + i - 1 = k + i
        BY <1>1, <3>1
      <3> HIDE DEF b
      <3>6. QED
        BY <3>1, <3>2, <3>3, <3>4, <3>5
    <2>3. q = a \o b
      BY DEF Cache!Erase, n
    <2> HIDE DEF a, b, q
    <2>4. a \o b \in Seq(K) /\ Len(a \o b) = (k - 1) + (n - k)
          /\ \A i \in 1..((k - 1) + (n - k)) :
                (a \o b)[i] = IF i <= k - 1 THEN a[i] ELSE b[i - (k - 1)]
      <3>1. Len(a \o b) = Len(a) + Len(b) /\ a \o b \in Seq(K)
            /\ \A i \in 1..(Len(a) + Len(b)) :
                  (a \o b)[i] = IF i <= Len(a) THEN a[i] ELSE b[i - Len(a)]
        BY <2>1, <2>2, ConcatProperties
      <3>2. QED
        BY <2>1, <2>2, <3>1
    <2>5. (k - 1) + (n - k) = n - 1 /\ n - 1 \in Nat
      BY <1>1
    <2>6. ASSUME NEW i \in 1..(n - 1) PROVE q[i] = c[At(i)]
      <3>1. CASE i < k
        BY <1>1, <2>1, <2>3, <2>4, <2>5, <3>1
      <3>2. CASE ~(i < k)
        <4>1. i - (k - 1) \in 1..(n - k) /\ k + (i - (k - 1)) = i + 1 /\ ~(i <= k - 1)
          BY <1>1, <3>2
        <4>2. b[i - (k - 1)] = c[i + 1]
          BY <2>2, <4>1
        <4>3. q[i] = b[i - (k - 1)]
          BY <2>3, <2>4, <2>5, <4>1
        <4>4. QED
          BY <3>2, <4>2, <4>3
      <3>3. QED
        BY <3>1, <3>2
    <2>7. QED
      BY <2>3, <2>4, <2>5, <2>6
  <1> HIDE DEF q
  <1>5. \A i \in 1..(n - 1) : At(i) \in 1..n /\ At(i) # k
    BY <1>1
  <1>6. \A i, j \in 1..(n - 1) : At(i) = At(j) => i = j
    BY <1>1
  <1> HIDE DEF At
  <1>7. \A i \in 1..(n - 1) : q[i] \in Others(K, p)
    <2>1. SUFFICES ASSUME NEW i \in 1..(n - 1) PROVE c[At(i)] \in K /\ c[At(i)].path # p
      BY <1>4 DEF Others
    <2>2. c[At(i)] \in K
      BY <1>1, <1>5
    <2>3. QED
      BY <1>1, <1>2, <1>3, <1>5, <2>2
  <1>8. q \in Seq(Others(K, p))
    <2>1. n - 1 \in Nat /\ q = [i \in 1..(n - 1) |-> q[i]]
      BY <1>1, <1>4
    <2>2. q \in [1..(n - 1) -> Others(K, p)]
      BY <1>7, <2>1
    <2>3. QED
      BY <2>1, <2>2
  <1>9. \A i, j \in DOMAIN q : q[i].path = q[j].path => i = j
    BY <1>3, <1>4, <1>5, <1>6
  <1>10. ~Cache!Cached(q, p)
    BY <1>4, <1>7 DEF Cache!Cached, Others
  <1>11. q \in Caches(Others(K, p))
    BY <1>8, <1>9 DEF Caches
  <1>12. QED
    BY <1>10, <1>11 DEF q, k

LEMMA DelEntryIs ==
    ASSUME NEW K, NEW c \in Caches(K), NEW p
    PROVE  Cache!DelEntry(c, p) \in Caches(Others(K, p))
  <1>1. CASE Cache!Cached(c, p)
    BY <1>1, EraseIs DEF Cache!DelEntry
  <1>2. CASE ~Cache!Cached(c, p)
    <2>1. c \in Seq(K) /\ \A i \in DOMAIN c : c[i] \in Others(K, p)
      BY <1>2 DEF Caches, Cache!Cached, Others
    <2>2. c \in Seq(Others(K, p))
      <3>1. Len(c) \in Nat /\ DOMAIN c = 1..Len(c) /\ c = [i \in 1..Len(c) |-> c[i]]
        BY <2>1
      <3>2. c \in [1..Len(c) -> Others(K, p)]
        BY <2>1, <3>1
      <3>3. QED
        BY <3>1, <3>2
    <2>3. QED
      BY <1>2, <2>2 DEF Caches, Cache!DelEntry
  <1>3. QED
    BY <1>1, <1>2

LEMMA PromoteIs ==
    ASSUME NEW K, NEW c \in Caches(K), NEW p, Cache!Cached(c, p)
    PROVE  Cache!Promote(c, p) \in Caches(K)
  <1> DEFINE b == Cache!Erase(c, Cache!QueueIt(c, p))
             e == Cache!EntryOf(c, p)
             q == Append(b, e)
             r == SubSeq(q, Len(q) - MaxEntries + 1, Len(q))
  <1>1. b \in Caches(K) /\ ~Cache!Cached(b, p) /\ e \in K /\ e.path = p
    <2>1. b \in Caches(Others(K, p)) /\ ~Cache!Cached(b, p) /\ e \in K /\ e.path = p
      BY EraseIs, CachedIs
    <2>2. Others(K, p) \subseteq K
      BY DEF Others
    <2>3. QED
      BY <2>1, <2>2, Larger
  <1>2. q \in Caches(K)
    BY <1>1, AppendIs
  <1>3. Cache!Promote(c, p) = IF Len(q) > MaxEntries THEN r ELSE q
    BY DEF Cache!Promote
  <1> HIDE DEF q
  <1>4. ASSUME Len(q) > MaxEntries PROVE r \in Caches(K)
    <2> DEFINE d == Len(q) - MaxEntries
    <2>1. q \in Seq(K) /\ Len(q) \in Nat /\ MaxEntries \in Nat /\ d \in Nat /\ DOMAIN q = 1..Len(q)
      BY <1>2, <1>4, MaxEntriesAssumption DEF Caches
    <2>2. /\ r \in Seq(K) /\ DOMAIN r = 1..MaxEntries
          /\ \A i \in 1..MaxEntries : r[i] = q[d + i] /\ d + i \in 1..Len(q)
      BY <2>1
    <2> HIDE DEF r
    <2>3. \A i, j \in 1..Len(q) : q[i].path = q[j].path => i = j
      BY <1>2, <2>1 DEF Caches
    <2>4. ASSUME NEW i \in DOMAIN r, NEW j \in DOMAIN r, r[i].path = r[j].path PROVE i = j
      <3>1. r[i] = q[d + i] /\ r[j] = q[d + j] /\ d + i \in 1..Len(q) /\ d + j \in 1..Len(q)
        BY <2>2
      <3>2. d + i = d + j
        BY <2>3, <2>4, <3>1
      <3>3. QED
        BY <2>1, <2>2, <3>2
    <2>5. QED
      BY <2>2, <2>4 DEF Caches
  <1>5. QED
    BY <1>2, <1>3, <1>4

-----------------------------------------------------------------------------
(* The methods of the cache. *)

(* Two recursive functions with the same start and the same steps. *)
LEMMA SameSteps ==
    ASSUME NEW n \in Nat, NEW f, NEW h,
           f[0] = h[0], \A i \in 1..n : f[i - 1] = h[i - 1] => f[i] = h[i]
    PROVE  \A i \in 0..n : f[i] = h[i]
  <1> DEFINE T == {i \in 0..n : f[i] = h[i]}
  <1>1. 0 \in T
    OBVIOUS
  <1>2. ASSUME NEW i \in 0..(n - 1), i \in T PROVE i + 1 \in T
    <2>1. i + 1 \in 1..n /\ (i + 1) - 1 = i /\ i + 1 \in 0..n
      OBVIOUS
    <2>2. QED
      BY <1>2, <2>1
  <1> HIDE DEF T
  <1>3. 0..n \subseteq T
    BY <1>1, <1>2, SetInduction
  <1>4. QED
    BY <1>3 DEF T

(* K holds what lookup() makes on the way to p from entries of K. *)
Grows(K, s, p) ==
    /\ Cache!Entry(s, <<>>, Root) \in K
    /\ \A i \in 1..Len(p), e \in K :
          LET n == Cache!GetChild(s, e.node, p[i]) IN
          e.path = Cache!Prefix(p, i - 1) /\ n # NoNode => Cache!Entry(s, Cache!Prefix(p, i), n) \in K

(* An entry on the way to p that does not lead on. *)
Stops(K, s, p) ==
    \E i \in 1..Len(p), e \in K :
        e.path = Cache!Prefix(p, i - 1) /\ Cache!GetChild(s, e.node, p[i]) = NoNode

LEMMA PrefixGrows ==
    ASSUME NEW K, NEW s, NEW p \in Paths, NEW i \in 0..Len(p)
    PROVE  /\ Grows(K, s, p) => Grows(K, s, Cache!Prefix(p, i))
           /\ Stops(K, s, Cache!Prefix(p, i)) => Stops(K, s, p)
  <1> DEFINE q == Cache!Prefix(p, i)
  <1>1. Len(p) \in Nat
    BY PathIs
  <1>2. q \in Paths /\ Len(q) = i /\ \A j \in 1..i : q[j] = p[j]
    BY PrefixIs
  <1>3. \A j \in 0..i : Cache!Prefix(q, j) = Cache!Prefix(p, j)
    BY PrefixOfPrefix
  <1> HIDE DEF q
  <1>4. ASSUME NEW j \in 1..i
        PROVE  /\ j \in 1..Len(p) /\ j - 1 \in 0..i /\ j \in 0..i
               /\ q[j] = p[j] /\ Cache!Prefix(q, j) = Cache!Prefix(p, j)
               /\ Cache!Prefix(q, j - 1) = Cache!Prefix(p, j - 1)
    <2>1. j \in 1..Len(p) /\ j - 1 \in 0..i /\ j \in 0..i
      BY <1>1
    <2>2. QED
      BY <1>2, <1>3, <2>1
  <1>5. ASSUME Grows(K, s, p) PROVE Grows(K, s, q)
    BY <1>2, <1>4, <1>5 DEF Grows
  <1>6. ASSUME Stops(K, s, q) PROVE Stops(K, s, p)
    BY <1>2, <1>4, <1>6 DEF Stops
  <1>7. QED
    BY <1>5, <1>6 DEF q

(* What a lookup leaves and returns. *)
Looked(K, s, p, l) ==
    /\ l \in [cache : Caches(K), found : BOOLEAN]
    /\ l.found => Cache!Cached(l.cache, p)
    /\ ~l.found => Stops(K, s, p)

(* What it does at the i-th token, from what it has after the one before. *)
LookStep(c, s, p, i, up) ==
    LET n == IF up.found THEN Cache!GetChild(s, Cache!EntryOf(up.cache, Cache!Prefix(p, i - 1)).node, p[i])
             ELSE NoNode
    IN  IF Cache!Cached(c, Cache!Prefix(p, i)) THEN [cache |-> c, found |-> TRUE]
        ELSE IF n = NoNode THEN [cache |-> up.cache, found |-> FALSE]
        ELSE [cache |-> Append(up.cache, Cache!Entry(s, Cache!Prefix(p, i), n)), found |-> TRUE]

LookRoot(c, s) ==
    IF Cache!Cached(c, <<>>) THEN [cache |-> c, found |-> TRUE]
    ELSE [cache |-> Append(c, Cache!Entry(s, <<>>, Root)), found |-> TRUE]

(* After the i-th token: no entries have been made of longer prefixes. *)
LookedTo(K, c, s, p, i, v) ==
    /\ Looked(K, s, Cache!Prefix(p, i), v)
    /\ \A j \in (i + 1)..Len(p) :
          Cache!Cached(v.cache, Cache!Prefix(p, j)) => Cache!Cached(c, Cache!Prefix(p, j))

LEMMA LookRootIs ==
    ASSUME NEW K, K \subseteq Entries, NEW s \in FsStates, NEW p \in Paths, Grows(K, s, p),
           NEW c \in Caches(K)
    PROVE  LookedTo(K, c, s, p, 0, LookRoot(c, s))
  <1> DEFINE e == Cache!Entry(s, <<>>, Root)
  <1>1. Len(p) \in Nat /\ 0 \in 0..Len(p) /\ Cache!Prefix(p, 0) = <<>>
    BY PathIs, PrefixIs
  <1>2. e \in K /\ e.path = <<>>
    BY DEF Grows, Cache!Entry
  <1>3. ASSUME NEW j \in 1..Len(p) PROVE Cache!Prefix(p, j) # <<>>
    <2>1. j \in 0..Len(p) /\ j # 0
      BY <1>1
    <2>2. Len(Cache!Prefix(p, j)) = j
      BY <2>1, PrefixIs
    <2>3. QED
      BY <2>1, <2>2, RootPath
  <1>4. CASE Cache!Cached(c, <<>>)
    BY <1>1, <1>4 DEF LookRoot, LookedTo, Looked
  <1>5. CASE ~Cache!Cached(c, <<>>)
    <2> DEFINE d == Append(c, e)
    <2>1. /\ d \in Caches(K) /\ Cache!Cached(d, <<>>)
          /\ \A q : Cache!Cached(d, q) => q = <<>> \/ Cache!Cached(c, q)
      BY <1>2, <1>5, AppendIs
    <2>2. LookRoot(c, s) = [cache |-> d, found |-> TRUE]
      BY <1>5 DEF LookRoot
    <2> HIDE DEF d
    <2>3. QED
      BY <1>1, <1>3, <2>1, <2>2 DEF LookedTo, Looked
  <1>6. QED
    BY <1>4, <1>5

LEMMA LookStepIs ==
    ASSUME NEW K, K \subseteq Entries, NEW s \in FsStates, NEW p \in Paths, Grows(K, s, p),
           NEW c \in Caches(K), NEW i \in 1..Len(p), NEW up, LookedTo(K, c, s, p, i - 1, up)
    PROVE  LookedTo(K, c, s, p, i, LookStep(c, s, p, i, up))
  <1> DEFINE P(j) == Cache!Prefix(p, j)
             e == Cache!EntryOf(up.cache, P(i - 1))
             n == Cache!GetChild(s, e.node, p[i])
             new == Cache!Entry(s, P(i), n)
             v == LookStep(c, s, p, i, up)
  <1>1. /\ Len(p) \in Nat /\ i \in 0..Len(p) /\ i - 1 \in 0..Len(p) /\ (i - 1) + 1 = i
        /\ \A j \in (i + 1)..Len(p) : j \in i..Len(p) /\ j \in 0..Len(p) /\ j # i
        /\ i \in i..Len(p)
    BY PathIs
  <1>2. up \in [cache : Caches(K), found : BOOLEAN]
    BY DEF LookedTo, Looked
  <1>3. \A j \in i..Len(p) : Cache!Cached(up.cache, P(j)) => Cache!Cached(c, P(j))
    BY <1>1 DEF LookedTo
  <1>4. CASE Cache!Cached(c, P(i))
    <2>1. v = [cache |-> c, found |-> TRUE]
      BY <1>4 DEF LookStep
    <2>2. QED
      BY <1>4, <2>1 DEF LookedTo, Looked
  <1>5. CASE ~Cache!Cached(c, P(i)) /\ ~up.found
    <2>1. v = [cache |-> up.cache, found |-> FALSE]
      BY <1>5 DEF LookStep
    <2>2. Stops(K, s, P(i - 1))
      BY <1>5 DEF LookedTo, Looked
    <2>3. P(i - 1) = Cache!Prefix(P(i), i - 1) /\ P(i) \in Paths /\ Len(P(i)) = i
      <3>1. i - 1 \in 0..i
        BY <1>1
      <3>2. QED
        BY <1>1, <3>1, PrefixOfPrefix, PrefixIs
    <2>4. Stops(K, s, P(i))
      <3>1. i - 1 \in 0..Len(P(i))
        BY <1>1, <2>3
      <3>2. QED
        BY <2>2, <2>3, <3>1, PrefixGrows
    <2>5. QED
      BY <1>1, <1>2, <1>3, <2>1, <2>4 DEF LookedTo, Looked
  <1>6. CASE ~Cache!Cached(c, P(i)) /\ up.found
    <2>1. e \in K /\ e.path = P(i - 1)
      <3>1. Cache!Cached(up.cache, P(i - 1))
        BY <1>6 DEF LookedTo, Looked
      <3>2. QED
        BY <1>2, <3>1, CachedIs
    <2>2. v = IF n = NoNode THEN [cache |-> up.cache, found |-> FALSE]
              ELSE [cache |-> Append(up.cache, new), found |-> TRUE]
      BY <1>6 DEF LookStep
    <2> HIDE DEF e
    <2>3. CASE n = NoNode
      <3>1. Stops(K, s, P(i))
        <4>1. P(i) \in Paths /\ Len(P(i)) = i /\ i \in 1..i /\ i - 1 \in 0..i
              /\ P(i)[i] = p[i]
          BY <1>1, PrefixIs
        <4>2. Cache!Prefix(P(i), i - 1) = P(i - 1)
          BY <1>1, <4>1, PrefixOfPrefix
        <4>3. QED
          BY <2>1, <2>3, <4>1, <4>2 DEF Stops
      <3>2. QED
        BY <1>1, <1>2, <1>3, <2>2, <2>3, <3>1 DEF LookedTo, Looked
    <2>4. CASE n # NoNode
      <3>1. new \in K /\ new.path = P(i)
        BY <2>1, <2>4 DEF Grows, Cache!Entry
      <3>2. ~Cache!Cached(up.cache, P(i))
        BY <1>1, <1>3, <1>6
      <3> DEFINE d == Append(up.cache, new)
      <3>3. /\ d \in Caches(K) /\ Cache!Cached(d, P(i))
            /\ \A q : Cache!Cached(d, q) => q = P(i) \/ Cache!Cached(up.cache, q)
        BY <1>2, <3>1, <3>2, AppendIs
      <3>4. \A j \in (i + 1)..Len(p) : P(j) # P(i)
        <4>1. SUFFICES ASSUME NEW j \in (i + 1)..Len(p) PROVE P(j) # P(i)
          OBVIOUS
        <4>2. Len(P(i)) = i /\ Len(P(j)) = j /\ i # j
          BY <1>1, PrefixIs
        <4>3. QED
          BY <4>2
      <3>5. v = [cache |-> d, found |-> TRUE]
        BY <2>2, <2>4
      <3> HIDE DEF d, v
      <3>6. QED
        BY <1>1, <1>3, <3>3, <3>4, <3>5 DEF LookedTo, Looked, v
    <2>5. QED
      BY <2>3, <2>4
  <1>7. QED
    BY <1>2, <1>4, <1>5, <1>6
(* lookup() as the recursive function of its definition. *)
LEMMA LookupIs ==
    ASSUME NEW K, K \subseteq Entries, NEW s \in FsStates, NEW p \in Paths, Grows(K, s, p),
           NEW c \in Caches(K)
    PROVE  Looked(K, s, p, Cache!Lookup(c, s, p))
  <1> DEFINE n == Len(p)
             V == [cache : Caches(K), found : BOOLEAN]
             At(i, v) == LookedTo(K, c, s, p, i, v)
             root == LookRoot(c, s)
             g == [x \in (0..n) \X V |->
                     IF x[1] \in 1..n /\ At(x[1] - 1, x[2]) THEN LookStep(c, s, p, x[1], x[2]) ELSE root]
  <1>1. n \in Nat /\ 0..n \subseteq Nat /\ \A i \in 1..n : i \in 0..n /\ i - 1 \in 0..n /\ i # 0
    BY PathIs
  <1>2. At(0, root)
    BY LookRootIs
  <1>3. \A i \in 1..n, up \in V : At(i - 1, up) => At(i, LookStep(c, s, p, i, up))
    BY LookStepIs
  <1>4. \A i, v : At(i, v) => v \in V
    BY DEF LookedTo, Looked
  <1> HIDE DEF At, V, root
  <1>5. g \in [(0..n) \X V -> V]
    <2>1. \A x \in (0..n) \X V :
             (IF x[1] \in 1..n /\ At(x[1] - 1, x[2]) THEN LookStep(c, s, p, x[1], x[2]) ELSE root) \in V
      BY <1>2, <1>3, <1>4
    <2>2. QED
      BY <2>1
  <1>6. PICK f : Iterates(f, n, V, root, g)
    BY <1>1, <1>2, <1>4, <1>5, Iteration
  <1>7. f \in [0..n -> V] /\ f[0] = root /\ \A i \in 1..n : f[i] = g[<<i, f[i - 1]>>]
    BY <1>6 DEF Iterates
  <1>8. ASSUME NEW i \in 1..n, At(i - 1, f[i - 1])
        PROVE  f[i] = LookStep(c, s, p, i, f[i - 1]) /\ At(i, f[i])
    <2>1. <<i, f[i - 1]>> \in (0..n) \X V
      BY <1>1, <1>7
    <2>2. g[<<i, f[i - 1]>>] = LookStep(c, s, p, i, f[i - 1])
      BY <1>8, <2>1
    <2> HIDE DEF g
    <2>3. QED
      BY <1>1, <1>3, <1>7, <1>8, <2>2
  <1> HIDE DEF g
  <1> DEFINE T == {i \in 0..n : At(i, f[i])}
  <1>9. 0 \in T
    BY <1>1, <1>2, <1>7
  <1>10. ASSUME NEW i \in 0..(n - 1), i \in T PROVE i + 1 \in T
    <2>1. i + 1 \in 1..n /\ (i + 1) - 1 = i /\ i + 1 \in 0..n
      BY <1>1
    <2>2. At((i + 1) - 1, f[(i + 1) - 1])
      BY <1>10, <2>1
    <2>3. QED
      BY <1>8, <2>1, <2>2
  <1> HIDE DEF T
  <1>11. 0..n \subseteq T
    BY <1>1, <1>9, <1>10, SetInduction
  <1>12. /\ \A i \in 1..n : f[i] = LookStep(c, s, p, i, f[i - 1])
         /\ At(n, f[n])
    <2>1. \A i \in 0..n : At(i, f[i])
      BY <1>11 DEF T
    <2>2. QED
      BY <1>1, <1>8, <2>1
  <1> DEFINE Body(h) ==
        [i \in 0..n |->
          IF Cache!Cached(c, Cache!Prefix(p, i)) THEN [cache |-> c, found |-> TRUE]
          ELSE IF i = 0
          THEN [cache |-> Append(c, Cache!Entry(s, <<>>, Root)), found |-> TRUE]
          ELSE LET up == h[i - 1]
                   m  == IF up.found
                         THEN Cache!GetChild(s, Cache!EntryOf(up.cache, Cache!Prefix(p, i - 1)).node, p[i])
                         ELSE NoNode
               IN  IF m = NoNode
                   THEN [cache |-> up.cache, found |-> FALSE]
                   ELSE [cache |-> Append(up.cache, Cache!Entry(s, Cache!Prefix(p, i), m)),
                         found |-> TRUE]]
  <1>13. \A h : /\ Body(h) = [i \in 0..n |-> Body(h)[i]]
                /\ Body(h)[0] = root
                /\ \A i \in 1..n : Body(h)[i] = LookStep(c, s, p, i, h[i - 1])
    <2>1. Cache!Prefix(p, 0) = <<>>
      BY <1>1, PrefixIs
    <2>2. QED
      BY <1>1, <2>1 DEF LookStep, LookRoot, root
  <1>14. Cache!Lookup(c, s, p) = (CHOOSE h : h = Body(h))[n]
    BY DEF Cache!Lookup
  <1> HIDE DEF Body
  <1>15. f = Body(f)
    <2>1. f = [i \in 0..n |-> f[i]]
      BY <1>7
    <2>2. \A i \in 0..n : i = 0 \/ i \in 1..n
      BY <1>1
    <2>3. \A i \in 0..n : f[i] = Body(f)[i]
      BY <1>7, <1>12, <1>13, <2>2
    <2>4. QED
      BY <1>13, <2>1, <2>3
  <1>16. ASSUME NEW h, h = Body(h) PROVE h = f
    <2>1. h = [i \in 0..n |-> h[i]] /\ f = [i \in 0..n |-> f[i]]
      BY <1>7, <1>13, <1>16
    <2>2. h[0] = f[0] /\ \A i \in 1..n : h[i] = LookStep(c, s, p, i, h[i - 1])
      BY <1>7, <1>13, <1>16
    <2>3. \A i \in 1..n : h[i - 1] = f[i - 1] => h[i] = f[i]
      BY <1>12, <2>2
    <2> HIDE DEF n
    <2>4. \A i \in 0..n : h[i] = f[i]
      BY <1>1, <2>2, <2>3, SameSteps
    <2>5. QED
      BY <2>1, <2>4
  <1>17. (CHOOSE h : h = Body(h)) = f
    BY <1>15, <1>16
  <1>18. Cache!Lookup(c, s, p) = f[n] /\ LookedTo(K, c, s, p, n, f[n])
    BY <1>12, <1>14, <1>17 DEF At
  <1>19. Cache!Prefix(p, n) = p
    BY <1>1, PrefixIs
  <1>20. QED
    BY <1>18, <1>19 DEF LookedTo
(* What the search permissions say, of the prefixes of i lengths from the longest. *)
Passed(K, u, p, i) ==
    \A j \in 1..i : \E e \in K : e.path = Cache!Prefix(p, Len(p) - j) /\ Cache!CheckAccess(u, e)

Refused(K, u, p) ==
    \E j \in 1..Len(p), e \in K : e.path = Cache!Prefix(p, Len(p) - j) /\ ~Cache!CheckAccess(u, e)

SearchedTo(K, s, u, p, i, v) ==
    /\ v \in [cache : Caches(K), found : BOOLEAN]
    /\ v.found => Passed(K, u, p, i)
    /\ ~v.found => Stops(K, s, p) \/ Refused(K, u, p)

SearchStep(s, u, p, i, before) ==
    LET q == Cache!Prefix(p, Len(p) - i)
        l == Cache!Lookup(before.cache, s, q)
    IN  IF ~before.found THEN before
        ELSE [cache |-> l.cache, found |-> l.found /\ Cache!CheckAccess(u, Cache!EntryOf(l.cache, q))]

LEMMA SearchStepIs ==
    ASSUME NEW K, K \subseteq Entries, NEW s \in FsStates, NEW u, NEW p \in Paths, Grows(K, s, p),
           NEW i \in 1..Len(p), NEW v, SearchedTo(K, s, u, p, i - 1, v)
    PROVE  SearchedTo(K, s, u, p, i, SearchStep(s, u, p, i, v))
  <1> DEFINE q == Cache!Prefix(p, Len(p) - i)
             l == Cache!Lookup(v.cache, s, q)
             e == Cache!EntryOf(l.cache, q)
             w == SearchStep(s, u, p, i, v)
  <1>1. Len(p) \in Nat /\ Len(p) - i \in 0..Len(p)
    BY PathIs
  <1>2. q \in Paths /\ Grows(K, s, q) /\ (Stops(K, s, q) => Stops(K, s, p))
    BY <1>1, PrefixIs, PrefixGrows
  <1>3. v \in [cache : Caches(K), found : BOOLEAN]
    BY DEF SearchedTo
  <1> HIDE DEF q
  <1>4. Looked(K, s, q, l)
    BY <1>2, <1>3, LookupIs
  <1>5. CASE ~v.found
    BY <1>3, <1>5 DEF SearchStep, SearchedTo
  <1>6. CASE v.found /\ ~l.found
    <2>1. w = [cache |-> l.cache, found |-> FALSE]
      BY <1>6 DEF SearchStep, q
    <2>2. l.cache \in Caches(K) /\ Stops(K, s, p)
      BY <1>2, <1>4, <1>6 DEF Looked
    <2> HIDE DEF w, l
    <2>3. QED
      BY <2>1, <2>2 DEF SearchedTo, w
  <1>7. CASE v.found /\ l.found
    <2>1. l.cache \in Caches(K) /\ Cache!Cached(l.cache, q)
      BY <1>4, <1>7 DEF Looked
    <2>2. e \in K /\ e.path = q
      BY <2>1, CachedIs
    <2>3. l.found = TRUE
      BY <1>4, <1>7 DEF Looked
    <2> HIDE DEF e, l
    <2>4. Cache!CheckAccess(u, e) \in BOOLEAN
      BY DEF Cache!CheckAccess
    <2>5. w = [cache |-> l.cache, found |-> Cache!CheckAccess(u, e)]
      BY <1>7, <2>3, <2>4 DEF SearchStep, q, e, l
    <2> HIDE DEF w
    <2>6. CASE Cache!CheckAccess(u, e)
      <3>1. w = [cache |-> l.cache, found |-> TRUE]
        BY <2>4, <2>5, <2>6
      <3>2. Passed(K, u, p, i - 1)
        BY <1>7 DEF SearchedTo
      <3>3. Passed(K, u, p, i)
        <4>1. SUFFICES ASSUME NEW j \in 1..i
                       PROVE  \E d \in K : /\ d.path = Cache!Prefix(p, Len(p) - j)
                                           /\ Cache!CheckAccess(u, d)
          BY DEF Passed
        <4>2. CASE j = i
          BY <2>2, <2>6, <4>2 DEF q
        <4>3. CASE j # i
          <5>1. j \in 1..(i - 1)
            BY <1>1, <4>3
          <5>2. QED
            BY <3>2, <5>1 DEF Passed
        <4>4. QED
          BY <4>2, <4>3
      <3>4. QED
        BY <2>1, <3>1, <3>3 DEF SearchedTo, w
    <2>7. CASE ~Cache!CheckAccess(u, e)
      <3>1. w = [cache |-> l.cache, found |-> FALSE]
        BY <2>4, <2>5, <2>7
      <3>2. Refused(K, u, p)
        BY <2>2, <2>7 DEF Refused, q
      <3>3. QED
        BY <2>1, <3>1, <3>2 DEF SearchedTo, w
    <2>8. QED
      BY <2>6, <2>7
  <1>8. QED
    BY <1>5, <1>6, <1>7

(* withPath(checkAccess) *)
LEMMA SearchedIs ==
    ASSUME NEW K, K \subseteq Entries, NEW s \in FsStates, NEW u, NEW p \in Paths, Grows(K, s, p),
           NEW c \in Caches(K)
    PROVE  SearchedTo(K, s, u, p, Len(p), Cache!Searched(c, s, u, p))
  <1> DEFINE n == Len(p)
             V == [cache : Caches(K), found : BOOLEAN]
             At(i, v) == SearchedTo(K, s, u, p, i, v)
             start == [cache |-> c, found |-> TRUE]
             g == [x \in (0..n) \X V |->
                     IF x[1] \in 1..n /\ At(x[1] - 1, x[2]) THEN SearchStep(s, u, p, x[1], x[2]) ELSE start]
  <1>1. n \in Nat /\ 0..n \subseteq Nat /\ \A i \in 1..n : i \in 0..n /\ i - 1 \in 0..n /\ i # 0
    BY PathIs
  <1>2. At(0, start)
    BY DEF SearchedTo, Passed
  <1>3. \A i \in 1..n, v \in V : At(i - 1, v) => At(i, SearchStep(s, u, p, i, v))
    BY SearchStepIs
  <1>4. \A i, v : At(i, v) => v \in V
    BY DEF SearchedTo
  <1> HIDE DEF At, V, start
  <1>5. g \in [(0..n) \X V -> V]
    <2>1. \A x \in (0..n) \X V :
             (IF x[1] \in 1..n /\ At(x[1] - 1, x[2]) THEN SearchStep(s, u, p, x[1], x[2]) ELSE start) \in V
      BY <1>2, <1>3, <1>4
    <2>2. QED
      BY <2>1
  <1>6. PICK f : Iterates(f, n, V, start, g)
    BY <1>1, <1>2, <1>4, <1>5, Iteration
  <1>7. f \in [0..n -> V] /\ f[0] = start /\ \A i \in 1..n : f[i] = g[<<i, f[i - 1]>>]
    BY <1>6 DEF Iterates
  <1>8. ASSUME NEW i \in 1..n, At(i - 1, f[i - 1])
        PROVE  f[i] = SearchStep(s, u, p, i, f[i - 1]) /\ At(i, f[i])
    <2>1. <<i, f[i - 1]>> \in (0..n) \X V
      BY <1>1, <1>7
    <2>2. g[<<i, f[i - 1]>>] = SearchStep(s, u, p, i, f[i - 1])
      BY <1>8, <2>1
    <2> HIDE DEF g
    <2>3. QED
      BY <1>1, <1>3, <1>7, <1>8, <2>2
  <1> HIDE DEF g
  <1> DEFINE T == {i \in 0..n : At(i, f[i])}
  <1>9. 0 \in T
    BY <1>1, <1>2, <1>7
  <1>10. ASSUME NEW i \in 0..(n - 1), i \in T PROVE i + 1 \in T
    <2>1. i + 1 \in 1..n /\ (i + 1) - 1 = i /\ i + 1 \in 0..n
      BY <1>1
    <2>2. At((i + 1) - 1, f[(i + 1) - 1])
      BY <1>10, <2>1
    <2>3. QED
      BY <1>8, <2>1, <2>2
  <1> HIDE DEF T
  <1>11. 0..n \subseteq T
    BY <1>1, <1>9, <1>10, SetInduction
  <1>12. /\ \A i \in 1..n : f[i] = SearchStep(s, u, p, i, f[i - 1])
         /\ At(n, f[n])
    <2>1. \A i \in 0..n : At(i, f[i])
      BY <1>11 DEF T
    <2>2. QED
      BY <1>1, <1>8, <2>1
  <1> DEFINE Body(h) ==
        [i \in 0..n |->
          IF i = 0 THEN [cache |-> c, found |-> TRUE]
          ELSE LET before == h[i - 1]
                   q      == Cache!Prefix(p, Len(p) - i)
                   l      == Cache!Lookup(before.cache, s, q)
               IN  IF ~before.found THEN before
                   ELSE [cache |-> l.cache,
                         found |-> l.found /\ Cache!CheckAccess(u, Cache!EntryOf(l.cache, q))]]
  <1>13. \A h : /\ Body(h) = [i \in 0..n |-> Body(h)[i]]
                /\ Body(h)[0] = start
                /\ \A i \in 1..n : Body(h)[i] = SearchStep(s, u, p, i, h[i - 1])
    BY <1>1 DEF SearchStep, start
  <1>14. Cache!Searched(c, s, u, p) = (CHOOSE h : h = Body(h))[n]
    BY DEF Cache!Searched
  <1> HIDE DEF Body
  <1>15. f = Body(f)
    <2>1. f = [i \in 0..n |-> f[i]]
      BY <1>7
    <2>2. \A i \in 0..n : i = 0 \/ i \in 1..n
      BY <1>1
    <2>3. \A i \in 0..n : f[i] = Body(f)[i]
      BY <1>7, <1>12, <1>13, <2>2
    <2>4. QED
      BY <1>13, <2>1, <2>3
  <1>16. ASSUME NEW h, h = Body(h) PROVE h = f
    <2>1. h = [i \in 0..n |-> h[i]] /\ f = [i \in 0..n |-> f[i]]
      BY <1>7, <1>13, <1>16
    <2>2. h[0] = f[0] /\ \A i \in 1..n : h[i] = SearchStep(s, u, p, i, h[i - 1])
      BY <1>7, <1>13, <1>16
    <2>3. \A i \in 1..n : h[i - 1] = f[i - 1] => h[i] = f[i]
      BY <1>12, <2>2
    <2> HIDE DEF n
    <2>4. \A i \in 0..n : h[i] = f[i]
      BY <1>1, <2>2, <2>3, SameSteps
    <2>5. QED
      BY <2>1, <2>4
  <1>17. (CHOOSE h : h = Body(h)) = f
    BY <1>15, <1>16
  <1>18. QED
    BY <1>12, <1>14, <1>17 DEF At

(* getnode(): the entries it may add are in K; the node is that of an entry  *)
(* of the path, all of whose prefixes can be searched, or there is a reason. *)
LEMMA GetNodeIs ==
    ASSUME NEW K, K \subseteq Entries, NEW s \in FsStates, NEW u, NEW p \in Paths, Grows(K, s, p),
           NEW c \in Caches(K)
    PROVE  LET r == Cache!GetNode(c, s, u, p) IN
           /\ r.cache \in Caches(K) /\ r.node \in Ids \cup {NoNode}
           /\ r.node # NoNode =>
                 \E e \in K : e.path = p /\ e.node = r.node /\ Passed(K, u, p, Len(p))
           /\ r.node = NoNode =>
                 \/ Stops(K, s, p) \/ Refused(K, u, p)
                 \/ \E e \in K : e.path = p /\ s.kind[e.node] = "free"
  <1> DEFINE above == Cache!Searched(c, s, u, p)
             l == Cache!Lookup(above.cache, s, p)
             e == Cache!EntryOf(l.cache, p)
             r == Cache!GetNode(c, s, u, p)
  <1>1. SearchedTo(K, s, u, p, Len(p), above)
    BY SearchedIs
  <1>2. above.cache \in Caches(K)
    BY <1>1 DEF SearchedTo
  <1>3. Looked(K, s, p, l)
    BY <1>2, LookupIs
  <1>4. r = IF ~above.found THEN [cache |-> above.cache, node |-> NoNode]
            ELSE IF ~l.found THEN [cache |-> l.cache, node |-> NoNode]
            ELSE [cache |-> Cache!Promote(l.cache, p), node |-> Cache!Instance(s, e.node)]
    BY DEF Cache!GetNode
  <1> HIDE DEF above, l, e, r
  <1>5. CASE ~above.found
    <2>1. r = [cache |-> above.cache, node |-> NoNode]
      BY <1>4, <1>5
    <2>2. QED
      BY <1>1, <1>2, <1>5, <2>1 DEF SearchedTo, r
  <1>6. CASE above.found /\ ~l.found
    <2>1. r = [cache |-> l.cache, node |-> NoNode]
      BY <1>4, <1>6
    <2>2. QED
      BY <1>3, <1>6, <2>1 DEF Looked, r
  <1>7. CASE above.found /\ l.found
    <2>1. l.cache \in Caches(K) /\ Cache!Cached(l.cache, p)
      BY <1>3, <1>7 DEF Looked
    <2>2. e \in K /\ e.path = p
      BY <2>1, CachedIs DEF e
    <2>3. Cache!Promote(l.cache, p) \in Caches(K)
      BY <2>1, PromoteIs
    <2>4. r.cache = Cache!Promote(l.cache, p) /\ r.node = Cache!Instance(s, e.node)
      BY <1>4, <1>7
    <2>5. e.node \in Ids /\ Passed(K, u, p, Len(p))
      BY <1>1, <1>7, <2>2 DEF Entries, SearchedTo
    <2>6. CASE s.kind[e.node] = "free"
      <3>1. r.node = NoNode
        BY <2>4, <2>6 DEF Cache!Instance
      <3>2. QED
        BY <2>2, <2>3, <2>4, <2>6, <3>1 DEF r
    <2>7. CASE s.kind[e.node] # "free"
      <3>1. r.node = e.node /\ r.node # NoNode
        BY <2>4, <2>5, <2>7, NoNodeAssumption DEF Cache!Instance
      <3>2. QED
        BY <2>2, <2>3, <2>4, <2>5, <3>1 DEF r
    <2>8. QED
      BY <2>6, <2>7
  <1>8. QED
    BY <1>5, <1>6, <1>7
-----------------------------------------------------------------------------
(* The invariant. *)

(* Coherent and BelowSuspect, of any state and any set of suspects. *)
Fits(s, e)  == R(s, e.path) = e.node /\ e.search = s.search[e.node]
Below(S, p) == \E q \in S : IsBelow(p, q)

(* What an entry may say, and that the root's entry is that of no other node. *)
Kept(s, S) ==
    {e \in Entries : (e.path = <<>> <=> e.node = Root) /\ (Fits(s, e) \/ Below(S, e.path))}

(* What a path needs of the databases.  A node that is not a directory has   *)
(* its search bit set, for the next directory that gets its number.          *)
Well(s) ==
    /\ s \in FsStates /\ Live(s) /\ Rooted(s) /\ OneName(s)
    /\ \A x \in Ids : s.kind[x] # "dir" => s.search[x]

(* The inductive invariant: the two databases stay in agreement whatever the *)
(* cache answers, and the entries say what they may.                         *)
PInv ==
    /\ IInv /\ Well(FsState)
    /\ suspect \subseteq Paths
    /\ cache \in Caches(Kept(FsState, suspect))

LEMMA GoodIsWell ==
    ASSUME NEW s, Good(s), NEW b \in [Ids -> BOOLEAN], \A x \in Ids : s.kind[x] # "dir" => b[x]
    PROVE  Well([kind |-> s.kind, dirs |-> s.dirs, search |-> b])
  <1> DEFINE t == [kind |-> s.kind, dirs |-> s.dirs, search |-> b]
  <1>1. t \in FsStates
    BY DEF Good, States, FsStates
  <1>2. Live(t)
    BY LiveIffNamed DEF Live
  <1>3. Rooted(t) /\ OneName(t)
    BY DEF Good, Rooted, OneName
  <1>4. QED
    BY <1>1, <1>2, <1>3 DEF Well

(* Below, and below that. *)
LEMMA BelowMore ==
    ASSUME NEW S, S \subseteq Paths, NEW p \in Paths, NEW i \in 1..Len(p),
           Below(S, Cache!Prefix(p, i - 1))
    PROVE  Below(S, Cache!Prefix(p, i))
  <1> DEFINE a == Cache!Prefix(p, i - 1)
             b == Cache!Prefix(p, i)
  <1>1. PICK q \in S : IsBelow(a, q)
    BY DEF Below
  <1>2. Len(p) \in Nat /\ Len(q) \in Nat /\ i - 1 \in 0..Len(p) /\ i \in 0..Len(p)
    BY PathIs
  <1>3. Len(a) = i - 1 /\ Len(b) = i
    BY <1>2, PrefixIs
  <1>4. Len(q) < i - 1 /\ Cache!Prefix(a, Len(q)) = q
    BY <1>1, <1>3 DEF IsBelow, Cache!Prefix
  <1>5. Cache!Prefix(a, Len(q)) = Cache!Prefix(p, Len(q)) /\ Cache!Prefix(b, Len(q)) = Cache!Prefix(p, Len(q))
    BY <1>2, <1>4, PrefixOfPrefix
  <1>6. Len(q) < Len(b) /\ Cache!Prefix(b, Len(q)) = q
    BY <1>2, <1>3, <1>4, <1>5
  <1> HIDE DEF b
  <1>7. IsBelow(b, q)
    BY <1>6 DEF IsBelow, Cache!Prefix
  <1>8. QED
    BY <1>7 DEF Below, b

(* No path is below the root's path alone. *)
LEMMA RootAbove ==
    ASSUME NEW p \in Paths
    PROVE  /\ p # <<>> => Below({<<>>}, p)
           /\ p = <<>> => \A S \in SUBSET Paths : ~Below(S, p)
  <1>1. Len(p) \in Nat /\ (p = <<>> <=> Len(p) = 0)
    BY PathIs
  <1>2. ASSUME p # <<>> PROVE IsBelow(p, <<>>)
    <2>1. Len(<<>>) = 0 /\ 0 \in 0..Len(p)
      BY <1>1, RootPath
    <2>2. Cache!Prefix(p, Len(<<>>)) = <<>>
      BY <2>1, PrefixIs
    <2>3. QED
      BY <1>1, <1>2, <2>1, <2>2 DEF IsBelow, Cache!Prefix
  <1>3. ASSUME p = <<>>, NEW S \in SUBSET Paths, NEW q \in S PROVE ~IsBelow(p, q)
    BY <1>1, <1>3, PathIs DEF IsBelow
  <1>4. QED
    BY <1>2, <1>3 DEF Below

(* Whatever getnode() adds to such a cache may be there. *)
LEMMA KeptGrows ==
    ASSUME NEW s, Well(s), NEW S, S \subseteq Paths, NEW p \in Paths
    PROVE  Grows(Kept(s, S), s, p) /\ Kept(s, S) \subseteq Entries
  <1> DEFINE K == Kept(s, S)
  <1>1. s \in FsStates
    BY DEF Well
  <1>2. Cache!Entry(s, <<>>, Root) \in K
    <2> DEFINE e == Cache!Entry(s, <<>>, Root)
    <2>1. e = [path |-> <<>>, node |-> Root, search |-> s.search[Root]]
      BY DEF Cache!Entry
    <2>2. e \in Entries
      BY <1>1, <2>1, RootPath, KeyFacts DEF Entries, FsStates
    <2>3. Fits(s, e)
      BY <1>1, <2>1, ResolveRoot DEF Fits, R
    <2> HIDE DEF e
    <2>4. QED
      BY <2>1, <2>2, <2>3 DEF Kept, e
  <1>3. ASSUME NEW i \in 1..Len(p), NEW e \in K, NEW n, n = Cache!GetChild(s, e.node, p[i]),
               e.path = Cache!Prefix(p, i - 1), n # NoNode
        PROVE  Cache!Entry(s, Cache!Prefix(p, i), n) \in K
    <2> DEFINE q == Cache!Prefix(p, i)
               d == Cache!Entry(s, q, n)
    <2>1. Len(p) \in Nat /\ i \in 0..Len(p) /\ i # 0 /\ p[i] \in Names
      BY PathIs
    <2>2. q \in Paths /\ Len(q) = i /\ q # <<>>
      BY <2>1, PrefixIs, RootPath
    <2>3. e \in Entries /\ (Fits(s, e) \/ Below(S, e.path)) /\ e.node \in Ids
      BY DEF Kept, Entries
    <2>4. n \in Ids /\ <<e.node, p[i]>> \in Keys /\ n = s.dirs[<<e.node, p[i]>>]
      BY <1>1, <1>3, <2>1, <2>3, GetChildIs
    <2>5. n # Root
      BY <2>1, <2>3, <2>4, KeyFacts DEF Well, Rooted
    <2>6. d = [path |-> q, node |-> n, search |-> s.search[n]]
      BY DEF Cache!Entry
    <2>7. Fits(s, e) => R(s, q) = n
      BY <1>1, <1>3, Step DEF Fits
    <2>8. Below(S, e.path) => Below(S, q)
      BY <1>3, BelowMore
    <2> HIDE DEF q, d
    <2>9. d \in Entries
      BY <1>1, <2>2, <2>4, <2>6 DEF Entries, FsStates
    <2>10. Fits(s, d) \/ Below(S, d.path)
      BY <2>3, <2>6, <2>7, <2>8 DEF Fits
    <2>11. QED
      BY <2>2, <2>5, <2>6, <2>9, <2>10 DEF Kept, d, q
  <1>4. K \subseteq Entries
    BY DEF Kept
  <1> HIDE DEF K
  <1>5. QED
    BY <1>2, <1>3, <1>4 DEF Grows, K
-----------------------------------------------------------------------------
(* What stays true of the entries when the databases change, from s to t. *)

(* No node but a new one gets another type, and a directory that stays keeps *)
(* its search bit.                                                           *)
Follows(s, t) ==
    /\ Well(s) /\ Well(t)
    /\ \A x \in Ids :
          /\ s.kind[x] # "free" => t.kind[x] \in {s.kind[x], "free"}
          /\ s.kind[x] = "dir" /\ t.kind[x] = "dir" => t.search[x] = s.search[x]

(* The name that a path with a leaf ends in is changed: the i-th of q. *)
Passes(s, q, i, p) ==
    /\ R(s, Cache!Prefix(q, i - 1)) = R(s, Parent(p))
    /\ q[i] = Leaf(p)

LEMMA KeptEntry ==
    ASSUME NEW s, NEW t, Follows(s, t), NEW e \in Entries, Fits(s, e),
           \A i \in 1..Len(e.path) :
               LET k == <<R(s, Cache!Prefix(e.path, i - 1)), e.path[i]>> IN t.dirs[k] = s.dirs[k]
    PROVE  Fits(t, e)
  <1>1. s \in FsStates /\ t \in FsStates /\ Live(s) /\ Live(t)
    BY DEF Follows, Well
  <1>2. e.path \in Paths /\ e.node \in Ids /\ R(s, e.path) = e.node /\ e.search = s.search[e.node]
    BY DEF Entries, Fits
  <1>3. R(s, e.path) # NoNode
    BY <1>2, NoNodeAssumption
  <1>4. R(t, e.path) = e.node /\ t.kind[e.node] = s.kind[e.node]
    BY <1>1, <1>2, <1>3, KeptPath DEF Follows
  <1>5. t.search[e.node] = s.search[e.node]
    <2>1. CASE s.kind[e.node] = "dir"
      BY <1>2, <1>4, <2>1 DEF Follows
    <2>2. CASE s.kind[e.node] # "dir"
      <3>1. s.search[e.node] /\ t.search[e.node]
        BY <1>2, <1>4, <2>2 DEF Follows, Well
      <3>2. s.search[e.node] \in BOOLEAN /\ t.search[e.node] \in BOOLEAN
        BY <1>1, <1>2 DEF FsStates
      <3>3. QED
        BY <3>1, <3>2
    <2>3. QED
      BY <2>1, <2>2
  <1>6. QED
    BY <1>2, <1>4, <1>5 DEF Fits

(* The names on the way to a node are taken. *)
LEMMA WayIsTaken ==
    ASSUME NEW s \in FsStates, NEW q \in Paths, R(s, q) # NoNode, NEW i \in 1..Len(q)
    PROVE  LET d == R(s, Cache!Prefix(q, i - 1)) IN
           /\ d \in Ids /\ s.kind[d] = "dir" /\ q[i] \in Names /\ <<d, q[i]>> \in NamedKeys
           /\ s.dirs[<<d, q[i]>>] # NoNode /\ s.dirs[<<d, q[i]>>] = R(s, Cache!Prefix(q, i))
  <1>1. Len(q) \in Nat /\ i \in 0..Len(q) /\ q[i] \in Names
    BY PathIs
  <1>2. R(s, Cache!Prefix(q, i)) # NoNode
    BY <1>1, ResolveWay DEF R
  <1>3. /\ R(s, Cache!Prefix(q, i - 1)) \in Ids \cup {NoNode}
        /\ R(s, Cache!Prefix(q, i)) = Cache!GetChild(s, R(s, Cache!Prefix(q, i - 1)), q[i])
    BY Step
  <1>4. QED
    BY <1>1, <1>2, <1>3, GetChildIs DEF NamedKeys

(* A path by way of the name that p ends in is p or below p, and then what p *)
(* leads to has a name.                                                      *)
LEMMA OnTheWay ==
    ASSUME NEW s, Well(s), NEW p \in Leaves, NEW q \in Paths, R(s, q) # NoNode,
           NEW i \in 1..Len(q), Passes(s, q, i, p)
    PROVE  \/ q = p
           \/ /\ IsBelow(q, p) /\ Len(p) < MaxDepth
              /\ R(s, p) \in Ids /\ s.kind[R(s, p)] = "dir"
              /\ \E x \in Names : Taken(s, R(s, p), x)
  <1> DEFINE a == Cache!Prefix(q, i - 1)
             b == Cache!Prefix(q, i)
  <1>1. /\ s \in FsStates /\ Rooted(s) /\ OneName(s)
        /\ Len(q) \in 0..MaxDepth /\ i \in 0..Len(q) /\ i - 1 \in 0..Len(q)
    BY PathIs, MaxDepthAssumption DEF Well
  <1>2. R(s, a) \in Ids /\ s.kind[R(s, a)] = "dir" /\ R(s, a) # NoNode
    BY <1>1, WayIsTaken, NoNodeAssumption
  <1>3. a \in Paths /\ Len(a) = i - 1 /\ \A j \in 1..(i - 1) : a[j] = q[j]
    BY <1>1, PrefixIs
  <1>4. b \in Paths /\ Len(b) = i /\ \A j \in 1..i : b[j] = q[j]
    BY <1>1, PrefixIs
  <1>5. Parent(p) \in Paths /\ Len(Parent(p)) = Len(p) - 1 /\ p \in Paths /\ Len(p) \in 1..MaxDepth
        /\ p[Len(p)] = Leaf(p) /\ Parent(p) = Cache!Prefix(p, Len(p) - 1) /\ Len(p) - 1 \in 0..Len(p)
    BY ParentIs
  <1>6. R(s, a) = R(s, Parent(p)) /\ q[i] = Leaf(p)
    BY DEF Passes
  <1> HIDE DEF a, b
  <1>7. a = Parent(p)
    BY <1>1, <1>2, <1>3, <1>5, <1>6, OnePath
  <1>8. Len(p) = i
    BY <1>1, <1>3, <1>5, <1>7, MaxDepthAssumption
  <1>9. \A j \in 1..(i - 1) : a[j] = p[j]
    BY <1>5, <1>7, <1>8, PrefixIs
  <1>10. \A j \in 1..i : b[j] = p[j]
    <2>1. SUFFICES ASSUME NEW j \in 1..i PROVE b[j] = p[j]
      OBVIOUS
    <2>2. CASE j = i
      BY <1>4, <1>5, <1>6, <1>8, <2>2
    <2>3. CASE j # i
      BY <1>1, <1>3, <1>4, <1>9, <2>3
    <2>4. QED
      BY <2>2, <2>3
  <1>11. b = p
    BY <1>4, <1>5, <1>8, <1>10, SamePath
  <1>12. CASE i = Len(q)
    <2>1. b = q
      BY <1>1, <1>12, PrefixIs DEF b
    <2>2. QED
      BY <1>11, <2>1
  <1>13. CASE i # Len(q)
    <2>1. i + 1 \in 1..Len(q) /\ (i + 1) - 1 = i
      BY <1>1, <1>13
    <2>2. /\ R(s, p) \in Ids /\ s.kind[R(s, p)] = "dir"
          /\ q[i + 1] \in Names /\ Taken(s, R(s, p), q[i + 1])
      BY <1>1, <1>11, <2>1, WayIsTaken DEF b, Taken
    <2>3. IsBelow(q, p)
      BY <1>1, <1>8, <1>11, <1>13 DEF IsBelow, Cache!Prefix, b
    <2>4. Len(p) < MaxDepth
      BY <1>1, <1>8, <1>13, MaxDepthAssumption
    <2>5. QED
      BY <2>2, <2>3, <2>4
  <1>14. QED
    BY <1>12, <1>13

(* A handler that only adds a name. *)
LEMMA AddsKeep ==
    ASSUME NEW s, NEW t, Follows(s, t), NEW S,
           \A k \in NamedKeys : s.dirs[k] # NoNode => t.dirs[k] = s.dirs[k]
    PROVE  Kept(s, S) \subseteq Kept(t, S)
  <1>1. SUFFICES ASSUME NEW e \in Entries, Fits(s, e) PROVE Fits(t, e)
    BY DEF Kept
  <1>2. s \in FsStates /\ e.path \in Paths /\ R(s, e.path) # NoNode
    BY <1>1, NoNodeAssumption DEF Follows, Well, Entries, Fits
  <1>3. QED
    BY <1>1, <1>2, WayIsTaken, KeptEntry

(* A handler that takes the name at the end of p, where there is nothing     *)
(* below: then p itself is all that is to be invalidated.                    *)
LEMMA DropKeeps ==
    ASSUME NEW s, NEW t, Follows(s, t), NEW S, NEW p \in Leaves,
           \A x \in Names : ~Taken(s, R(s, p), x),
           \A k \in NamedKeys : k # <<R(s, Parent(p)), Leaf(p)>> => t.dirs[k] = s.dirs[k]
    PROVE  Others(Kept(s, S), p) \subseteq Kept(t, S)
  <1>1. SUFFICES ASSUME NEW e \in Entries, Fits(s, e), e.path # p PROVE Fits(t, e)
    BY DEF Kept, Others
  <1>2. s \in FsStates /\ Well(s) /\ e.path \in Paths /\ R(s, e.path) # NoNode
    BY <1>1, NoNodeAssumption DEF Follows, Well, Entries, Fits
  <1>3. ASSUME NEW i \in 1..Len(e.path)
        PROVE  LET k == <<R(s, Cache!Prefix(e.path, i - 1)), e.path[i]>> IN
               k \in NamedKeys /\ k # <<R(s, Parent(p)), Leaf(p)>>
    <2>1. ~Passes(s, e.path, i, p)
      BY <1>1, <1>2, OnTheWay
    <2>2. QED
      BY <1>2, <2>1, WayIsTaken DEF Passes
  <1>4. QED
    BY <1>1, <1>3, KeptEntry

(* rename: the old path, and the new one when a node is replaced there, are  *)
(* invalidated.  What was below the old path of a directory may be stale.    *)
LEMMA MoveKeeps ==
    ASSUME NEW s, NEW t, Follows(s, t), NEW S, NEW p \in Leaves, NEW p2 \in Leaves, NEW M,
           R(s, p) \in Ids /\ s.kind[R(s, p)] = "dir" /\ Len(p) < MaxDepth => p \in M,
           LET k == <<R(s, Parent(p2)), Leaf(p2)>> IN
              s.dirs[k] # NoNode => \A x \in Names : ~Taken(s, R(s, p2), x),
           \A k \in NamedKeys \ {<<R(s, Parent(p)), Leaf(p)>>, <<R(s, Parent(p2)), Leaf(p2)>>} :
               t.dirs[k] = s.dirs[k]
    PROVE  /\ s.dirs[<<R(s, Parent(p2)), Leaf(p2)>>] = NoNode =>
                 Others(Kept(s, S), p) \subseteq Kept(t, S \cup M)
           /\ Others(Others(Kept(s, S), p2), p) \subseteq Kept(t, S \cup M)
  <1> DEFINE k2 == <<R(s, Parent(p2)), Leaf(p2)>>
  <1>1. SUFFICES ASSUME NEW e \in Entries, Fits(s, e), e.path # p,
                        s.dirs[k2] = NoNode \/ e.path # p2
                 PROVE  Fits(t, e) \/ Below(M, e.path)
    <2>1. \A e \in Entries : Below(S, e.path) \/ Below(M, e.path) => Below(S \cup M, e.path)
      BY DEF Below
    <2>2. QED
      BY <2>1 DEF Kept, Others
  <1>2. SUFFICES ASSUME ~Below(M, e.path) PROVE Fits(t, e)
    OBVIOUS
  <1>3. s \in FsStates /\ Well(s) /\ e.path \in Paths /\ R(s, e.path) # NoNode
    BY <1>1, NoNodeAssumption DEF Follows, Well, Entries, Fits
  <1>4. ASSUME NEW i \in 1..Len(e.path)
        PROVE  LET k == <<R(s, Cache!Prefix(e.path, i - 1)), e.path[i]>> IN
               k \in NamedKeys /\ k # <<R(s, Parent(p)), Leaf(p)>> /\ k # k2
    <2> DEFINE k == <<R(s, Cache!Prefix(e.path, i - 1)), e.path[i]>>
    <2>1. k \in NamedKeys /\ s.dirs[k] # NoNode
      BY <1>3, WayIsTaken
    <2>2. ~Passes(s, e.path, i, p)
      BY <1>1, <1>2, <1>3, OnTheWay DEF Below
    <2>3. ASSUME k = k2 PROVE FALSE
      <3>1. Passes(s, e.path, i, p2)
        BY <2>3 DEF Passes
      <3>2. s.dirs[k2] # NoNode /\ e.path # p2
        BY <1>1, <2>1, <2>3
      <3>3. QED
        BY <1>3, <3>1, <3>2, OnTheWay
    <2>4. QED
      BY <2>1, <2>2, <2>3 DEF Passes
  <1>5. QED
    BY <1>1, <1>4, KeptEntry

(* The root's entry always stays: it has no name. *)
LEMMA RootKeeps ==
    ASSUME NEW s, NEW t, Well(s), Well(t), NEW S, S \subseteq Paths,
           t.search[Root] = s.search[Root]
    PROVE  Kept(s, S) \subseteq Kept(t, {<<>>})
  <1>1. SUFFICES ASSUME NEW e \in Entries, e.path = <<>> <=> e.node = Root,
                        Fits(s, e) \/ Below(S, e.path)
                 PROVE  Fits(t, e) \/ Below({<<>>}, e.path)
    BY DEF Kept
  <1>2. e.path \in Paths
    BY DEF Entries
  <1>3. CASE e.path # <<>>
    BY <1>2, <1>3, RootAbove
  <1>4. CASE e.path = <<>>
    <2>1. Fits(s, e)
      BY <1>1, <1>2, <1>4, RootAbove
    <2>2. R(t, <<>>) = Root
      BY ResolveRoot DEF R, Well
    <2>3. QED
      BY <1>1, <1>4, <2>1, <2>2 DEF Fits
  <1>5. QED
    BY <1>3, <1>4
-----------------------------------------------------------------------------
(* The handlers. *)

(* A cache of which every entry says what it may now. *)
Sound(c) == c \in Caches(Kept(FsState, suspect))

LEMMA AskIs ==
    ASSUME PInv, NEW c, Sound(c), NEW u, NEW p \in Paths
    PROVE  LET r == Cache!GetNode(c, FsState, u, p) IN
           /\ Sound(r.cache) /\ r.node \in Ids \cup {NoNode}
           /\ r.node = Root => p = <<>>
  <1> DEFINE K == Kept(FsState, suspect)
             r == Cache!GetNode(c, FsState, u, p)
  <1>1. K \subseteq Entries /\ Grows(K, FsState, p) /\ FsState \in FsStates /\ c \in Caches(K)
    BY KeptGrows DEF PInv, Well, Sound
  <1>2. \A e \in K : e.path = <<>> <=> e.node = Root
    BY DEF Kept
  <1> HIDE DEF K
  <1>3. /\ r.cache \in Caches(K) /\ r.node \in Ids \cup {NoNode}
        /\ r.node # NoNode => \E e \in K : e.path = p /\ e.node = r.node
    <2> DEFINE s == FsState
    <2>1. s \in FsStates /\ Grows(K, s, p)
      BY <1>1
    <2> HIDE DEF s
    <2>2. LET q == Cache!GetNode(c, s, u, p) IN
          /\ q.cache \in Caches(K) /\ q.node \in Ids \cup {NoNode}
          /\ q.node # NoNode =>
                \E e \in K : e.path = p /\ e.node = q.node /\ Passed(K, u, p, Len(p))
      BY <1>1, <2>1, GetNodeIs
    <2>3. QED
      BY <2>2 DEF s
  <1> HIDE DEF r
  <1>4. r.node = Root => p = <<>>
    BY <1>2, <1>3, KeyFacts, NoNodeAssumption
  <1>5. QED
    BY <1>3, <1>4 DEF Sound, K, r

(* What the states before and after a handler have in common. *)
LEMMA StepFollows ==
    ASSUME PInv, Good(Db'), KeepSearch,
           \A x \in Ids : kind[x] # "free" => kind'[x] \in {kind[x], "free"}
    PROVE  Follows(FsState, FsState') /\ Well(FsState') /\ search'[Root] = search[Root]
  <1>1. /\ FsState = [kind |-> kind, dirs |-> directories, search |-> search]
        /\ FsState' = [kind |-> Db'.kind, dirs |-> Db'.dirs, search |-> search']
        /\ Db'.kind = kind' /\ Db'.dirs = directories'
    BY DEF FsState, Db
  <1>2. Well(FsState) /\ search \in [Ids -> BOOLEAN]
    BY <1>1 DEF PInv, Well, FsStates
  <1>3. /\ search' \in [Ids -> BOOLEAN]
        /\ \A x \in Ids : kind'[x] # "dir" => search'[x]
        /\ \A x \in Ids : kind[x] = "dir" /\ kind'[x] = "dir" => search'[x] = search[x]
    BY <1>2 DEF KeepSearch
  <1>4. Well(FsState')
    BY <1>1, <1>3, GoodIsWell
  <1>5. Follows(FsState, FsState')
    BY <1>1, <1>2, <1>3, <1>4 DEF Follows
  <1>6. kind[Root] = "dir" /\ kind'[Root] = "dir" /\ Root \in Ids
    BY <1>1, <1>2, <1>4, KeyFacts DEF Well, Rooted
  <1>7. QED
    BY <1>3, <1>4, <1>5, <1>6

LEMMA Settled ==
    ASSUME PInv, Good(Db'), Well(FsState'), NEW K, cache' \in Caches(K),
           K \subseteq Kept(FsState', suspect'), suspect' \subseteq Paths
    PROVE  PInv'
  <1>1. cache' \in Caches(Kept(FsState', suspect'))
    BY Larger
  <1>2. QED
    BY <1>1 DEF PInv, IInv

(* Once a handler acted through a stale path, all but the root is suspect. *)
LEMMA AllSuspect ==
    ASSUME PInv, Good(Db'), Well(FsState'), search'[Root] = search[Root],
           Sound(cache'), suspect' = {<<>>}
    PROVE  PInv'
  <1>1. Well(FsState) /\ Well(FsState') /\ suspect \subseteq Paths
        /\ FsState'.search[Root] = FsState.search[Root]
    BY DEF PInv, FsState
  <1>2. Kept(FsState, suspect) \subseteq Kept(FsState', suspect')
    BY <1>1, RootKeeps
  <1>3. suspect' \subseteq Paths
    BY RootPath
  <1>4. QED
    BY <1>2, <1>3, Settled DEF Sound

(* An erased entry is no loss. *)
LEMMA SoundWithout ==
    ASSUME NEW c, Sound(c), NEW p
    PROVE  Sound(Cache!DelEntry(c, p))
  <1>1. Others(Kept(FsState, suspect), p) \subseteq Kept(FsState, suspect)
    BY DEF Others
  <1>2. QED
    BY <1>1, DelEntryIs, Larger DEF Sound

(* mknod, mkdir and link, or nothing but a lookup. *)
LEMMA AddsPath ==
    ASSUME PInv, Good(Db'), KeepSearch, Sound(cache'), suspect' \in {suspect, {<<>>}},
           \A x \in Ids : kind[x] # "free" => kind'[x] \in {kind[x], "free"},
           \A k \in NamedKeys : directories[k] # NoNode => directories'[k] = directories[k]
    PROVE  PInv'
  <1>1. Follows(FsState, FsState') /\ Well(FsState') /\ search'[Root] = search[Root]
    BY StepFollows
  <1>2. CASE suspect' = {<<>>}
    BY <1>1, <1>2, AllSuspect
  <1>3. CASE suspect' = suspect
    <2>1. \A k \in NamedKeys : FsState.dirs[k] # NoNode => FsState'.dirs[k] = FsState.dirs[k]
      BY DEF FsState
    <2>2. Kept(FsState, suspect) \subseteq Kept(FsState', suspect')
      BY <1>1, <1>3, <2>1, AddsKeep
    <2>3. QED
      BY <1>1, <1>3, <2>2, Settled DEF Sound, PInv
  <1>4. QED
    BY <1>2, <1>3

LEMMA SuspectsIs ==
    ASSUME PInv, NEW used, NEW M, M \subseteq Paths
    PROVE  /\ Suspects(used, M) \subseteq Paths
           /\ Suspects(used, {}) \in {suspect, {<<>>}}
           /\ \/ Suspects(used, M) = {<<>>}
              \/ /\ \A r \in used : R(FsState, r[1]) = r[2]
                 /\ Suspects(used, M) = suspect \cup {p \in M : Len(p) < MaxDepth}
  BY RootPath DEF PInv, Suspects, R

(* What a handler that makes a name does when the name is free, or nothing. *)
LEMMA CreatesPath ==
    ASSUME PInv, NEW p \in Leaves, NEW u, NEW d \in Ids, NEW id \in Ids, NEW k,
           LET r == ParentOf(cache, u, p) IN
              /\ d = r.node /\ cache' = r.cache
              /\ suspect' = Suspects({<<Parent(p), r.node>>}, {}),
           Db' = Db \/ Creates(Db, Db', d, Leaf(p), id, k), KeepSearch
    PROVE  PInv'
  <1>1. Sound(cache') /\ suspect' \in {suspect, {<<>>}}
    BY ParentIs, AskIs, SuspectsIs DEF ParentOf, PInv, Sound
  <1>2. Good(Db) /\ Db = [kind |-> kind, nlink |-> nlink, dirs |-> directories]
        /\ Db' = [kind |-> kind', nlink |-> nlink', dirs |-> directories']
    BY DEF PInv, IInv, Db
  <1>3. /\ Good(Db')
        /\ \A x \in Ids : kind[x] # "free" => kind'[x] = kind[x]
        /\ \A j \in NamedKeys : directories[j] # NoNode => directories'[j] = directories[j]
    <2>1. CASE Db' = Db
      BY <1>2, <2>1
    <2>2. CASE Creates(Db, Db', d, Leaf(p), id, k)
      BY <1>2, <2>2 DEF Creates, Taken
    <2>3. QED
      BY <2>1, <2>2
  <1>4. QED
    BY <1>1, <1>3, AddsPath
(* unlink and rmdir. *)
LEMMA DropsPath ==
    ASSUME PInv, NEW p \in Leaves, NEW u, NEW d \in Ids,
           LET r == ParentOf(cache, u, p) IN
              /\ d = r.node /\ cache' = Cache!DelEntry(r.cache, p)
              /\ suspect' = Suspects({<<Parent(p), r.node>>}, {}),
           Drops(Db, Db', d, Leaf(p)), KeepSearch
    PROVE  PInv'
  <1> DEFINE c == ParentOf(cache, u, p).cache
             L == Others(Kept(FsState, suspect), p)
  <1>1. Sound(c) /\ suspect' = Suspects({<<Parent(p), d>>}, {}) /\ cache' = Cache!DelEntry(c, p)
    BY ParentIs, AskIs DEF ParentOf, PInv, Sound
  <1> HIDE DEF c
  <1>2. /\ Good(Db') /\ Db.kind = kind /\ Db'.kind = kind'
        /\ Db.dirs = directories /\ Db'.dirs = directories'
        /\ FsState.kind = kind /\ FsState.dirs = directories /\ FsState'.dirs = directories'
    BY DEF Drops, Db, FsState
  <1>3. \A x \in Ids : kind'[x] \in {kind[x], "free"}
    BY <1>2 DEF Drops
  <1>4. Follows(FsState, FsState') /\ Well(FsState') /\ search'[Root] = search[Root]
    BY <1>2, <1>3, StepFollows
  <1>5. Sound(cache')
    BY <1>1, SoundWithout
  <1>6. CASE suspect' = {<<>>}
    BY <1>2, <1>4, <1>5, <1>6, AllSuspect
  <1>7. CASE suspect' # {<<>>}
    <2>1. R(FsState, Parent(p)) = d /\ suspect' = suspect
      BY <1>1, <1>7, SuspectsIs
    <2>2. kind[d] = "dir" /\ FsState \in FsStates
      BY <1>2, <1>4 DEF Drops, Follows, Well
    <2>3. R(FsState, p) = directories[<<d, Leaf(p)>>]
      BY <1>2, <2>1, <2>2, LeafStep, ParentIs DEF Cache!GetChild, FsStates
    <2>4. \A x \in Names : ~Taken(FsState, R(FsState, p), x)
      BY <1>2, <2>3 DEF Drops, Taken
    <2>5. \A k \in NamedKeys : k # <<R(FsState, Parent(p)), Leaf(p)>> => FsState'.dirs[k] = FsState.dirs[k]
      BY <1>2, <2>1 DEF Drops
    <2>6. L \subseteq Kept(FsState', suspect')
      BY <1>4, <2>1, <2>4, <2>5, DropKeeps
    <2>7. cache' \in Caches(L)
      BY <1>1, DelEntryIs DEF Sound
    <2>8. QED
      BY <1>2, <1>4, <2>1, <2>6, <2>7, Settled DEF PInv
  <1>8. QED
    BY <1>6, <1>7

(* rename, when the paths lead to different places. *)
LEMMA MovesPath ==
    ASSUME PInv, NEW p1 \in Leaves, NEW p2 \in Leaves, NEW u, RenamePath(u, p1, p2)
    PROVE  PInv'
  <1> DEFINE r1 == ParentOf(cache, u, p1)
             r2 == ParentOf(r1.cache, u, p2)
             d1 == r1.node
             d2 == r2.node
             m1 == Leaf(p1)
             m2 == Leaf(p2)
             c == r2.cache
             K == Kept(FsState, suspect)
             M == IF kind[directories[<<d1, m1>>]] = "dir" THEN {p1} ELSE {}
  <1>1. Sound(r1.cache)
    BY ParentIs, AskIs DEF ParentOf, PInv, Sound
  <1>2. Sound(c)
    BY <1>1, ParentIs, AskIs DEF ParentOf
  <1>3. /\ Rename(d1, m1, d2, m2) /\ KeepSearch
        /\ cache' = Cache!DelEntry(IF directories[<<d2, m2>>] = NoNode THEN c
                                   ELSE Cache!DelEntry(c, p2), p1)
        /\ suspect' = Suspects({<<Parent(p1), d1>>, <<Parent(p2), d2>>}, M)
    BY DEF RenamePath
  <1> HIDE DEF r1, r2, d1, d2, c, M
  <1>4. d1 \in Ids /\ d2 \in Ids /\ m1 \in Names /\ m2 \in Names
    BY <1>3, ParentIs DEF Rename, IsDir
  <1>5. MayMove(Db, d1, m1, d2, m2) /\ Moves(Db, Db', d1, m1, d2, m2)
    BY <1>3, <1>4, RenameEffect DEF PInv
  <1>6. /\ Good(Db') /\ Db.kind = kind /\ Db'.kind = kind'
        /\ Db.dirs = directories /\ Db'.dirs = directories'
        /\ FsState.kind = kind /\ FsState.dirs = directories /\ FsState'.dirs = directories'
    BY <1>5 DEF Moves, Db, FsState
  <1>7. \A x \in Ids : kind'[x] \in {kind[x], "free"}
    BY <1>5, <1>6 DEF Moves
  <1>8. Follows(FsState, FsState') /\ Well(FsState') /\ search'[Root] = search[Root]
    BY <1>3, <1>6, <1>7, StepFollows
  <1>9. Sound(Cache!DelEntry(c, p2))
    BY <1>2, SoundWithout
  <1>10. Sound(cache')
    BY <1>2, <1>3, <1>9, SoundWithout
  <1>11. CASE suspect' = {<<>>}
    BY <1>6, <1>8, <1>10, <1>11, AllSuspect
  <1>12. CASE suspect' # {<<>>}
    <2> DEFINE N == {q \in M : Len(q) < MaxDepth}
    <2>1. M \subseteq Paths
      BY DEF M, Leaves
    <2>2. /\ R(FsState, Parent(p1)) = d1 /\ R(FsState, Parent(p2)) = d2
          /\ suspect' = suspect \cup N
      BY <1>3, <1>12, <2>1, SuspectsIs
    <2>3. kind[d1] = "dir" /\ kind[d2] = "dir" /\ FsState \in FsStates
      BY <1>3, <1>8 DEF Rename, IsDir, Follows, Well
    <2>4. /\ R(FsState, p1) = directories[<<d1, m1>>]
          /\ R(FsState, p2) = directories[<<d2, m2>>]
      BY <1>4, <1>6, <2>2, <2>3, LeafStep DEF Cache!GetChild, FsStates
    <2>5. kind[R(FsState, p1)] = "dir" /\ Len(p1) < MaxDepth => p1 \in N
      BY <2>4 DEF M
    <2>6. directories[<<d2, m2>>] # NoNode => \A x \in Names : ~Taken(FsState, R(FsState, p2), x)
      BY <1>5, <1>6, <2>4 DEF MayMove, Taken
    <2>7. \A k \in NamedKeys \ {<<d1, m1>>, <<d2, m2>>} : directories'[k] = directories[k]
      BY <1>5, <1>6 DEF Moves
    <2> HIDE DEF N, m1, m2
    <2>8. /\ directories[<<d2, m2>>] = NoNode => Others(K, p1) \subseteq Kept(FsState', suspect \cup N)
          /\ Others(Others(K, p2), p1) \subseteq Kept(FsState', suspect \cup N)
      <3> DEFINE s == FsState
                 t == FsState'
      <3>1. Follows(s, t)
        BY <1>8
      <3>2. R(s, p1) \in Ids /\ s.kind[R(s, p1)] = "dir" /\ Len(p1) < MaxDepth => p1 \in N
        BY <1>6, <2>5
      <3>3. LET k == <<R(s, Parent(p2)), Leaf(p2)>> IN
               s.dirs[k] # NoNode => \A x \in Names : ~Taken(s, R(s, p2), x)
        BY <1>6, <2>2, <2>6 DEF m2
      <3>4. \A k \in NamedKeys \ {<<R(s, Parent(p1)), Leaf(p1)>>, <<R(s, Parent(p2)), Leaf(p2)>>} :
               t.dirs[k] = s.dirs[k]
        BY <1>6, <2>2, <2>7 DEF m1, m2
      <3> HIDE DEF s, t
      <3>5. /\ s.dirs[<<R(s, Parent(p2)), Leaf(p2)>>] = NoNode =>
                  Others(Kept(s, suspect), p1) \subseteq Kept(t, suspect \cup N)
            /\ Others(Others(Kept(s, suspect), p2), p1) \subseteq Kept(t, suspect \cup N)
        BY <3>1, <3>2, <3>3, <3>4, MoveKeeps
      <3>6. QED
        BY <1>6, <2>2, <3>5 DEF s, t, m2
    <2>9. suspect' \subseteq Paths
      BY <2>1, <2>2 DEF PInv, N
    <2>10. c \in Caches(K)
      BY <1>2 DEF Sound
    <2> HIDE DEF K
    <2>11. CASE directories[<<d2, m2>>] = NoNode
      <3>1. cache' \in Caches(Others(K, p1))
        BY <1>3, <2>10, <2>11, DelEntryIs
      <3>2. QED
        BY <1>6, <1>8, <2>2, <2>8, <2>9, <2>11, <3>1, Settled
    <2>12. CASE directories[<<d2, m2>>] # NoNode
      <3>1. Cache!DelEntry(c, p2) \in Caches(Others(K, p2))
        BY <2>10, DelEntryIs
      <3>2. cache' \in Caches(Others(Others(K, p2), p1))
        BY <1>3, <2>12, <3>1, DelEntryIs
      <3>3. QED
        BY <1>6, <1>8, <2>2, <2>8, <2>9, <3>2, Settled
    <2>13. QED
      BY <2>11, <2>12
  <1>13. QED
    BY <1>11, <1>12
(* chmod and chown: the search bit of a directory is in the entry of the one *)
(* path that leads to it.                                                    *)
LEMMA PermPath ==
    ASSUME PInv, NEW p \in Paths, NEW u, SetPerm(u, p)
    PROVE  PInv'
  <1> DEFINE r == Cache!GetNode(cache, FsState, u, p)
             n == r.node
             K == Kept(FsState, suspect)
  <1>1. Sound(r.cache) /\ n \in Ids /\ (n = Root => p = <<>>)
    BY AskIs DEF SetPerm, PInv, Sound
  <1>2. /\ search' = IF kind[n] = "dir" THEN [search EXCEPT ![n] = ~@] ELSE search
        /\ cache' = Cache!DelEntry(r.cache, p)
        /\ suspect' = Suspects({<<p, n>>}, {})
        /\ kind' = kind /\ directories' = directories /\ Db' = Db
    BY DEF SetPerm, vars, Db
  <1> HIDE DEF r, n
  <1>3. /\ FsState = [kind |-> kind, dirs |-> directories, search |-> search]
        /\ FsState' = [kind |-> Db.kind, dirs |-> Db.dirs, search |-> search']
        /\ Db.kind = kind /\ Db.dirs = directories
    BY <1>2 DEF FsState, Db
  <1>4. Well(FsState) /\ Good(Db) /\ search \in [Ids -> BOOLEAN] /\ suspect \subseteq Paths
    BY <1>3 DEF PInv, IInv, Well, FsStates
  <1>5. search' \in [Ids -> BOOLEAN] /\ \A x \in Ids : kind[x] # "dir" => search'[x]
    BY <1>1, <1>2, <1>3, <1>4 DEF Well
  <1>6. Well(FsState')
    BY <1>3, <1>4, <1>5, GoodIsWell
  <1>7. Sound(cache')
    BY <1>1, <1>2, SoundWithout
  <1>8. CASE R(FsState, p) # n
    <2>1. suspect' = {<<>>}
      BY <1>2, <1>8 DEF Suspects, R
    <2>2. n # Root
      BY <1>1, <1>4, <1>8, ResolveRoot DEF R, Well
    <2>3. search'[Root] = search[Root]
      BY <1>2, <1>4, <2>2, KeyFacts
    <2>4. QED
      BY <1>2, <1>4, <1>6, <1>7, <2>1, <2>3, AllSuspect
  <1>9. CASE R(FsState, p) = n
    <2>1. suspect' = suspect
      BY <1>2, <1>9 DEF Suspects, R
    <2>2. Others(K, p) \subseteq Kept(FsState', suspect)
      <3>1. SUFFICES ASSUME NEW e \in Entries, Fits(FsState, e), e.path # p PROVE Fits(FsState', e)
        BY DEF Kept, Others
      <3>2. e.path \in Paths /\ e.node \in Ids /\ R(FsState, e.path) = e.node /\ e.node # NoNode
            /\ e.search = FsState.search[e.node]
        BY <3>1, NoNodeAssumption DEF Entries, Fits
      <3> DEFINE s == FsState
                 t == FsState'
      <3>3. /\ s \in FsStates /\ Live(s) /\ Rooted(s) /\ OneName(s) /\ t \in FsStates /\ Live(t)
            /\ t.kind = s.kind /\ t.dirs = s.dirs /\ s.kind = kind
            /\ R(s, e.path) = e.node /\ R(s, p) = n
            /\ s.search = search /\ t.search = search'
        BY <1>3, <1>4, <1>6, <1>9, <3>2 DEF Well
      <3> HIDE DEF s, t
      <3>4. R(t, e.path) = e.node
        BY <3>2, <3>3, KeptPath
      <3>5. ~(e.node = n /\ kind[n] = "dir")
        BY <3>1, <3>2, <3>3, OnePath
      <3>6. search'[e.node] = search[e.node]
        BY <1>1, <1>2, <1>4, <3>2, <3>5
      <3>7. QED
        BY <1>3, <3>2, <3>3, <3>4, <3>6 DEF Fits, t
    <2>3. cache' \in Caches(Others(K, p))
      BY <1>1, <1>2, DelEntryIs DEF Sound
    <2> HIDE DEF K
    <2>4. QED
      BY <1>2, <1>4, <1>6, <2>1, <2>2, <2>3, Settled
  <1>10. QED
    BY <1>8, <1>9

(* rename, when a stale path leads to the one place: as unlink or rmdir. *)
LEMMA SamePlace ==
    ASSUME PInv, NEW p1 \in Leaves, NEW p2 \in Leaves, NEW u, RenameSamePlace(u, p1, p2)
    PROVE  PInv'
  <1> DEFINE r1 == ParentOf(cache, u, p1)
             r2 == ParentOf(r1.cache, u, p2)
             d == r1.node
             m == Leaf(p1)
             n == directories[<<d, m>>]
             c == Cache!DelEntry(r2.cache, p2)
  <1>1. Sound(r1.cache)
    BY ParentIs, AskIs DEF ParentOf, PInv, Sound
  <1>2. Sound(r2.cache)
    BY <1>1, ParentIs, AskIs DEF ParentOf
  <1>3. Sound(c) /\ Sound(Cache!DelEntry(c, p1))
    BY <1>2, SoundWithout
  <1>4. /\ IsDir(d) /\ Taken(Db, d, m)
        /\ kind[n] = "dir" => Cardinality(Children(Db, n)) <= 2
        /\ Commit(DelChild(IF kind[n] = "dir" THEN DelDots(Db, n) ELSE Db, d, m))
        /\ cache' = IF kind'[n] = "free" THEN c ELSE Cache!DelEntry(c, p1)
        /\ suspect' = {<<>>}
        /\ KeepSearch
    BY DEF RenameSamePlace
  <1> HIDE DEF c
  <1>5. Sound(cache')
    BY <1>3, <1>4
  <1> HIDE DEF r1, r2, d
  <1>6. d \in Ids /\ m \in Names
    BY <1>4, ParentIs DEF IsDir
  <1>7. Drops(Db, Db', d, m)
    <2>1. CASE kind[n] = "dir"
      BY <1>4, <1>6, <2>1, RmdirEffect DEF PInv
    <2>2. CASE kind[n] # "dir"
      BY <1>4, <1>6, <2>2, UnlinkEffect DEF PInv
    <2>3. QED
      BY <2>1, <2>2
  <1>8. Good(Db') /\ \A x \in Ids : kind'[x] \in {kind[x], "free"}
    BY <1>7 DEF Drops, Db
  <1>9. QED
    BY <1>4, <1>5, <1>8, StepFollows, AllSuspect

(* Every step of the program. *)
LEMMA PathNextKeeps ==
    ASSUME PInv, [PathNext]_pathVars
    PROVE  PInv'
  <1>1. CASE UNCHANGED pathVars
    BY <1>1 DEF pathVars, PInv, IInv, Db, FsState
  <1>2. ASSUME NEW u, NEW p \in Paths, Stat(u, p)
        PROVE  PInv'
    <2>1. Sound(cache')
      BY <1>2, AskIs DEF Stat, PInv, Sound
    <2>2. kind' = kind /\ directories' = directories /\ Db' = Db /\ search' = search
          /\ suspect' = suspect /\ FsState' = FsState
      BY <1>2 DEF Stat, vars, Db, FsState
    <2>3. QED
      BY <2>1, <2>2 DEF PInv, IInv, Sound
  <1>3. ASSUME NEW u, NEW p \in Leaves, MknodPath(u, p) PROVE PInv'
    <2> DEFINE d == ParentOf(cache, u, p).node
    <2>1. PICK id \in Ids : Mknod(d, Leaf(p), id)
      BY <1>3 DEF MknodPath
    <2>2. d \in Ids /\ Leaf(p) \in Names
      BY <2>1, ParentIs DEF Mknod, IsDir
    <2>3. Db' = Db \/ Creates(Db, Db', d, Leaf(p), id, "reg")
      BY <2>1, <2>2, MakeEffect DEF Mknod, PInv
    <2>4. QED
      BY <1>3, <2>2, <2>3, CreatesPath DEF MknodPath
  <1>4. ASSUME NEW u, NEW p \in Leaves, MkdirPath(u, p) PROVE PInv'
    <2> DEFINE d == ParentOf(cache, u, p).node
    <2>1. PICK id \in Ids : Mkdir(d, Leaf(p), id)
      BY <1>4 DEF MkdirPath
    <2>2. d \in Ids /\ Leaf(p) \in Names
      BY <2>1, ParentIs DEF Mkdir, IsDir
    <2>3. Db' = Db \/ Creates(Db, Db', d, Leaf(p), id, "dir")
      BY <2>1, <2>2, MkdirEffect DEF PInv
    <2>4. QED
      BY <1>4, <2>2, <2>3, CreatesPath DEF MkdirPath
  <1>5. ASSUME NEW u, NEW p \in Leaves, UnlinkPath(u, p) PROVE PInv'
    <2> DEFINE d == ParentOf(cache, u, p).node
    <2>1. d \in Ids /\ Leaf(p) \in Names /\ Unlink(d, Leaf(p))
      BY <1>5, ParentIs DEF UnlinkPath, Unlink, IsDir
    <2>2. Drops(Db, Db', d, Leaf(p))
      BY <2>1, UnlinkEffect DEF Unlink, PInv
    <2>3. QED
      BY <1>5, <2>1, <2>2, DropsPath DEF UnlinkPath
  <1>6. ASSUME NEW u, NEW p \in Leaves, RmdirPath(u, p) PROVE PInv'
    <2> DEFINE d == ParentOf(cache, u, p).node
    <2>1. d \in Ids /\ Leaf(p) \in Names /\ Rmdir(d, Leaf(p))
      BY <1>6, ParentIs DEF RmdirPath, Rmdir, IsDir
    <2>2. Drops(Db, Db', d, Leaf(p))
      BY <2>1, RmdirEffect DEF Rmdir, PInv
    <2>3. QED
      BY <1>6, <2>1, <2>2, DropsPath DEF RmdirPath
  <1>7. ASSUME NEW u, NEW p1 \in Leaves, NEW p2 \in Leaves, LinkPath(u, p1, p2) PROVE PInv'
    <2> DEFINE r == ParentOf(cache, u, p2)
               q == Cache!GetNode(r.cache, FsState, u, p1)
    <2>1. Sound(r.cache)
      BY ParentIs, AskIs DEF ParentOf, PInv, Sound
    <2>2. p1 \in Paths /\ Leaf(p2) \in Names
      BY ParentIs
    <2>3. Sound(q.cache) /\ q.node \in Ids \cup {NoNode}
      BY <2>1, <2>2, AskIs
    <2>4. /\ q.node # NoNode /\ VfsAllowsLink(q.node) /\ Link(q.node, r.node, Leaf(p2))
          /\ cache' = q.cache /\ KeepSearch
          /\ suspect' = Suspects({<<p1, q.node>>, <<Parent(p2), r.node>>}, {})
      BY <1>7 DEF LinkPath
    <2> HIDE DEF r, q
    <2>5. r.node \in Ids /\ q.node \in Ids
      BY <2>3, <2>4 DEF Link, IsDir
    <2>6. Db' = Db \/ Links(Db, Db', r.node, Leaf(p2), q.node)
      BY <2>2, <2>4, <2>5, LinkEffect DEF PInv
    <2>7. Good(Db) /\ Db = [kind |-> kind, nlink |-> nlink, dirs |-> directories]
          /\ Db' = [kind |-> kind', nlink |-> nlink', dirs |-> directories']
      BY DEF PInv, IInv, Db
    <2>8. /\ Good(Db') /\ kind' = kind
          /\ \A j \in NamedKeys : directories[j] # NoNode => directories'[j] = directories[j]
      <3>1. CASE Db' = Db
        BY <2>7, <3>1
      <3>2. CASE Links(Db, Db', r.node, Leaf(p2), q.node)
        BY <2>7, <3>2 DEF Links, Taken
      <3>3. QED
        BY <2>6, <3>1, <3>2
    <2>9. suspect' \in {suspect, {<<>>}}
      BY <2>4, SuspectsIs
    <2>10. QED
      BY <2>3, <2>4, <2>8, <2>9, AddsPath
  <1>8. ASSUME NEW u, Moving(u) PROVE PInv'
    BY <1>8, MovesPath, SamePlace DEF Moving
  <1>9. ASSUME NEW u, NEW p \in Paths, SetPerm(u, p) \/ Setxattr(u, p) PROVE PInv'
    BY <1>9, PermPath DEF Setxattr
  <1>10. QED
    BY <1>1, <1>2, <1>3, <1>4, <1>5, <1>6, <1>7, <1>8, <1>9 DEF PathNext

LEMMA PathInitIs == PathInit => PInv
  <1> SUFFICES ASSUME PathInit PROVE PInv
    OBVIOUS
  <1>1. IInv
    BY InitIsTree DEF PathInit
  <1>2. FsState = [kind |-> Db.kind, dirs |-> Db.dirs, search |-> search]
    BY DEF FsState, Db
  <1>3. Well(FsState)
    BY <1>1, <1>2, GoodIsWell DEF PathInit, IInv
  <1>4. QED
    BY <1>1, <1>3, EmptyCache DEF PathInit, PInv
-----------------------------------------------------------------------------
(* What getnode() answers. *)

(* A caller finds what root finds, or nothing. *)
LEMMA UserWay ==
    ASSUME NEW s \in FsStates, NEW u, NEW p \in Paths
    PROVE  \A i \in 0..Len(p) :
              Cache!Resolve(s, u, Cache!Prefix(p, i)) \in {NoNode, R(s, Cache!Prefix(p, i))}
  <1> DEFINE n == Len(p)
             U(i) == Cache!Resolve(s, u, Cache!Prefix(p, i))
             A(i) == R(s, Cache!Prefix(p, i))
             T == {i \in 0..n : U(i) \in {NoNode, A(i)}}
  <1>1. n \in Nat /\ Cache!Prefix(p, 0) = <<>>
    BY PathIs, PrefixIs
  <1>2. 0 \in T
    BY <1>1, ResolveRoot DEF R
  <1>3. ASSUME NEW i \in 0..(n - 1), i \in T PROVE i + 1 \in T
    <2>1. i + 1 \in 1..n /\ i + 1 \in 0..n /\ (i + 1) - 1 = i
      BY <1>1
    <2>2. U(i + 1) = IF U(i) # NoNode /\ (u = "root" \/ s.search[U(i)])
                     THEN Cache!GetChild(s, U(i), p[i + 1]) ELSE NoNode
      <3>1. PICK j \in 1..n : j = i + 1 /\ j - 1 = i
        BY <2>1
      <3>2. U(j) = IF U(j - 1) # NoNode /\ (u = "root" \/ s.search[U(j - 1)])
                   THEN Cache!GetChild(s, U(j - 1), p[j]) ELSE NoNode
        BY ResolveNext
      <3> HIDE DEF U
      <3>3. QED
        BY <3>1, <3>2
    <2>3. A(i + 1) = Cache!GetChild(s, A(i), p[i + 1])
      BY <2>1, Step
    <2> HIDE DEF U, A
    <2>4. QED
      BY <1>3, <2>1, <2>2, <2>3
  <1> HIDE DEF T
  <1>4. 0..n \subseteq T
    BY <1>1, <1>2, <1>3, SetInduction
  <1>5. QED
    BY <1>4 DEF T

(* And the same, where it may search every directory on the way. *)
LEMMA OpenWay ==
    ASSUME NEW s \in FsStates, NEW u, NEW p \in Paths,
           \A i \in 0..(Len(p) - 1) : u = "root" \/ s.search[R(s, Cache!Prefix(p, i))]
    PROVE  Cache!Resolve(s, u, p) = R(s, p)
  <1> DEFINE n == Len(p)
             U(i) == Cache!Resolve(s, u, Cache!Prefix(p, i))
             A(i) == R(s, Cache!Prefix(p, i))
             T == {i \in 0..n : U(i) = A(i)}
  <1>1. n \in Nat /\ Cache!Prefix(p, 0) = <<>> /\ Cache!Prefix(p, n) = p
    BY PathIs, PrefixIs
  <1>2. 0 \in T
    BY <1>1, ResolveRoot DEF R
  <1>3. \A m : Cache!GetChild(s, NoNode, m) = NoNode
    BY NoNodeAssumption DEF Cache!GetChild, FsStates
  <1>4. ASSUME NEW i \in 0..(n - 1), i \in T PROVE i + 1 \in T
    <2>1. i + 1 \in 1..n /\ i + 1 \in 0..n /\ (i + 1) - 1 = i
      BY <1>1
    <2>2. U(i + 1) = IF U(i) # NoNode /\ (u = "root" \/ s.search[U(i)])
                     THEN Cache!GetChild(s, U(i), p[i + 1]) ELSE NoNode
      <3>1. PICK j \in 1..n : j = i + 1 /\ j - 1 = i
        BY <2>1
      <3>2. U(j) = IF U(j - 1) # NoNode /\ (u = "root" \/ s.search[U(j - 1)])
                   THEN Cache!GetChild(s, U(j - 1), p[j]) ELSE NoNode
        BY ResolveNext
      <3> HIDE DEF U
      <3>3. QED
        BY <3>1, <3>2
    <2>3. A(i + 1) = Cache!GetChild(s, A(i), p[i + 1])
      BY <2>1, Step
    <2>4. u = "root" \/ s.search[A(i)]
      OBVIOUS
    <2> HIDE DEF U, A
    <2>5. QED
      BY <1>3, <1>4, <2>1, <2>2, <2>3, <2>4
  <1> HIDE DEF T
  <1>5. 0..n \subseteq T
    BY <1>1, <1>2, <1>4, SetInduction
  <1>6. n \in T
    BY <1>1, <1>5
  <1>7. QED
    BY <1>1, <1>6 DEF T

(* Where no directory was moved away above p, the entries of its prefixes    *)
(* say what the databases say.                                               *)
LEMMA TrueOnTheWay ==
    ASSUME NEW s, NEW S, S \subseteq Paths, NEW p \in Paths, ~Below(S, p),
           NEW i \in 0..Len(p), NEW e \in Kept(s, S), e.path = Cache!Prefix(p, i)
    PROVE  R(s, Cache!Prefix(p, i)) = e.node /\ e.search = s.search[e.node] /\ e.node \in Ids
  <1> DEFINE a == Cache!Prefix(p, i)
  <1>1. ASSUME Below(S, a) PROVE FALSE
    <2>1. PICK q \in S : IsBelow(a, q)
      BY <1>1 DEF Below
    <2>2. Len(p) \in Nat /\ Len(q) \in Nat /\ Len(a) = i
      BY PathIs, PrefixIs
    <2>3. Len(q) < i /\ Cache!Prefix(a, Len(q)) = q
      BY <2>1, <2>2 DEF IsBelow, Cache!Prefix
    <2>4. Cache!Prefix(p, Len(q)) = q
      BY <2>2, <2>3, PrefixOfPrefix
    <2>5. IsBelow(p, q)
      BY <2>2, <2>3, <2>4 DEF IsBelow, Cache!Prefix
    <2>6. QED
      BY <2>5 DEF Below
  <1>2. Fits(s, e) /\ e \in Entries
    BY <1>1 DEF Kept
  <1>3. QED
    BY <1>2 DEF Fits, Entries

LEMMA Answers ==
    ASSUME NEW s, Well(s), NEW S, S \subseteq Paths, NEW c \in Caches(Kept(s, S)),
           NEW u, NEW p \in Paths, ~Below(S, p)
    PROVE  Cache!GetNode(c, s, u, p).node = Cache!Resolve(s, u, p)
  <1> DEFINE K == Kept(s, S)
             n == Len(p)
             P(i) == Cache!Prefix(p, i)
             r == Cache!GetNode(c, s, u, p).node
  <1>1. /\ s \in FsStates /\ Live(s) /\ K \subseteq Entries /\ Grows(K, s, p)
        /\ n \in Nat /\ P(n) = p /\ P(0) = <<>>
    BY KeptGrows, PathIs, PrefixIs DEF Well
  <1>2. \A i \in 0..n, e \in K : e.path = P(i) =>
           R(s, P(i)) = e.node /\ e.search = s.search[e.node] /\ e.node \in Ids
    BY TrueOnTheWay
  <1>3. \A i \in 0..n : Cache!Resolve(s, u, P(i)) \in {NoNode, R(s, P(i))}
    BY <1>1, UserWay
  <1>a. s \in FsStates /\ K \subseteq Entries /\ Grows(K, s, p) /\ c \in Caches(K)
    BY <1>1
  <1> HIDE DEF K, r
  <1>4. LET q == Cache!GetNode(c, s, u, p) IN
        /\ q.cache \in Caches(K) /\ q.node \in Ids \cup {NoNode}
        /\ q.node # NoNode =>
              \E e \in K : e.path = p /\ e.node = q.node /\ Passed(K, u, p, Len(p))
        /\ q.node = NoNode =>
              \/ Stops(K, s, p) \/ Refused(K, u, p)
              \/ \E e \in K : e.path = p /\ s.kind[e.node] = "free"
    BY <1>a, GetNodeIs
  <1>5. /\ r # NoNode => (\E e \in K : e.path = p /\ e.node = r) /\ Passed(K, u, p, n)
        /\ r = NoNode => \/ Stops(K, s, p) \/ Refused(K, u, p)
                         \/ \E e \in K : e.path = p /\ s.kind[e.node] = "free"
    BY <1>4 DEF r
  <1>6. CASE r # NoNode
    <2>1. R(s, p) = r
      <3>1. PICK e \in K : e.path = p /\ e.node = r
        BY <1>5, <1>6
      <3>2. n \in 0..n
        BY <1>1
      <3>3. QED
        BY <1>1, <1>2, <3>1, <3>2
    <2>2. ASSUME NEW i \in 0..(n - 1) PROVE u = "root" \/ s.search[R(s, P(i))]
      <3>1. n - i \in 1..n /\ n - (n - i) = i /\ i \in 0..n
        BY <1>1
      <3>2. PICK e \in K : e.path = Cache!Prefix(p, n - (n - i)) /\ Cache!CheckAccess(u, e)
        BY <1>5, <1>6, <3>1 DEF Passed
      <3>3. e.path = P(i)
        BY <3>1, <3>2
      <3>4. QED
        BY <1>2, <3>1, <3>2, <3>3 DEF Cache!CheckAccess
    <2>3. Cache!Resolve(s, u, p) = R(s, p)
      BY <1>1, <2>2, OpenWay
    <2>4. QED
      BY <2>1, <2>3 DEF r
  <1>7. CASE r = NoNode
    <2>1. SUFFICES ASSUME Cache!Resolve(s, u, p) # NoNode PROVE FALSE
      BY <1>7 DEF r
    <2>2. \A i \in 0..n : Cache!Resolve(s, u, P(i)) # NoNode /\ R(s, P(i)) = Cache!Resolve(s, u, P(i))
      BY <1>1, <1>3, <2>1, ResolveWay
    <2>3. CASE Stops(K, s, p)
      <3>1. PICK i \in 1..n, e \in K :
               e.path = P(i - 1) /\ Cache!GetChild(s, e.node, p[i]) = NoNode
        BY <2>3 DEF Stops
      <3>2. i \in 0..n /\ i - 1 \in 0..n
        BY <1>1
      <3>3. R(s, P(i)) = NoNode
        BY <1>1, <1>2, <3>1, <3>2, Step
      <3>4. QED
        BY <2>2, <3>2, <3>3
    <2>4. CASE Refused(K, u, p)
      <3>1. PICK j \in 1..n, e \in K :
               e.path = Cache!Prefix(p, n - j) /\ ~Cache!CheckAccess(u, e)
        BY <2>4 DEF Refused
      <3> DEFINE i == n - j
      <3>2. i \in 0..n /\ i + 1 \in 1..n /\ i + 1 \in 0..n /\ (i + 1) - 1 = i
        BY <1>1
      <3>3. e.path = P(i)
        BY <3>1
      <3>4. u # "root" /\ ~s.search[R(s, P(i))]
        BY <1>2, <3>1, <3>2, <3>3 DEF Cache!CheckAccess
      <3> HIDE DEF i
      <3>5. Cache!Resolve(s, u, P(i + 1)) = NoNode
        <4>1. Cache!Resolve(s, u, P(i + 1)) =
                 IF Cache!Resolve(s, u, P(i)) # NoNode /\ (u = "root" \/ s.search[Cache!Resolve(s, u, P(i))])
                 THEN Cache!GetChild(s, Cache!Resolve(s, u, P(i)), p[i + 1]) ELSE NoNode
          <5>1. PICK k \in 1..n : k = i + 1 /\ k - 1 = i
            BY <3>2
          <5>2. Cache!Resolve(s, u, P(k)) =
                   IF Cache!Resolve(s, u, P(k - 1)) # NoNode
                      /\ (u = "root" \/ s.search[Cache!Resolve(s, u, P(k - 1))])
                   THEN Cache!GetChild(s, Cache!Resolve(s, u, P(k - 1)), p[k]) ELSE NoNode
            BY <1>1, ResolveNext
          <5> HIDE DEF P
          <5>3. QED
            BY <5>1, <5>2
        <4>2. R(s, P(i)) = Cache!Resolve(s, u, P(i))
          BY <2>2, <3>2
        <4>3. QED
          BY <3>4, <4>1, <4>2
      <3>6. QED
        BY <2>2, <3>2, <3>5
    <2>5. CASE \E e \in K : e.path = p /\ s.kind[e.node] = "free"
      <3>1. PICK e \in K : e.path = p /\ s.kind[e.node] = "free"
        BY <2>5
      <3>2. n \in 0..n
        BY <1>1
      <3>3. R(s, p) = e.node /\ R(s, p) # NoNode
        BY <1>1, <1>2, <2>2, <3>1, <3>2
      <3>4. QED
        BY <1>1, <3>1, <3>3, ResolvedLive
    <2>6. QED
      BY <1>5, <1>7, <2>3, <2>4, <2>5
  <1>8. QED
    BY <1>6, <1>7

-----------------------------------------------------------------------------
(* The theorems. *)

(* The handlers called with paths keep the databases in agreement and every  *)
(* entry of the cache within what it may say (pathcache.cxx:84-182), for     *)
(* any names, any bound on ids, any size of the cache and any depth.         *)
THEOREM PathInvariance == PathSpec => []PInv
  <1>1. PInv /\ [PathNext]_pathVars => PInv'
    BY PathNextKeeps
  <1>2. QED
    BY <1>1, PathInitIs, PTL DEF PathSpec

(* The queue and the map hold one entry for a path (lookup inserts a path    *)
(* only when it is not there, pathcache.cxx:96-98).                          *)
THEOREM CacheTypes == PathSpec => []CacheTypeOK
  <1>1. PInv => CacheTypeOK
    <2>1. SUFFICES ASSUME PInv PROVE CacheTypeOK
      OBVIOUS
    <2>2. search \in [Ids -> BOOLEAN] /\ suspect \subseteq Paths
      BY <2>1 DEF PInv, Well, FsStates, FsState
    <2>3. /\ DOMAIN cache = 1..Len(cache) /\ \A i \in 1..Len(cache) : cache[i] \in Entries
          /\ \A i, j \in DOMAIN cache : cache[i].path = cache[j].path => i = j
      BY <2>1 DEF PInv, Caches, Kept
    <2>4. QED
      BY <2>2, <2>3 DEF CacheTypeOK, Entries
  <1>2. QED
    BY <1>1, PathInvariance, PTL

(* The paths that the handlers invalidate (fs.cxx:225, 260, 346, 360, 418,   *)
(* 459, 622) are enough for all entries but those below the old path of a    *)
(* directory that was moved.                                                 *)
THEOREM StaleBelowMovedOnly == PathSpec => []StaleOnlyBelowMoved
  <1>1. PInv => StaleOnlyBelowMoved
    <2>1. SUFFICES ASSUME PInv, NEW i \in 1..Len(cache)
                   PROVE  Coherent(cache[i]) \/ BelowSuspect(cache[i].path)
      BY DEF StaleOnlyBelowMoved
    <2>2. cache[i] \in Kept(FsState, suspect)
      BY <2>1 DEF PInv, Caches
    <2>3. FsState.search = search
      BY DEF FsState
    <2>4. QED
      BY <2>2, <2>3 DEF Kept, Fits, Below, R, Coherent, BelowSuspect
  <1>2. QED
    BY <1>1, PathInvariance, PTL

(* PathCache_hash::getnode (pathcache.cxx:184) finds the node, or refuses,   *)
(* as PathCache_null::getnode does on every path above which no directory    *)
(* was moved away, whatever is cached and whatever was evicted.              *)
THEOREM AnswersUncached == PathSpec => []AnswersLikeUncached
  <1>1. PInv => AnswersLikeUncached
    <2>1. SUFFICES ASSUME PInv, NEW u \in Cache!Callers, NEW p \in Paths, ~BelowSuspect(p)
                   PROVE  Cache!GetNode(cache, FsState, u, p).node = Cache!Resolve(FsState, u, p)
      BY DEF AnswersLikeUncached
    <2>2. Well(FsState) /\ suspect \subseteq Paths /\ cache \in Caches(Kept(FsState, suspect))
      BY <2>1 DEF PInv
    <2>3. ~Below(suspect, p)
      BY <2>1 DEF Below, BelowSuspect
    <2>4. QED
      BY <2>2, <2>3, Answers
  <1>2. QED
    BY <1>1, PathInvariance, PTL

(* Even a handler that acts through a stale path leaves the two databases in *)
(* agreement: the nodes it finds exist, and it does to them what it does to  *)
(* the nodes of any path.                                                    *)
THEOREM DatabasesAgree == PathSpec => [](LinkCountExact /\ NodeIffNamed /\ TreeShape)
  <1>1. PInv => LinkCountExact /\ NodeIffNamed /\ TreeShape
    BY GoodCounts, GoodNames, GoodTree DEF PInv
  <1>2. QED
    BY <1>1, PathInvariance, PTL
=============================================================================
