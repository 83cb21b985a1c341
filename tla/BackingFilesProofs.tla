------------------------- MODULE BackingFilesProofs -------------------------
(***************************************************************************)
(* BackingFiles, for any names, depths of paths, ids and either setting of *)
(* the medium: no file is forgotten, and a node is read with the bytes     *)
(* that were written to it and with no others, but for a phid in common.   *)
(*                                                                         *)
(* The invariant of the name space goes along, for what the handlers on    *)
(* names do to the media hangs on how many files one of them removes:      *)
(* one at most (OneFileGoes), even when rename replaces a node.  BytesOK   *)
(* says of every file whose bytes it may hold, MixedOK which nodes can     *)
(* lose theirs, and ObjectOK that a node can be written to without a file  *)
(* only if it is one of those.                                             *)
(***************************************************************************)
EXTENDS BackingFiles, NamespaceProofs

(* Nodes with a phid in common are known as such. *)
MixedOK ==
    /\ mixed \subseteq Ids
    /\ \A n, m \in Ids :
          n # m /\ phid[n] = phid[m] /\ phid[n] # NoPath => n \in mixed /\ m \in mixed

WroteOK == wrote \subseteq Ids /\ \A n \in wrote : Stored(n)

(* An open object is that of a file on the medium; only the removal of a     *)
(* node with the same phid takes the file from under it.                     *)
ObjectOK ==
    \A n \in Ids : /\ object[n] = "open" => phid[n] \in files
                   /\ object[n] = "unlinked" => n \in mixed

(* Bytes are in a file, and if they are not those of a node of that phid,    *)
(* then delfile() has left the file.                                         *)
BytesOK ==
    \A q \in Paths : \A b \in bytes[q] :
        q \in files /\ (q \in left \/ (b \in Ids /\ phid[b] = q))

BInv ==
    /\ IInv
    /\ StorageTypeOK /\ MixedOK /\ WroteOK /\ ObjectOK /\ BytesOK
    /\ WrittenStays /\ NoFileForgotten

-----------------------------------------------------------------------------
(* Names. *)

LEMMA PathIs ==
    ASSUME NEW p \in Paths
    PROVE  /\ Len(p) \in Nat \ {0} /\ DOMAIN p = 1..Len(p)
           /\ \A i \in 1..Len(p) : p[i] \in Names
           /\ p[Len(p)] \in Names
  <1>1. PICK i \in 1..MaxDepth : p \in [1..i -> Names]
    BY DEF Paths
  <1>2. i \in Nat \ {0}
    BY MaxDepthAssumption
  <1>3. p \in Seq(Names) /\ Len(p) = i
    BY <1>1, <1>2
  <1>4. QED
    BY <1>1, <1>2, <1>3

(* What a path leads to is a node, or none. *)
LEMMA NodeAtIs ==
    ASSUME IInv, NEW p \in Paths
    PROVE  NodeAt(p) \in Ids \cup {NoNode}
  <1> DEFINE V == Ids \cup {NoNode}
             step(d, i) == IF IsDir(d) THEN directories[<<d, p[i]>>] ELSE NoNode
             g == [a \in (0..Len(p)) \X V |-> IF a[1] = 0 THEN NoNode ELSE step(a[2], a[1])]
             Is(f) == f = [i \in 0..Len(p) |-> IF i = 0 THEN Root
                                               ELSE LET d == f[i - 1] IN step(d, i)]
  <1>1. /\ Len(p) \in Nat /\ \A i \in 1..Len(p) : p[i] \in Names
        /\ 0..Len(p) = {0} \cup 1..Len(p)
    BY PathIs
  <1>2. \A d \in V, i \in 1..Len(p) : step(d, i) \in V
    <2>1. directories \in [Keys -> V]
      BY DEF IInv, Good, States, Db
    <2>2. QED
      BY <2>1, <1>1, KeyFacts DEF IsDir
  <1> HIDE DEF step
  <1>3. g \in [(0..Len(p)) \X V -> V]
    BY <1>1, <1>2
  <1>4. Root \in V
    BY KeyFacts
  <1>5. \A i \in 1..Len(p), d \in V : g[<<i, d>>] = step(d, i)
    BY <1>1
  <1> HIDE DEF g, V
  <1>6. PICK f : Iterates(f, Len(p), V, Root, g)
    BY <1>1, <1>3, <1>4, Iteration
  <1>7. f \in [0..Len(p) -> V] /\ f[0] = Root /\ \A i \in 1..Len(p) : f[i] = g[<<i, f[i - 1]>>]
    BY <1>6 DEF Iterates
  <1>8. \A i \in 1..Len(p) : f[i] = step(f[i - 1], i)
    <2>1. ASSUME NEW i \in 1..Len(p) PROVE f[i] = step(f[i - 1], i)
      <3>1. i - 1 \in 0..Len(p)
        BY <1>1
      <3>2. f[i - 1] \in V
        BY <1>7, <3>1
      <3>3. QED
        BY <1>5, <1>7, <3>2
    <2>2. QED
      BY <2>1
  <1>9. Is(f)
    BY <1>1, <1>7, <1>8
  <1>10. PICK h : Is(h) /\ NodeAt(p) = h[Len(p)]
    <2>1. Is(CHOOSE h : Is(h))
      BY <1>9
    <2>2. NodeAt(p) = (CHOOSE h : Is(h))[Len(p)]
      BY DEF NodeAt, step
    <2>3. QED
      BY <2>1, <2>2
  <1>11. h[0] = Root /\ \A i \in 1..Len(p) : h[i] = step(h[i - 1], i)
    BY <1>1, <1>10
  <1> DEFINE T == {i \in 0..Len(p) : h[i] \in V}
  <1>12. 0..Len(p) \subseteq T
    <2>1. 0 \in T
      BY <1>1, <1>4, <1>11
    <2>2. ASSUME NEW i \in 0..(Len(p) - 1), i \in T PROVE i + 1 \in T
      <3>1. i + 1 \in 1..Len(p) /\ (i + 1) - 1 = i
        BY <1>1
      <3>2. h[i + 1] = step(h[i], i + 1)
        BY <1>11, <3>1
      <3>3. QED
        BY <1>1, <1>2, <2>2, <3>1, <3>2
    <2> HIDE DEF T
    <2>3. QED
      BY <1>1, <2>1, <2>2, SetInduction
  <1>13. QED
    <2>1. Len(p) \in 0..Len(p)
      BY <1>1
    <2>2. h[Len(p)] \in V
      BY <1>12, <2>1
    <2>3. QED
      BY <1>10, <2>2 DEF V

(* What a handler on names does to the kinds of the nodes: a node of a new   *)
(* kind was free, and only one that is no directory goes.                    *)
LEMMA OneFileGoes ==
    ASSUME IInv, Next
    PROVE  /\ IInv'
           /\ \A n \in Ids : kind[n] # "free" => kind'[n] \in {kind[n], "free"}
           /\ \A n, m \in Gone : kind[n] # "dir" /\ kind[m] # "dir" => n = m
  <1>1. Good(Db) /\ Effect(Db, Db') /\ Good(Db')
    BY NextEffect, NextGood DEF IInv
  <1>2. PICK s : s = Db
    OBVIOUS
  <1>3. PICK t : t = Db'
    OBVIOUS
  <1>4. s.kind = kind /\ t.kind = kind' /\ s.dirs = directories /\ t.dirs = directories'
    BY <1>2, <1>3 DEF Db
  <1>5. Good(s) /\ Good(t) /\ Effect(s, t)
    BY <1>1, <1>2, <1>3
  <1>6. ASSUME NEW n \in Ids, s.kind[n] # "free" PROVE t.kind[n] \in {s.kind[n], "free"}
    BY <1>5, <1>6 DEF Effect, Creates, Links, Drops, Moves
  <1>7. ASSUME NEW n \in Ids, s.kind[n] \notin {"free", "dir"}, t.kind[n] = "free"
        PROVE  \A k \in NamedKeys : s.dirs[k] = n => t.dirs[k] # n
    BY <1>5, <1>7, LiveIffNamed
  <1>8. ASSUME NEW n \in Ids, s.kind[n] \notin {"free", "dir"}
        PROVE  \E k \in NamedKeys : s.dirs[k] = n
    BY <1>5, <1>8, LiveIffNamed DEF Good, Rooted
  <1>9. ASSUME NEW n \in Ids, s.kind[n] \notin {"free", "dir"}, t.kind[n] = "free",
               NEW m \in Ids, s.kind[m] \notin {"free", "dir"}, t.kind[m] = "free"
        PROVE  n = m
    <2>1. PICK k \in NamedKeys : s.dirs[k] = n /\ t.dirs[k] # n
      BY <1>7, <1>8, <1>9
    <2>2. PICK l \in NamedKeys : s.dirs[l] = m /\ t.dirs[l] # m
      BY <1>7, <1>8, <1>9
    <2>3. CASE t = s
      BY <2>1, <2>3
    <2>4. ASSUME NEW d \in Ids, NEW c \in Names, NEW id \in Ids, NEW e \in Kinds \ {"free"},
                 Creates(s, t, d, c, id, e)
          PROVE  n = m
      BY <1>9, <2>4 DEF Creates
    <2>5. ASSUME NEW d \in Ids, NEW c \in Names, NEW x \in Ids, Links(s, t, d, c, x)
          PROVE  n = m
      BY <1>9, <2>5 DEF Links
    <2>6. ASSUME NEW d \in Ids, NEW c \in Names, Drops(s, t, d, c)
          PROVE  n = m
      <3>1. k = <<d, c>> /\ l = <<d, c>>
        BY <2>1, <2>2, <2>6 DEF Drops
      <3>2. QED
        BY <2>1, <2>2, <3>1
    <2>7. ASSUME NEW d \in Ids, NEW c \in Names, NEW d2 \in Ids, NEW c2 \in Names,
                 MayMove(s, d, c, d2, c2), Moves(s, t, d, c, d2, c2)
          PROVE  n = m
      <3>1. k \in {<<d, c>>, <<d2, c2>>} /\ l \in {<<d, c>>, <<d2, c2>>}
        BY <2>1, <2>2, <2>7 DEF Moves
      <3>2. <<d, c>> # <<d2, c2>> /\ <<d2, c2>> \in NamedKeys
        BY <2>7 DEF MayMove, NamedKeys
      <3>3. t.dirs[<<d2, c2>>] = s.dirs[<<d, c>>]
        BY <2>7, <3>2 DEF Moves
      <3>4. \A x \in Ids : t.kind[x] = "free" => t.dirs[<<d2, c2>>] # x
        BY <1>5, <3>2, LiveIffNamed
      <3>5. s.dirs[<<d, c>>] # n /\ s.dirs[<<d, c>>] # m
        BY <1>9, <3>3, <3>4
      <3>6. QED
        BY <2>1, <2>2, <3>1, <3>5
    <2>8. QED
      BY <1>5, <2>3, <2>4, <2>5, <2>6, <2>7 DEF Effect
  <1>10. QED
    BY <1>1, <1>4, <1>6, <1>9 DEF IInv, Gone


-----------------------------------------------------------------------------
(* The storage of a node. *)

(* getsource() gives a node a phid, or leaves it the one it has. *)
LEMMA AssignIs ==
    ASSUME BInv, NEW n \in Ids, NEW p \in Paths, Assign(n, GetSource(n, p))
    PROVE  /\ phid'[n] \in Paths /\ phid' \in [Ids -> Paths \cup {NoPath}]
           /\ \A m \in Ids : Stored(m) => phid'[m] = phid[m]
           /\ \A m \in Ids \ {n} : phid'[m] = phid[m]
           /\ MixedOK' /\ mixed \subseteq mixed'
           /\ \A m \in Ids \ {n} : phid[m] = phid'[n] => m \in mixed' /\ n \in mixed'
  <1> DEFINE q == GetSource(n, p)
  <1>1. phid \in [Ids -> Paths \cup {NoPath}] /\ mixed \subseteq Ids
    BY DEF BInv, StorageTypeOK, MixedOK
  <1>2. q \in Paths /\ (Stored(n) => q = phid[n])
    BY <1>1 DEF GetSource, Stored
  <1>3. /\ phid' = [phid EXCEPT ![n] = q]
        /\ mixed' = IF SharedWith(n, q) = {} THEN mixed ELSE mixed \cup SharedWith(n, q) \cup {n}
    BY DEF Assign
  <1> HIDE DEF q
  <1>4. phid'[n] = q /\ \A m \in Ids \ {n} : phid'[m] = phid[m]
    BY <1>1, <1>3
  <1>5. \A m \in Ids : Stored(m) => phid'[m] = phid[m]
    BY <1>2, <1>4
  <1>6. \A m \in Ids \ {n} : phid[m] = q => m \in mixed' /\ n \in mixed'
    BY <1>3 DEF SharedWith
  <1>7. mixed \subseteq mixed' /\ mixed' \subseteq Ids
    BY <1>1, <1>3 DEF SharedWith
  <1>8. MixedOK'
    <2>1. ASSUME NEW k \in Ids, NEW m \in Ids, k # m, phid'[k] = phid'[m], phid'[k] # NoPath
          PROVE  k \in mixed' /\ m \in mixed'
      <3>1. CASE k = n
        BY <2>1, <3>1, <1>4, <1>6
      <3>2. CASE m = n
        BY <2>1, <3>2, <1>4, <1>6
      <3>3. CASE k # n /\ m # n
        <4>1. k \in mixed /\ m \in mixed
          BY <2>1, <3>3, <1>4 DEF BInv, MixedOK
        <4>2. QED
          BY <4>1, <1>7
      <3>4. QED
        BY <3>1, <3>2, <3>3
    <2>2. QED
      BY <2>1, <1>7 DEF MixedOK
  <1>9. phid' \in [Ids -> Paths \cup {NoPath}]
    BY <1>1, <1>2, <1>3
  <1>10. QED
    BY <1>2, <1>4, <1>5, <1>6, <1>7, <1>8, <1>9

(* A path that a handler has resolved to a file. *)
LEMMA RegIs ==
    ASSUME BInv, NEW p \in Paths, NodeAt(p) # NoNode
    PROVE  NodeAt(p) \in Ids
  BY NodeAtIs DEF BInv

LEMMA OpenKeeps ==
    ASSUME BInv, NEW p \in Paths, Open(p)
    PROVE  BInv'
  <1> DEFINE n == NodeAt(p)
  <1>1. n \in Ids /\ kind[n] = "reg" /\ object[n] = "none"
    BY RegIs DEF Open
  <1>2. /\ Assign(n, GetSource(n, p))
        /\ UNCHANGED <<vars, bytes, wrote, left>>
        /\ \/ files' = files \cup {phid'[n]} /\ object' = [object EXCEPT ![n] = "open"]
           \/ UNCHANGED <<files, object>>
    BY DEF Open, MakeFile
  <1> HIDE DEF n
  <1>3. /\ phid'[n] \in Paths /\ phid' \in [Ids -> Paths \cup {NoPath}]
        /\ \A m \in Ids : Stored(m) => phid'[m] = phid[m]
        /\ \A m \in Ids \ {n} : phid'[m] = phid[m]
        /\ MixedOK' /\ mixed \subseteq mixed'
    BY <1>1, <1>2, AssignIs
  <1>4. files \subseteq files' /\ files' \in SUBSET Paths /\ kind' = kind
        /\ \A q \in files' : q \in files \/ q = phid'[n]
    BY <1>2, <1>3 DEF BInv, StorageTypeOK, vars
  <1>5. \A m \in Ids : object'[m] # "none" => m = n \/ object'[m] = object[m]
    BY <1>2 DEF BInv, StorageTypeOK
  <1>6. phid'[n] # NoPath /\ n \in Ids
    BY <1>1, <1>3, NoPathAssumption
  <1>7. StorageTypeOK'
    <2>1. object' \in [Ids -> Objects]
      BY <1>2 DEF BInv, StorageTypeOK, Objects
    <2>2. \A m \in Ids : phid'[m] # NoPath => kind'[m] = "reg"
      BY <1>1, <1>3, <1>4 DEF BInv, StorageTypeOK
    <2>3. \A m \in Ids : object'[m] # "none" => phid'[m] # NoPath
      BY <1>1, <1>3, <1>5, <1>6 DEF BInv, StorageTypeOK
    <2>4. QED
      BY <2>1, <2>2, <2>3, <1>2, <1>3, <1>4 DEF StorageTypeOK, BInv
  <1>8. WroteOK'
    BY <1>2, <1>3 DEF BInv, WroteOK, Stored
  <1>9. ObjectOK'
    <2>1. ASSUME NEW m \in Ids, object'[m] = "open" PROVE phid'[m] \in files'
      <3>1. CASE m = n
        BY <2>1, <3>1, <1>1, <1>2 DEF BInv, StorageTypeOK
      <3>2. CASE m # n
        BY <2>1, <3>2, <1>3, <1>4, <1>5 DEF BInv, ObjectOK
      <3>3. QED
        BY <3>1, <3>2
    <2>2. ASSUME NEW m \in Ids, object'[m] = "unlinked" PROVE m \in mixed'
      <3>1. object[m] = "unlinked"
        BY <2>2, <1>1, <1>2 DEF BInv, StorageTypeOK
      <3>2. QED
        BY <3>1, <1>3 DEF BInv, ObjectOK
    <2>3. QED
      BY <2>1, <2>2 DEF ObjectOK
  <1>10. BytesOK'
    BY <1>2, <1>3, <1>4, NoPathAssumption DEF BInv, BytesOK, Stored
  <1>11. WrittenStays'
    BY <1>2, <1>3, <1>4 DEF BInv, WrittenStays, WroteOK
  <1>12. NoFileForgotten'
    BY <1>2, <1>3, <1>4, <1>6, NoPathAssumption DEF BInv, NoFileForgotten, Stored, StorageTypeOK
  <1>13. IInv'
    BY <1>2 DEF BInv, vars, IInv, Db
  <1>14. QED
    BY <1>3, <1>7, <1>8, <1>9, <1>10, <1>11, <1>12, <1>13 DEF BInv

LEMMA TruncateKeeps ==
    ASSUME BInv, NEW p \in Paths, Truncate(p)
    PROVE  BInv'
  <1> DEFINE n == NodeAt(p)
  <1>1. n \in Ids /\ kind[n] = "reg"
    BY RegIs DEF Truncate
  <1>2. /\ Assign(n, GetSource(n, p))
        /\ UNCHANGED <<vars, object>>
        /\ files' \in {files, files \cup {phid'[n]}}
        /\ \/ /\ files' = files \cup {phid'[n]}
              /\ bytes' = [bytes EXCEPT ![phid'[n]] = {}]
              /\ wrote' = wrote \ {n} /\ left' = left \ {phid'[n]}
           \/ UNCHANGED <<bytes, wrote, left>>
    BY DEF Truncate, MakeFile
  <1> HIDE DEF n
  <1>3. /\ phid'[n] \in Paths /\ phid' \in [Ids -> Paths \cup {NoPath}]
        /\ \A m \in Ids : Stored(m) => phid'[m] = phid[m]
        /\ \A m \in Ids \ {n} : phid'[m] = phid[m]
        /\ MixedOK' /\ mixed \subseteq mixed'
        /\ \A m \in Ids \ {n} : phid[m] = phid'[n] => m \in mixed'
    BY <1>1, <1>2, AssignIs
  <1>4. files \subseteq files' /\ files' \in SUBSET Paths /\ kind' = kind
        /\ \A q \in files' : q \in files \/ q = phid'[n]
    BY <1>2, <1>3 DEF BInv, StorageTypeOK, vars
  <1>5. \A q \in Paths : (q # phid'[n] /\ bytes'[q] = bytes[q]) \/ (q = phid'[n] /\ bytes'[q] = {})
                      \/ (bytes'[q] = bytes[q] /\ UNCHANGED <<bytes, wrote, left>>)
    BY <1>2, <1>3 DEF BInv, StorageTypeOK
  <1>6. phid'[n] # NoPath /\ n \in Ids
    BY <1>1, <1>3, NoPathAssumption
  <1>a. \A m \in Ids : phid'[m] # NoPath => kind'[m] = "reg"
    BY <1>1, <1>3, <1>4 DEF BInv, StorageTypeOK
  <1>7. StorageTypeOK'
    <2>1. bytes' \in [Paths -> SUBSET (Ids \cup {Old})]
      BY <1>2, <1>3 DEF BInv, StorageTypeOK
    <2>2. object' = object
      BY <1>2
    <2>3. \A m \in Ids : object'[m] # "none" => phid'[m] # NoPath
      BY <2>2, <1>3, <1>6 DEF BInv, StorageTypeOK
    <2>4. QED
      BY <1>a, <2>1, <2>2, <2>3, <1>3, <1>4 DEF StorageTypeOK, BInv
  <1>8. WroteOK'
    BY <1>2, <1>3 DEF BInv, WroteOK, Stored
  <1>9. ObjectOK'
    <2>1. object' = object
      BY <1>2
    <2>2. \A m \in Ids : object[m] # "none" => Stored(m)
      BY DEF BInv, StorageTypeOK, Stored
    <2>3. QED
      BY <2>1, <2>2, <1>3, <1>4 DEF BInv, ObjectOK
  <1>10. BytesOK'
    <2>1. ASSUME NEW q \in Paths, NEW b \in bytes'[q]
          PROVE  q \in files' /\ (q \in left' \/ (b \in Ids /\ phid'[b] = q))
      <3>1. b \in bytes[q] /\ (q # phid'[n] \/ left' = left)
        BY <2>1, <1>5
      <3>2. q \in left => q \in left'
        BY <3>1, <1>2
      <3>3. q # NoPath
        BY NoPathAssumption
      <3>4. QED
        BY <3>1, <3>2, <3>3, <1>3, <1>4 DEF BInv, BytesOK, Stored
    <2>2. QED
      BY <2>1 DEF BytesOK
  <1>11. WrittenStays'
    <2>1. ASSUME NEW m \in wrote', m \notin mixed'
          PROVE  phid'[m] \in files' /\ m \in bytes'[phid'[m]]
      <3>1. /\ m \in wrote /\ m \in Ids /\ m \notin mixed
            /\ m # n \/ UNCHANGED <<bytes, wrote, left>>
        BY <2>1, <1>2, <1>3 DEF BInv, WroteOK
      <3>2. phid[m] \in files /\ m \in bytes[phid[m]] /\ phid'[m] = phid[m] /\ phid[m] \in Paths
        BY <2>1, <3>1, <1>3 DEF BInv, WrittenStays, WroteOK, StorageTypeOK, Stored
      <3>3. m # n => phid[m] # phid'[n]
        BY <2>1, <3>1, <1>3
      <3>4. bytes'[phid[m]] = bytes[phid[m]]
        BY <3>1, <3>2, <3>3, <1>5
      <3>5. QED
        BY <3>2, <3>4, <1>4
    <2>2. QED
      BY <2>1 DEF WrittenStays
  <1>12. NoFileForgotten'
    <2>1. ASSUME NEW q \in files' PROVE q \in left' \/ \E m \in Ids : phid'[m] = q
      <3>1. CASE q = phid'[n]
        BY <3>1, <1>6
      <3>2. CASE q # phid'[n]
        <4>1. q \in files /\ q \in Paths
          BY <3>2, <1>4
        <4>2. q \in left => q \in left'
          BY <3>2, <1>2
        <4>3. \A m \in Ids : phid[m] = q => phid'[m] = q
          BY <4>1, <1>3, NoPathAssumption DEF Stored
        <4>4. QED
          BY <4>1, <4>2, <4>3 DEF BInv, NoFileForgotten
      <3>3. QED
        BY <3>1, <3>2
    <2>2. QED
      BY <2>1 DEF NoFileForgotten
  <1>13. IInv'
    BY <1>2 DEF BInv, vars, IInv, Db
  <1>14. QED
    BY <1>3, <1>7, <1>8, <1>9, <1>10, <1>11, <1>12, <1>13 DEF BInv

(* offimport makes a node, and gives it a phid at once. *)
LEMMA ImportKeeps ==
    ASSUME BInv, NEW p \in Paths, Import(p)
    PROVE  BInv'
  <1> DEFINE d == NodeAt(SubSeq(p, 1, Len(p) - 1))
  <1>1. PICK id \in Ids :
           /\ IsDir(d) /\ ~Taken(Db, d, p[Len(p)]) /\ Mknod(d, p[Len(p)], id)
           /\ Assign(id, p)
           /\ files' = files \cup {p}
           /\ bytes' = IF p \in files THEN bytes ELSE [bytes EXCEPT ![p] = {id}]
           /\ wrote' = IF p \in files THEN wrote ELSE wrote \cup {id}
           /\ UNCHANGED <<object, left>>
    BY DEF Import, MakeFile
  <1>2. PICK m \in Names : m = p[Len(p)]
    BY PathIs
  <1> HIDE DEF d
  <1>3. d \in Ids /\ kind[d] = "dir" /\ IsNextId(Db, id)
    BY <1>1 DEF IsDir, Mknod
  <1>4. Next
    BY <1>1, <1>2, <1>3 DEF Next
  <1>5. IInv' /\ \A n \in Ids : kind[n] # "free" => kind'[n] \in {kind[n], "free"}
    BY <1>4, OneFileGoes DEF BInv
  <1>6. kind[id] = "free" /\ \A n \in Ids : kind'[n] = IF n = id THEN "reg" ELSE kind[n]
    <2> DEFINE t == PathCreate(Db, d, m, id, "reg")
    <2>1. Creates(Db, t, d, m, id, "reg")
      BY <1>1, <1>2, <1>3, CreateGood DEF BInv, IInv, Db
    <2>2. Commit(t)
      BY <1>1, <1>2 DEF Mknod
    <2> HIDE DEF t
    <2>3. kind' = t.kind /\ Db.kind = kind
      BY <2>2 DEF Commit, Db
    <2>4. QED
      BY <2>1, <2>3 DEF Creates
  <1>7. ~Stored(id)
    BY <1>6 DEF BInv, StorageTypeOK, Stored
  <1>8. Assign(id, GetSource(id, p))
    BY <1>1, <1>7 DEF GetSource
  <1>9. /\ phid'[id] \in Paths /\ phid' \in [Ids -> Paths \cup {NoPath}]
        /\ \A n \in Ids : Stored(n) => phid'[n] = phid[n]
        /\ \A n \in Ids \ {id} : phid'[n] = phid[n]
        /\ MixedOK' /\ mixed \subseteq mixed'
        /\ \A n \in Ids \ {id} : phid[n] = phid'[id] => n \in mixed'
    BY <1>8, AssignIs
  <1>10. phid'[id] = p /\ p # NoPath
    BY <1>1, NoPathAssumption DEF Assign, BInv, StorageTypeOK
  <1>11. \A q \in Paths : bytes'[q] = IF q = p /\ p \notin files THEN {id} ELSE bytes[q]
    BY <1>1 DEF BInv, StorageTypeOK
  <1>12. StorageTypeOK'
    <2>1. bytes' \in [Paths -> SUBSET (Ids \cup {Old})] /\ files' \in SUBSET Paths
      BY <1>1 DEF BInv, StorageTypeOK
    <2>2. \A n \in Ids : phid'[n] # NoPath => kind'[n] = "reg"
      BY <1>6, <1>9 DEF BInv, StorageTypeOK
    <2>3. \A n \in Ids : object'[n] # "none" => phid'[n] # NoPath
      BY <1>1, <1>9, <1>10 DEF BInv, StorageTypeOK
    <2>4. QED
      BY <2>1, <2>2, <2>3, <1>1, <1>9 DEF StorageTypeOK, BInv
  <1>13. WroteOK'
    BY <1>1, <1>9, <1>10 DEF BInv, WroteOK, Stored
  <1>14. ObjectOK'
    <2>1. \A n \in Ids : object[n] # "none" => Stored(n)
      BY DEF BInv, StorageTypeOK, Stored
    <2>2. QED
      BY <2>1, <1>1, <1>9 DEF BInv, ObjectOK
  <1>15. BytesOK'
    <2>1. ASSUME NEW q \in Paths, NEW b \in bytes'[q]
          PROVE  q \in files' /\ (q \in left' \/ (b \in Ids /\ phid'[b] = q))
      <3>1. CASE q = p /\ p \notin files
        BY <2>1, <3>1, <1>1, <1>10, <1>11
      <3>2. CASE ~(q = p /\ p \notin files)
        <4>1. b \in bytes[q] /\ q # NoPath
          BY <2>1, <3>2, <1>11, NoPathAssumption
        <4>2. QED
          BY <4>1, <1>1, <1>9 DEF BInv, BytesOK, Stored
      <3>3. QED
        BY <3>1, <3>2
    <2>2. QED
      BY <2>1 DEF BytesOK
  <1>16. WrittenStays'
    <2>1. ASSUME NEW n \in wrote', n \notin mixed'
          PROVE  phid'[n] \in files' /\ n \in bytes'[phid'[n]]
      <3>1. CASE n \in wrote
        <4>1. n \in Ids /\ n \notin mixed /\ Stored(n) /\ n # id
          BY <2>1, <3>1, <1>7, <1>9 DEF BInv, WroteOK
        <4>2. phid[n] \in files /\ n \in bytes[phid[n]] /\ phid'[n] = phid[n] /\ phid[n] \in Paths
          BY <3>1, <4>1, <1>9 DEF BInv, WrittenStays, StorageTypeOK
        <4>3. phid[n] # p
          BY <2>1, <4>1, <1>9, <1>10
        <4>4. QED
          BY <4>2, <4>3, <1>1, <1>11
      <3>2. CASE n \notin wrote
        <4>1. n = id /\ p \notin files
          BY <2>1, <3>2, <1>1
        <4>2. QED
          BY <4>1, <1>1, <1>10, <1>11
      <3>3. QED
        BY <3>1, <3>2
    <2>2. QED
      BY <2>1 DEF WrittenStays
  <1>17. NoFileForgotten'
    <2>1. ASSUME NEW q \in files' PROVE q \in left' \/ \E n \in Ids : phid'[n] = q
      <3>1. CASE q = p
        BY <3>1, <1>10
      <3>2. CASE q # p
        <4>1. q \in files /\ q \in Paths
          BY <3>2, <1>1 DEF BInv, StorageTypeOK
        <4>2. \A n \in Ids : phid[n] = q => phid'[n] = q
          BY <4>1, <1>9, NoPathAssumption DEF Stored
        <4>3. QED
          BY <4>1, <4>2, <1>1 DEF BInv, NoFileForgotten
      <3>3. QED
        BY <3>1, <3>2
    <2>2. QED
      BY <2>1 DEF NoFileForgotten
  <1>18. QED
    BY <1>5, <1>9, <1>12, <1>13, <1>14, <1>15, <1>16, <1>17 DEF BInv

LEMMA WriteKeeps ==
    ASSUME BInv, NEW n \in Ids, Write(n)
    PROVE  BInv'
  <1>1. /\ object[n] # "none" /\ wrote' = wrote \cup {n}
        /\ bytes' = IF object[n] = "open" THEN [bytes EXCEPT ![phid[n]] = @ \cup {n}] ELSE bytes
        /\ UNCHANGED <<vars, phid, files, object, mixed, left>>
    BY DEF Write
  <1>2. phid[n] \in Paths /\ Stored(n) /\ object[n] \in {"open", "unlinked"}
    BY <1>1 DEF BInv, StorageTypeOK, Objects, Stored
  <1>3. \A q \in Paths :
           bytes'[q] = IF q = phid[n] /\ object[n] = "open" THEN bytes[q] \cup {n} ELSE bytes[q]
    BY <1>1 DEF BInv, StorageTypeOK
  <1>4. StorageTypeOK'
    <2>1. bytes' \in [Paths -> SUBSET (Ids \cup {Old})]
      BY <1>1, <1>2 DEF BInv, StorageTypeOK
    <2>2. QED
      BY <1>1, <2>1 DEF BInv, StorageTypeOK, vars
  <1>5. MixedOK' /\ ObjectOK' /\ NoFileForgotten'
    BY <1>1 DEF BInv, MixedOK, ObjectOK, NoFileForgotten
  <1>6. WroteOK'
    BY <1>1, <1>2 DEF BInv, WroteOK, Stored
  <1>7. BytesOK'
    <2>1. ASSUME NEW q \in Paths, NEW b \in bytes'[q]
          PROVE  q \in files /\ (q \in left \/ (b \in Ids /\ phid[b] = q))
      <3>1. b \in bytes[q] \/ (b = n /\ q = phid[n] /\ object[n] = "open")
        BY <2>1, <1>3
      <3>2. QED
        BY <3>1 DEF BInv, BytesOK, ObjectOK
    <2>2. QED
      BY <2>1, <1>1 DEF BytesOK
  <1>8. WrittenStays'
    <2>1. ASSUME NEW m \in wrote', m \notin mixed
          PROVE  phid[m] \in files /\ m \in bytes'[phid[m]]
      <3>1. CASE m = n
        <4>1. object[n] = "open"
          BY <2>1, <3>1, <1>2 DEF BInv, ObjectOK
        <4>2. QED
          BY <3>1, <4>1, <1>2, <1>3 DEF BInv, ObjectOK
      <3>2. CASE m # n
        <4>1. m \in wrote /\ phid[m] \in Paths
          BY <2>1, <3>2, <1>1 DEF BInv, WroteOK, Stored, StorageTypeOK
        <4>2. QED
          BY <2>1, <4>1, <1>3 DEF BInv, WrittenStays
      <3>3. QED
        BY <3>1, <3>2
    <2>2. QED
      BY <2>1, <1>1 DEF WrittenStays
  <1>9. IInv'
    BY <1>1 DEF BInv, vars, IInv, Db
  <1>10. QED
    BY <1>4, <1>5, <1>6, <1>7, <1>8, <1>9 DEF BInv

LEMMA ReleaseKeeps ==
    ASSUME BInv, NEW n \in Ids, Release(n)
    PROVE  BInv'
  <1>1. /\ object' = [object EXCEPT ![n] = "none"]
        /\ UNCHANGED <<vars, phid, files, bytes, wrote, mixed, left>>
    BY DEF Release
  <1>2. StorageTypeOK'
    BY <1>1 DEF BInv, StorageTypeOK, Objects, vars
  <1>3. \A m \in Ids : object'[m] # "none" => object'[m] = object[m]
    BY <1>1 DEF BInv, StorageTypeOK
  <1>4. ObjectOK'
    BY <1>1, <1>3 DEF BInv, ObjectOK
  <1>5. MixedOK' /\ WroteOK' /\ BytesOK'
    BY <1>1 DEF BInv, MixedOK, WroteOK, BytesOK, Stored
  <1>6. WrittenStays' /\ NoFileForgotten'
    BY <1>1 DEF BInv, WrittenStays, NoFileForgotten
  <1>7. IInv'
    BY <1>1 DEF BInv, vars, IInv, Db
  <1>8. QED
    BY <1>2, <1>4, <1>5, <1>6, <1>7 DEF BInv

-----------------------------------------------------------------------------
(* The handlers that take a node away. *)

(* What the medium keeps or deletes when the node n with the phid p goes. *)
LEMMA RemoveIs ==
    ASSUME BInv, NEW n \in Ids, Stored(n), object[n] = "none", SourceRemove(n)
    PROVE  /\ files' \subseteq files /\ object' \in [Ids -> Objects]
           /\ bytes' \in [Paths -> SUBSET (Ids \cup {Old})]
           /\ \A q \in Paths \ {phid[n]} :
                 bytes'[q] = bytes[q] /\ (q \in files => q \in files') /\ (q \in left => q \in left')
           /\ \A m \in Ids : phid[m] # phid[n] \/ m = n => object'[m] = object[m]
           /\ \A m \in Ids : \/ object'[m] = object[m] /\ (object[m] = "open" => phid[m] \in files')
                             \/ object'[m] = "unlinked" /\ phid[m] = phid[n] /\ m # n
           /\ phid[n] \in files' => phid[n] \in left'
           /\ bytes'[phid[n]] # {} => phid[n] \in files'
  <1> DEFINE p == phid[n]
  <1>1. /\ p \in Paths /\ bytes \in [Paths -> SUBSET (Ids \cup {Old})]
        /\ object \in [Ids -> Objects]
        /\ \A m \in Ids : object[m] = "open" => phid[m] \in files
    BY DEF BInv, StorageTypeOK, ObjectOK, Stored
  <1>2. CASE DelFile(p)
    <2>1. /\ files' = files \ {p} /\ left' = left \ {p}
          /\ bytes' = [bytes EXCEPT ![p] = {}]
          /\ object' = [m \in Ids |-> IF object[m] = "open" /\ phid[m] = p
                                      THEN "unlinked" ELSE object[m]]
      BY <1>2 DEF DelFile
    <2> HIDE DEF p
    <2>2. bytes' \in [Paths -> SUBSET (Ids \cup {Old})]
      BY <1>1, <2>1
    <2>3. object' \in [Ids -> Objects]
      BY <1>1, <2>1 DEF Objects
    <2>4. \A q \in Paths : bytes'[q] = IF q = p THEN {} ELSE bytes[q]
      BY <1>1, <2>1
    <2>5. \A m \in Ids : object'[m] = IF object[m] = "open" /\ phid[m] = p
                                      THEN "unlinked" ELSE object[m]
      BY <2>1
    <2>6. p \notin files' /\ bytes'[p] = {}
      BY <1>1, <2>1, <2>4
    <2>7. QED
      BY <1>1, <2>1, <2>2, <2>3, <2>4, <2>5, <2>6 DEF p
  <1>3. CASE KeepFile(p, n)
    <2>1. /\ bytes' = [bytes EXCEPT ![p] = IF n \in @ THEN (@ \ {n}) \cup {Old} ELSE @]
          /\ left' = left \cup ({p} \cap files) /\ files' = files /\ object' = object
      BY <1>3 DEF KeepFile, Orphaned
    <2> HIDE DEF p
    <2>2. bytes' \in [Paths -> SUBSET (Ids \cup {Old})]
      BY <1>1, <2>1
    <2>3. \A q \in Paths : bytes'[q] = IF q = p /\ n \in bytes[q] THEN (bytes[q] \ {n}) \cup {Old}
                                       ELSE bytes[q]
      BY <1>1, <2>1
    <2>4. bytes'[p] # {} => bytes[p] # {}
      BY <1>1, <2>3
    <2>5. bytes[p] # {} => p \in files
      BY <1>1 DEF BInv, BytesOK
    <2>6. QED
      BY <1>1, <2>1, <2>2, <2>3, <2>4, <2>5 DEF p
  <1>4. QED
    BY <1>2, <1>3 DEF SourceRemove

(* A handler on names: what stays has the storage that it had, and another   *)
(* node of the same phid as the one that goes was known as such.             *)
LEMMA NamingKeeps ==
    ASSUME BInv, Naming, \A n \in Gone : object[n] = "none", RemoveFiles
    PROVE  BInv'
  <1>1. Next
    BY DEF Naming, Next
  <1>2. /\ IInv'
        /\ \A n \in Ids : kind[n] # "free" => kind'[n] \in {kind[n], "free"}
        /\ \A n, m \in Gone : kind[n] # "dir" /\ kind[m] # "dir" => n = m
    BY <1>1, OneFileGoes DEF BInv
  <1>3. Gone \subseteq Ids /\ \A n \in Ids : n \in Gone <=> kind[n] # "free" /\ kind'[n] = "free"
    BY DEF Gone
  <1>4. /\ phid' = [n \in Ids |-> IF n \in Gone THEN NoPath ELSE phid[n]]
        /\ wrote' = wrote \ Gone /\ mixed' = mixed \ Gone
    BY DEF RemoveFiles
  <1>5. \A n \in Ids : phid'[n] = IF n \in Gone THEN NoPath ELSE phid[n]
    BY <1>4
  <1>6. \A n \in Ids : Stored(n) => kind[n] = "reg"
    BY DEF BInv, StorageTypeOK, Stored
  <1>7. MixedOK'
    BY <1>4, <1>5 DEF BInv, MixedOK
  <1>8. WroteOK'
    BY <1>4, <1>5 DEF BInv, WroteOK, Stored
  <1>9. phid' \in [Ids -> Paths \cup {NoPath}]
    BY <1>4 DEF BInv, StorageTypeOK
  <1>10. \A n \in Ids : phid'[n] # NoPath => kind'[n] = "reg"
    BY <1>2, <1>3, <1>5, <1>6 DEF Stored
  <1>11. CASE {n \in Gone : Stored(n)} = {}
    <2>1. UNCHANGED <<files, bytes, object, left>>
      BY <1>11 DEF RemoveFiles
    <2>2. \A n \in Ids : Stored(n) => n \notin Gone /\ phid'[n] = phid[n]
      BY <1>5, <1>11
    <2>3. StorageTypeOK'
      BY <1>9, <1>10, <2>1, <2>2 DEF BInv, StorageTypeOK, Stored
    <2>4. ObjectOK'
      <3>1. \A n \in Ids : object[n] # "none" => Stored(n)
        BY DEF BInv, StorageTypeOK, Stored
      <3>2. QED
        BY <1>4, <2>1, <2>2, <3>1 DEF BInv, ObjectOK
    <2>5. BytesOK'
      BY <2>1, <2>2, NoPathAssumption DEF BInv, BytesOK, Stored
    <2>6. WrittenStays'
      BY <1>4, <2>1, <2>2 DEF BInv, WrittenStays, WroteOK
    <2>7. NoFileForgotten'
      BY <2>1, <2>2, NoPathAssumption DEF BInv, NoFileForgotten, Stored, StorageTypeOK
    <2>8. QED
      BY <1>2, <1>7, <1>8, <2>3, <2>4, <2>5, <2>6, <2>7 DEF BInv
  <1>12. CASE {n \in Gone : Stored(n)} # {}
    <2>1. PICK n \in {x \in Gone : Stored(x)} : SourceRemove(n)
      BY <1>12 DEF RemoveFiles
    <2>2. n \in Ids /\ n \in Gone /\ Stored(n) /\ object[n] = "none"
      BY <2>1, <1>3
    <2>3. \A m \in Ids \ {n} : Stored(m) => phid'[m] = phid[m] /\ m \notin Gone
      BY <2>2, <1>2, <1>5, <1>6
    <2>4. phid'[n] = NoPath
      BY <2>2, <1>5
    <2>5. /\ files' \subseteq files /\ object' \in [Ids -> Objects]
          /\ bytes' \in [Paths -> SUBSET (Ids \cup {Old})]
          /\ \A q \in Paths \ {phid[n]} :
                bytes'[q] = bytes[q] /\ (q \in files => q \in files') /\ (q \in left => q \in left')
          /\ \A m \in Ids : phid[m] # phid[n] \/ m = n => object'[m] = object[m]
          /\ \A m \in Ids : \/ object'[m] = object[m] /\ (object[m] = "open" => phid[m] \in files')
                            \/ object'[m] = "unlinked" /\ phid[m] = phid[n] /\ m # n
          /\ phid[n] \in files' => phid[n] \in left'
          /\ bytes'[phid[n]] # {} => phid[n] \in files'
      BY <2>1, <2>2, RemoveIs
    <2>6. ASSUME NEW m \in Ids \ {n}, phid[m] = phid[n]
          PROVE  m \in mixed /\ m \in mixed'
      BY <2>2, <2>3, <2>6, <1>4 DEF BInv, MixedOK, Stored
    <2>7. StorageTypeOK'
      <3>1. \A m \in Ids : object'[m] # "none" => phid'[m] # NoPath
        BY <2>2, <2>3, <2>5 DEF BInv, StorageTypeOK, Stored
      <3>2. files' \in SUBSET Paths
        BY <2>5 DEF BInv, StorageTypeOK
      <3>3. QED
        BY <1>9, <1>10, <2>5, <3>1, <3>2 DEF StorageTypeOK
    <2>8. ObjectOK'
      <3>1. \A m \in Ids : object[m] # "none" => Stored(m) /\ m # n
        BY <2>2 DEF BInv, StorageTypeOK, Stored
      <3>2. ASSUME NEW m \in Ids, object'[m] = "open" PROVE phid'[m] \in files'
        BY <3>1, <3>2, <2>3, <2>5
      <3>3. ASSUME NEW m \in Ids, object'[m] = "unlinked" PROVE m \in mixed'
        <4>1. CASE object[m] = "unlinked"
          BY <3>1, <4>1, <2>3, <1>4 DEF BInv, ObjectOK
        <4>2. CASE object[m] # "unlinked"
          BY <3>3, <4>2, <2>5, <2>6
        <4>3. QED
          BY <4>1, <4>2
      <3>4. QED
        BY <3>2, <3>3 DEF ObjectOK
    <2>9. BytesOK'
      <3>1. ASSUME NEW q \in Paths, NEW b \in bytes'[q]
            PROVE  q \in files' /\ (q \in left' \/ (b \in Ids /\ phid'[b] = q))
        <4>1. CASE q = phid[n]
          BY <3>1, <4>1, <2>5
        <4>2. CASE q # phid[n]
          <5>1. b \in bytes[q] /\ q # NoPath
            BY <3>1, <4>2, <2>5, NoPathAssumption
          <5>2. q \in files /\ (q \in left \/ (b \in Ids /\ phid[b] = q))
            BY <5>1 DEF BInv, BytesOK
          <5>3. b \in Ids /\ phid[b] = q => b # n /\ phid'[b] = q
            BY <4>2, <5>1, <2>3 DEF Stored
          <5>4. QED
            BY <5>2, <5>3, <4>2, <2>5
        <4>3. QED
          BY <4>1, <4>2
      <3>2. QED
        BY <3>1 DEF BytesOK
    <2>10. WrittenStays'
      <3>1. ASSUME NEW m \in wrote', m \notin mixed'
            PROVE  phid'[m] \in files' /\ m \in bytes'[phid'[m]]
        <4>1. m \in wrote /\ m \in Ids /\ m # n /\ m \notin mixed /\ Stored(m) /\ phid'[m] = phid[m]
          BY <3>1, <2>2, <2>3, <1>4 DEF BInv, WroteOK
        <4>2. phid[m] # phid[n] /\ phid[m] \in Paths
          BY <4>1, <2>6 DEF BInv, StorageTypeOK, Stored
        <4>3. QED
          BY <4>1, <4>2, <2>5 DEF BInv, WrittenStays
      <3>2. QED
        BY <3>1 DEF WrittenStays
    <2>11. NoFileForgotten'
      <3>1. ASSUME NEW q \in files' PROVE q \in left' \/ \E m \in Ids : phid'[m] = q
        <4>1. CASE q = phid[n]
          BY <3>1, <4>1, <2>5
        <4>2. CASE q # phid[n]
          <5>1. q \in Paths /\ q \in files /\ q # NoPath
            BY <3>1, <2>5, NoPathAssumption DEF BInv, StorageTypeOK
          <5>2. q \in left \/ \E m \in Ids : phid[m] = q
            BY <5>1 DEF BInv, NoFileForgotten
          <5>3. \A m \in Ids : phid[m] = q => m # n /\ phid'[m] = q
            BY <4>2, <5>1, <2>3 DEF Stored
          <5>4. QED
            BY <5>1, <5>2, <5>3, <4>2, <2>5
        <4>3. QED
          BY <4>1, <4>2
      <3>2. QED
        BY <3>1 DEF NoFileForgotten
    <2>12. QED
      BY <1>2, <1>7, <1>8, <2>7, <2>8, <2>9, <2>10, <2>11 DEF BInv
  <1>13. QED
    BY <1>11, <1>12

-----------------------------------------------------------------------------

LEMMA InitBInv == BackingInit => BInv
  <1> SUFFICES ASSUME BackingInit PROVE BInv
    OBVIOUS
  <1>1. IInv
    BY InitIsTree DEF BackingInit
  <1>2. /\ phid = [n \in Ids |-> NoPath] /\ files = {} /\ bytes = [p \in Paths |-> {}]
        /\ object = [n \in Ids |-> "none"] /\ wrote = {} /\ mixed = {} /\ left = {}
    BY DEF BackingInit
  <1>3. StorageTypeOK /\ MixedOK /\ WroteOK
    BY <1>2 DEF StorageTypeOK, MixedOK, WroteOK, Objects
  <1>4. ObjectOK /\ BytesOK /\ WrittenStays /\ NoFileForgotten
    BY <1>2 DEF ObjectOK, BytesOK, WrittenStays, NoFileForgotten
  <1>5. QED
    BY <1>1, <1>3, <1>4 DEF BInv

LEMMA NextBInv == BInv /\ [BackingNext]_backingVars => BInv'
  <1>1. ASSUME BInv, BackingNext PROVE BInv'
    BY <1>1, NamingKeeps, OpenKeeps, TruncateKeeps, ImportKeeps, WriteKeeps, ReleaseKeeps
       DEF BackingNext
  <1>2. ASSUME BInv, UNCHANGED backingVars PROVE BInv'
    <2>1. UNCHANGED <<vars, storage>>
      BY <1>2 DEF backingVars
    <2>2. StorageTypeOK' /\ MixedOK' /\ WroteOK'
      BY <1>2, <2>1 DEF BInv, StorageTypeOK, MixedOK, WroteOK, Stored, vars, storage
    <2>3. ObjectOK' /\ BytesOK' /\ WrittenStays' /\ NoFileForgotten'
      BY <1>2, <2>1 DEF BInv, ObjectOK, BytesOK, WrittenStays, NoFileForgotten, storage
    <2>4. IInv'
      BY <1>2, <2>1 DEF BInv, vars, IInv, Db
    <2>5. QED
      BY <2>2, <2>3, <2>4 DEF BInv
  <1>3. QED
    BY <1>1, <1>2

(* Import, Open, Truncate and the handlers on names keep the two databases   *)
(* and the medium in agreement: the inductive invariant of both.             *)
THEOREM BackingInvariance == BackingSpec => []BInv
  BY InitBInv, NextBInv, PTL DEF BackingSpec

(* Only the register of a file has "offlinefs.phid", and remove() takes the  *)
(* attribute with the register (register.hxx, Register::remove).             *)
THEOREM StorageTypes == BackingSpec => []StorageTypeOK
  <1>1. BInv => StorageTypeOK
    BY DEF BInv
  <1>2. QED
    BY <1>1, BackingInvariance, PTL

(* Whatever is moved, linked, reopened or removed, the bytes written to a    *)
(* node are in the file that getsource() finds for it.                       *)
THEOREM WritesStay == BackingSpec => []WrittenStays
  <1>1. BInv => WrittenStays
    BY DEF BInv
  <1>2. QED
    BY <1>1, BackingInvariance, PTL

(* No node is read with the bytes of another one, or of one that is gone. *)
THEOREM OwnBytesOnly == BackingSpec => []NoForeignBytes
  <1>1. BInv => NoForeignBytes
    <2>1. SUFFICES ASSUME BInv, NEW n \in Ids, phid[n] # NoPath, n \notin mixed,
                          phid[n] \notin left, NEW b \in bytes[phid[n]]
                   PROVE  b = n
      BY DEF NoForeignBytes
    <2>2. phid[n] \in Paths
      BY <2>1 DEF BInv, StorageTypeOK
    <2>3. b \in Ids /\ phid[b] = phid[n]
      BY <2>1, <2>2 DEF BInv, BytesOK
    <2>4. QED
      BY <2>1, <2>3 DEF BInv, MixedOK
  <1>2. QED
    BY <1>1, BackingInvariance, PTL

(* A file on the medium has a node, or delfile() was told or forced to leave *)
(* it: File::remove asks for the file of every node that it removes.         *)
THEOREM FilesRemembered == BackingSpec => []NoFileForgotten
  <1>1. BInv => NoFileForgotten
    BY DEF BInv
  <1>2. QED
    BY <1>1, BackingInvariance, PTL

=============================================================================
