-------------------------- MODULE SContextCacheProofs --------------------------
(***************************************************************************)
(* SContextCache, for any number of threads and users, any size of the     *)
(* cache and any changes of the files: an answer is out of date only by    *)
(* what the time of a file in whole seconds does not tell; the three       *)
(* members of the cache agree; and an element that a thread has in hand    *)
(* without the mutex goes only for one of two reasons.                     *)
(*                                                                         *)
(* For the last, what is inductive is where that element is: it is in the  *)
(* queue, and whatever is in front of it was asked for since (LiveOK).  So *)
(* when it is at the back of a full queue, that is MaxElems - 1 others,    *)
(* and the one that is asked for now, which is not in the queue, is one    *)
(* more.                                                                   *)
(***************************************************************************)
EXTENDS SContextCache, FiniteSetTheorems, SequenceTheorems, TLAPS

(* An answer that thread t may give. *)
Fresh(t, e) == e.version >= seen[t].version \/ seen[t].latest <= e.read

NumbersOK ==
    /\ now \in Nat /\ version \in Nat /\ checktime \in Nat
    /\ checktime <= now
    /\ mtime \in [SysFiles -> Nat]
    /\ seen \in [Threads -> [version : Nat, latest : Nat]]
    /\ at \in [Threads -> {"idle", "locking", "clearing", "finding", "reading"}]
    /\ user \in [Threads -> Users \cup {NoUser}]
    /\ \A t \in Threads : seen[t].version <= version

(* The mutex is held in between. *)
MutexOK == \A t \in Threads : at[t] \in {"clearing", "finding"} => mutex = t

(* What is in the cache was read after the last check. *)
CacheOK ==
    \A u \in DOMAIN cache :
        /\ cache[u] \in [version : Nat, read : Nat]
        /\ cache[u].version <= version
        /\ checktime <= cache[u].read

FindingOK ==
    \A t \in Threads :
        at[t] = "finding" => \A u \in DOMAIN cache : Fresh(t, cache[u])

ReadingOK == \A t \in Threads : at[t] = "reading" => Fresh(t, found[t])

FoundOK == found \in [Threads -> [version : Nat, read : Nat]]

IInv == NumbersOK /\ MutexOK /\ CacheOK /\ FindingOK /\ FoundOK /\ ReadingOK

(* The latest of the two times is one that uptodate() has compared. *)
LEMMA LatestIsOne ==
    ASSUME mtime \in [SysFiles -> Nat]
    PROVE  /\ Latest \in Nat
           /\ \E f \in SysFiles : mtime[f] = Latest
<1>1. PICK p \in {mtime["/etc/passwd"], mtime["/etc/group"]} :
          p >= mtime["/etc/passwd"] /\ p >= mtime["/etc/group"]
  <2>1. mtime["/etc/passwd"] \in Nat /\ mtime["/etc/group"] \in Nat
    BY DEF SysFiles
  <2> QED
    BY <2>1
<1>2. \E x \in {mtime[f] : f \in SysFiles} : \A y \in {mtime[f] : f \in SysFiles} : x >= y
  <2>1. p \in {mtime[f] : f \in SysFiles}
    BY <1>1 DEF SysFiles
  <2>2. \A y \in {mtime[f] : f \in SysFiles} : p >= y
    BY <1>1 DEF SysFiles
  <2> QED
    BY <2>1, <2>2
<1>3. Latest \in {mtime[f] : f \in SysFiles}
  BY <1>2 DEF Latest, Max
<1> QED
  BY <1>3

LEMMA InitIInv == Init => IInv
  BY BoundsAssumption, SMT
  DEF Init, IInv, NumbersOK, MutexOK, CacheOK, FindingOK, FoundOK, ReadingOK, Empty, Elem

LEMMA EnterIInv ==
    ASSUME IInv, NEW t \in Threads, NEW missing \in BOOLEAN, Enter(t, missing)
    PROVE  IInv'
<1> USE DEF IInv
<1>1. Latest \in Nat /\ \E f \in SysFiles : mtime[f] = Latest
  BY LatestIsOne DEF NumbersOK
<1>2. NumbersOK'
  BY <1>1 DEF NumbersOK, Enter, files
<1>3. MutexOK'
  BY NullAssumption DEF MutexOK, NumbersOK, Enter
<1>4. CacheOK'
  BY DEF CacheOK, Enter, files
<1>5. FindingOK'
  <2> SUFFICES ASSUME NEW s \in Threads, at'[s] = "finding", NEW u \in DOMAIN cache
               PROVE  Fresh(s, cache[u])'
    BY DEF FindingOK, Enter
  <2>1. CASE s = t
    <3>1. ~Outdated
      BY <2>1 DEF Enter, NumbersOK
    <3>2. Latest <= checktime
      BY <1>1, <3>1 DEF Outdated, NumbersOK
    <3>3. checktime <= cache[u].read /\ cache[u].read \in Nat
      BY DEF CacheOK
    <3>4. seen'[s].latest = Latest
      BY <2>1 DEF Enter, NumbersOK
    <3> QED
      BY <1>1, <3>2, <3>3, <3>4 DEF Fresh, NumbersOK, Enter
  <2>2. CASE s # t
    BY <2>2 DEF FindingOK, MutexOK, Fresh, Enter, NumbersOK
  <2> QED
    BY <2>1, <2>2
<1>6. FoundOK'
  BY DEF FoundOK, Enter
<1>7. ReadingOK'
  BY DEF ReadingOK, Fresh, Enter, NumbersOK
<1> QED
  BY <1>2, <1>3, <1>4, <1>5, <1>6, <1>7

LEMMA ClearIInv ==
    ASSUME IInv, NEW t \in Threads, Clear(t)
    PROVE  IInv'
<1> USE DEF IInv
<1>1. NumbersOK'
  BY DEF NumbersOK, Clear, files
<1>2. MutexOK'
  BY DEF MutexOK, NumbersOK, Clear
<1>3. CacheOK' /\ FindingOK'
  BY DEF CacheOK, FindingOK, Clear, Empty
<1>4. FoundOK' /\ ReadingOK'
  BY DEF FoundOK, ReadingOK, Fresh, Clear, NumbersOK
<1> QED
  BY <1>1, <1>2, <1>3, <1>4

(* A thread that leaves with a fresh element, and a cache of elements none of *)
(* which is older than those that were there.                                 *)
LEMMA LeaveIInv ==
    ASSUME IInv, NEW t \in Threads, at[t] = "finding",
           NEW e \in [version : Nat, read : Nat], Fresh(t, e), Leave(t, e),
           CacheOK'
    PROVE  IInv'
<1> USE DEF IInv
<1>1. NumbersOK'
  BY DEF NumbersOK, Leave, files
<1>2. MutexOK' /\ FindingOK'
  BY DEF MutexOK, FindingOK, NumbersOK, Leave
<1>3. FoundOK' /\ ReadingOK'
  BY DEF FoundOK, ReadingOK, Fresh, Leave, NumbersOK
<1> QED
  BY <1>1, <1>2, <1>3

LEMMA HitIInv ==
    ASSUME IInv, NEW t \in Threads, Hit(t)
    PROVE  IInv'
<1>1. CacheOK'
  BY DEF IInv, CacheOK, Hit, Leave, files
<1>2. cache[user[t]] \in [version : Nat, read : Nat] /\ Fresh(t, cache[user[t]])
  BY DEF IInv, CacheOK, FindingOK, Hit
<1> QED
  BY <1>1, <1>2, LeaveIInv DEF Hit

(* What is left when room is made was there before. *)
LEMMA RoomSmaller ==
    \A u \in DOMAIN Room.cache : u \in DOMAIN cache /\ Room.cache[u] = cache[u]
  BY DEF Room, Forget

LEMMA MissIInv ==
    ASSUME IInv, NEW t \in Threads, Miss(t)
    PROVE  IInv'
<1> DEFINE e == [version |-> version, read |-> now]
<1>1. e \in [version : Nat, read : Nat] /\ Fresh(t, e)
  BY DEF IInv, NumbersOK, Fresh
<1>2. CacheOK'
  <2>1. ASSUME NEW v \in DOMAIN cache'
        PROVE  cache'[v] = e \/ (v \in DOMAIN cache /\ cache'[v] = cache[v])
    BY RoomSmaller DEF Miss
  <2>2. version' = version /\ checktime' = checktime
    BY DEF Miss, Leave, files
  <2> QED
    BY <2>1, <2>2 DEF IInv, CacheOK, NumbersOK
<1> QED
  BY <1>1, <1>2, LeaveIInv DEF Miss

LEMMA FailIInv ==
    ASSUME IInv, NEW t \in Threads, Fail(t)
    PROVE  IInv'
<1> USE DEF IInv
<1>1. NumbersOK'
  BY DEF NumbersOK, Fail, files
<1>2. MutexOK' /\ FindingOK'
  BY DEF MutexOK, FindingOK, NumbersOK, Fail
<1>3. CacheOK'
  BY RoomSmaller DEF CacheOK, Fail, files
<1>4. FoundOK' /\ ReadingOK'
  BY DEF FoundOK, ReadingOK, Fresh, Fail, NumbersOK
<1> QED
  BY <1>1, <1>2, <1>3, <1>4

(* A call, the reading of the answer, and whatever the world does. *)
LEMMA OtherIInv ==
    ASSUME IInv,
           \/ \E t \in Threads, u \in Users : Call(t, u)
           \/ \E t \in Threads : Read(t)
           \/ Tick
           \/ \E f \in SysFiles : \E m \in 0..now : Change(f, m)
    PROVE  IInv'
<1> USE DEF IInv
<1>1. ASSUME NEW t \in Threads, NEW u \in Users, Call(t, u)
      PROVE  IInv'
  BY <1>1 DEF Call, NumbersOK, MutexOK, CacheOK, FindingOK, FoundOK, ReadingOK, Fresh,
              files, shared
<1>2. ASSUME NEW t \in Threads, Read(t)
      PROVE  IInv'
  <2>1. NumbersOK'
    BY <1>2 DEF Read, NumbersOK, files, shared
  <2>2. MutexOK' /\ CacheOK' /\ FindingOK'
    BY <1>2 DEF Read, NumbersOK, MutexOK, CacheOK, FindingOK, Fresh, files, shared
  <2>3. FoundOK' /\ ReadingOK'
    BY <1>2 DEF Read, NumbersOK, FoundOK, ReadingOK, Fresh, Elem
  <2> QED
    BY <2>1, <2>2, <2>3
<1>3. CASE Tick
  BY <1>3, BoundsAssumption
     DEF Tick, NumbersOK, MutexOK, CacheOK, FindingOK, FoundOK, ReadingOK, Fresh,
         shared, local
<1>4. ASSUME NEW f \in SysFiles, NEW m \in 0..now, Change(f, m)
      PROVE  IInv'
  <2>1. NumbersOK'
    BY <1>4 DEF Change, NumbersOK, shared, local
  <2>2. MutexOK' /\ FindingOK' /\ FoundOK' /\ ReadingOK'
    BY <1>4 DEF Change, MutexOK, FindingOK, FoundOK, ReadingOK, Fresh, shared, local
  <2>3. CacheOK'
    BY <1>4 DEF Change, CacheOK, NumbersOK, shared
  <2> QED
    BY <2>1, <2>2, <2>3
<1> QED
  BY <1>1, <1>2, <1>3, <1>4

LEMMA StutterIInv == IInv /\ UNCHANGED vars => IInv'
  BY DEF vars, files, shared, local, IInv, NumbersOK, MutexOK, CacheOK, FindingOK, FoundOK,
         ReadingOK, Fresh

LEMMA SpecIInv == Spec => []IInv
<1>1. ASSUME IInv, Next PROVE IInv'
  BY <1>1, EnterIInv, ClearIInv, HitIInv, MissIInv, FailIInv, OtherIInv DEF Next, Step
<1> QED
  BY <1>1, InitIInv, StutterIInv, PTL DEF Spec

(* get() answers with what the files said when it was called, or later, but  *)
(* for changes within the second in which the answer was read.               *)
THEOREM AnswersInTime == Spec => []OldOnlyWithinSecond
<1>1. IInv => OldOnlyWithinSecond
  BY DEF IInv, ReadingOK, Fresh, OldOnlyWithinSecond
<1> QED
  BY <1>1, SpecIInv, PTL

-----------------------------------------------------------------------------
(* The three members.  What hit and miss make of the queue. *)

(* Distinct, and the same keys: what QueueOfCache says of a queue q. *)
Once(q) == \A i, j \in DOMAIN q : q[i] = q[j] => i = j
In(q)   == {q[i] : i \in DOMAIN q}

(* u is in q, and whatever is in front of it is another one, of S. *)
Behind(q, u, S) == \E i \in DOMAIN q : q[i] = u /\ \A j \in 1..(i - 1) : q[j] \in S /\ q[j] # u

(* The queue with the element at p in front, and without its last. *)
Raised(q, p) == <<q[p]>> \o (SubSeq(q, 1, p - 1) \o SubSeq(q, p + 1, Len(q)))
Cut(q)       == SubSeq(q, 1, Len(q) - 1)
Pushed(q, u) == <<u>> \o q

LEMMA ToFront ==
    ASSUME NEW q \in Seq(Users), NEW p \in DOMAIN q
    PROVE  LET r == Raised(q, p) IN
           /\ r \in Seq(Users) /\ Len(r) = Len(q)
           /\ \A j \in 1..Len(q) : r[j] = q[IF j = 1 THEN p ELSE IF j <= p THEN j - 1 ELSE j]
  <1> DEFINE a == SubSeq(q, 1, p - 1)
             b == SubSeq(q, p + 1, Len(q))
             c == a \o b
             h == <<q[p]>>
             r == Raised(q, p)
  <1>1. p \in 1..Len(q) /\ Len(q) \in Nat /\ \A i \in 1..Len(q) : q[i] \in Users
    OBVIOUS
  <1>2. a \in Seq(Users) /\ Len(a) = p - 1 /\ \A i \in 1..(p - 1) : a[i] = q[i]
    <2>1. \A i \in 1..(p - 1) : q[i] \in Users
      BY <1>1
    <2>2. /\ a \in Seq(Users) /\ Len(a) = IF 1 <= p - 1 THEN p - 1 - 1 + 1 ELSE 0
          /\ \A i \in 1..(p - 1 - 1 + 1) : a[i] = q[1 + i - 1]
      BY <2>1, <1>1, SubSeqProperties
    <2>3. QED
      BY <2>2, <1>1
  <1>3. /\ b \in Seq(Users) /\ Len(b) = Len(q) - p
        /\ \A i \in 1..(Len(q) - p) : b[i] = q[p + i]
    <2>1. \A i \in (p + 1)..Len(q) : q[i] \in Users
      BY <1>1
    <2>2. /\ b \in Seq(Users) /\ Len(b) = IF p + 1 <= Len(q) THEN Len(q) - (p + 1) + 1 ELSE 0
          /\ \A i \in 1..(Len(q) - (p + 1) + 1) : b[i] = q[p + 1 + i - 1]
      BY <2>1, <1>1, SubSeqProperties
    <2>3. QED
      BY <2>2, <1>1
  <1> HIDE DEF a, b, c
  <1>4. /\ c \in Seq(Users) /\ Len(c) = Len(q) - 1
        /\ \A i \in 1..(Len(q) - 1) : c[i] = IF i <= p - 1 THEN q[i] ELSE q[i + 1]
    <2>1. /\ c \in Seq(Users) /\ Len(c) = Len(a) + Len(b)
          /\ \A i \in 1..(Len(a) + Len(b)) : c[i] = IF i <= Len(a) THEN a[i] ELSE b[i - Len(a)]
      BY <1>2, <1>3, ConcatProperties DEF c
    <2>a. Len(a) + Len(b) = Len(q) - 1
      BY <1>1, <1>2, <1>3
    <2>2. ASSUME NEW i \in 1..(Len(q) - 1)
          PROVE  c[i] = IF i <= p - 1 THEN q[i] ELSE q[i + 1]
      <3>0. c[i] = IF i <= p - 1 THEN a[i] ELSE b[i - (p - 1)]
        BY <2>1, <2>a, <1>2
      <3>1. CASE i <= p - 1
        <4>1. i \in 1..(p - 1)
          BY <3>1, <1>1
        <4>2. a[i] = q[i]
          BY <4>1, <1>2
        <4>3. QED
          BY <3>0, <3>1, <4>2
      <3>2. CASE ~(i <= p - 1)
        <4>1. i - (p - 1) \in 1..(Len(q) - p) /\ p + (i - (p - 1)) = i + 1
          BY <3>2, <1>1
        <4>2. b[i - (p - 1)] = q[i + 1]
          BY <4>1, <1>3
        <4>3. QED
          BY <3>0, <3>2, <4>2
      <3>3. QED
        BY <3>1, <3>2
    <2>3. QED
      BY <2>1, <2>2, <2>a
  <1>5. h \in Seq(Users) /\ Len(h) = 1 /\ h[1] = q[p]
    BY <1>1
  <1> HIDE DEF h, r
  <1>6. /\ r \in Seq(Users) /\ Len(r) = 1 + (Len(q) - 1)
        /\ \A i \in 1..(1 + (Len(q) - 1)) : r[i] = IF i <= 1 THEN h[i] ELSE c[i - 1]
    <2>0. r = h \o c
      BY DEF a, b, c, h, r, Raised
    <2>a. /\ h \o c \in Seq(Users) /\ Len(h \o c) = Len(h) + Len(c)
          /\ \A i \in 1..(Len(h) + Len(c)) :
                (h \o c)[i] = IF i <= Len(h) THEN h[i] ELSE c[i - Len(h)]
      BY <1>4, <1>5, ConcatProperties
    <2>1. /\ r \in Seq(Users) /\ Len(r) = Len(h) + Len(c)
          /\ \A i \in 1..(Len(h) + Len(c)) : r[i] = IF i <= Len(h) THEN h[i] ELSE c[i - Len(h)]
      BY <2>0, <2>a, Zenon
    <2>2. QED
      BY <2>1, <1>4, <1>5
  <1>7. ASSUME NEW j \in 1..Len(q)
        PROVE  r[j] = q[IF j = 1 THEN p ELSE IF j <= p THEN j - 1 ELSE j]
    <2>1. CASE j = 1
      BY <2>1, <1>1, <1>5, <1>6
    <2>2. CASE j # 1
      <3>1. j - 1 \in 1..(Len(q) - 1) /\ (j - 1 <= p - 1 <=> j <= p) /\ j - 1 + 1 = j
        BY <2>2, <1>1
      <3>2. r[j] = c[j - 1]
        BY <2>2, <1>1, <1>6
      <3>3. QED
        BY <3>1, <3>2, <2>2, <1>4
    <2>3. QED
      BY <2>1, <2>2
  <1>8. QED
    BY <1>1, <1>6, <1>7 DEF r

(* A new element in front. *)
LEMMA InFront ==
    ASSUME NEW q \in Seq(Users), NEW u \in Users
    PROVE  LET r == Pushed(q, u) IN
           /\ r \in Seq(Users) /\ Len(r) = Len(q) + 1
           /\ r[1] = u /\ \A j \in 1..Len(q) : r[j + 1] = q[j]
  <1> DEFINE h == <<u>>
  <1>1. h \in Seq(Users) /\ Len(h) = 1 /\ h[1] = u
    OBVIOUS
  <1> HIDE DEF h
  <1>2. /\ h \o q \in Seq(Users) /\ Len(h \o q) = Len(h) + Len(q)
        /\ \A i \in 1..(Len(h) + Len(q)) : (h \o q)[i] = IF i <= Len(h) THEN h[i] ELSE q[i - Len(h)]
    BY <1>1, ConcatProperties
  <1>3. Len(q) \in Nat
    OBVIOUS
  <1>4. \A j \in 1..Len(q) : (h \o q)[j + 1] = q[j]
    BY <1>1, <1>2, <1>3
  <1>5. QED
    BY <1>1, <1>2, <1>3, <1>4 DEF h, Pushed

(* The back of the queue taken away. *)
LEMMA BackOff ==
    ASSUME NEW q \in Seq(Users), Len(q) # 0
    PROVE  LET r == Cut(q) IN
           /\ r \in Seq(Users) /\ Len(r) = Len(q) - 1
           /\ \A j \in 1..(Len(q) - 1) : r[j] = q[j]
  <1>1. Len(q) \in Nat /\ \A i \in 1..(Len(q) - 1) : q[i] \in Users
    OBVIOUS
  <1>2. /\ Cut(q) \in Seq(Users)
        /\ Len(Cut(q)) = IF 1 <= Len(q) - 1 THEN Len(q) - 1 - 1 + 1 ELSE 0
        /\ \A i \in 1..(Len(q) - 1 - 1 + 1) : Cut(q)[i] = q[1 + i - 1]
    BY <1>1, SubSeqProperties DEF Cut
  <1>3. ASSUME NEW j \in 1..(Len(q) - 1) PROVE Cut(q)[j] = q[j]
    <2>1. j \in 1..(Len(q) - 1 - 1 + 1) /\ 1 + j - 1 = j
      BY <1>1
    <2>2. Cut(q)[j] = q[1 + j - 1]
      BY <1>2, <2>1
    <2>3. QED
      BY <2>1, <2>2
  <1>4. Len(Cut(q)) = Len(q) - 1
    <2>1. PICK n \in Nat : n = Len(q)
      BY <1>1
    <2>2. Len(Cut(q)) = IF 1 <= n - 1 THEN n - 1 - 1 + 1 ELSE 0
      BY <1>2, <2>1, Zenon
    <2>3. n # 0
      BY <2>1
    <2>4. QED
      BY <2>1, <2>2, <2>3
  <1>5. QED
    BY <1>2, <1>3, <1>4, Zenon

(* What a set has that is made of all of q but its last, and of one that is  *)
(* not in q.                                                                 *)
LEMMA AsManyOthers ==
    ASSUME NEW q \in Seq(Users), Once(q), Len(q) # 0, NEW v, v \notin In(q),
           NEW S, IsFiniteSet(S), v \in S, \A i \in 1..(Len(q) - 1) : q[i] \in S
    PROVE  Cardinality(S) >= Len(q)
  <1> DEFINE f == [i \in 1..Len(q) |-> IF i = Len(q) THEN v ELSE q[i]]
  <1>1. Len(q) \in Nat /\ DOMAIN q = 1..Len(q)
    OBVIOUS
  <1>2. f \in [1..Len(q) -> S]
    BY <1>1
  <1>3. \A i, j \in 1..Len(q) : f[i] = f[j] => i = j
    BY <1>1 DEF Once, In
  <1>4. f \in Injection(1..Len(q), S)
    BY <1>2, <1>3 DEF Injection, IsInjective
  <1>5. Cardinality(1..Len(q)) <= Cardinality(S)
    BY <1>4, FS_Injection
  <1>6. Cardinality(1..Len(q)) = Len(q)
    BY <1>1, FS_Interval
  <1>7. Cardinality(S) \in Nat
    BY FS_CardinalityType
  <1>8. QED
    BY <1>1, <1>5, <1>6, <1>7

LEMMA RaisedKeeps ==
    ASSUME NEW q \in Seq(Users), Once(q), NEW p \in DOMAIN q
    PROVE  /\ Raised(q, p) \in Seq(Users) /\ Len(Raised(q, p)) = Len(q)
           /\ Once(Raised(q, p)) /\ In(Raised(q, p)) = In(q)
           /\ \A u, S : Behind(q, u, S) => Behind(Raised(q, p), u, S \cup {q[p]})
  <1> DEFINE r == Raised(q, p)
             F(j) == IF j = 1 THEN p ELSE IF j <= p THEN j - 1 ELSE j
             G(i) == IF i = p THEN 1 ELSE IF i < p THEN i + 1 ELSE i
  <1>1. /\ r \in Seq(Users) /\ Len(r) = Len(q)
        /\ \A j \in 1..Len(q) : r[j] = q[F(j)]
    BY ToFront
  <1> HIDE DEF r
  <1>2. PICK n \in Nat : n = Len(q) /\ DOMAIN q = 1..n /\ DOMAIN r = 1..n /\ p \in 1..n
    BY <1>1
  <1>3. \A j \in 1..n : F(j) \in 1..n /\ G(F(j)) = j /\ G(j) \in 1..n /\ F(G(j)) = j
    BY <1>2
  <1>4. \A j \in 1..n : r[j] = q[F(j)] /\ r[G(j)] = q[j]
    BY <1>1, <1>2, <1>3
  <1>a. \A i \in 1..n : i < p => G(i) = i + 1
    BY <1>2
  <1>b. \A i \in 1..n : i > p => G(i) = i
    BY <1>2
  <1>c. G(p) = 1
    BY <1>2
  <1>d. \A j \in 2..n : j <= p => F(j) = j - 1
    BY <1>2
  <1>e. \A j \in 1..n : j > p /\ j # 1 => F(j) = j
    BY <1>2
  <1>f. F(1) = p
    OBVIOUS
  <1> HIDE DEF F, G
  <1>5. Once(r)
    <2>1. \A i, j \in 1..n : q[i] = q[j] => i = j
      BY <1>2 DEF Once
    <2>2. ASSUME NEW i \in 1..n, NEW j \in 1..n, r[i] = r[j] PROVE i = j
      <3>1. F(i) \in 1..n /\ F(j) \in 1..n /\ q[F(i)] = q[F(j)]
        BY <2>2, <1>3, <1>4
      <3>2. F(i) = F(j)
        BY <2>1, <3>1
      <3>3. QED
        BY <3>2, <1>3, Zenon
    <2>3. QED
      BY <2>2, <1>2 DEF Once
  <1>6. In(r) = In(q)
    BY <1>2, <1>3, <1>4 DEF In
  <1>7. ASSUME NEW u, NEW S, Behind(q, u, S)
        PROVE  Behind(r, u, S \cup {q[p]})
    <2>1. PICK i \in 1..n : q[i] = u /\ \A j \in 1..(i - 1) : q[j] \in S /\ q[j] # u
      BY <1>2, <1>7 DEF Behind
    <2>2. r[G(i)] = u /\ G(i) \in 1..n
      BY <1>3, <1>4, <2>1
    <2>3. ASSUME NEW j \in 1..(G(i) - 1)
          PROVE  r[j] \in S \cup {q[p]} /\ r[j] # u
      <3>1. j \in 1..n /\ j < G(i) /\ r[j] = q[F(j)] /\ F(j) \in 1..n
        BY <1>3, <1>4, <2>2
      <3>2. i # p
        BY <3>1, <1>c
      <3>3. F(j) = p \/ F(j) \in 1..(i - 1)
        <4>1. CASE j = 1
          BY <4>1, <1>f
        <4>2. CASE i < p
          BY <4>2, <3>1, <1>a, <1>d, <1>f, <1>2
        <4>3. CASE i > p /\ j # 1
          BY <4>3, <3>1, <1>b, <1>d, <1>e, <1>2
        <4>4. QED
          BY <4>1, <4>2, <4>3, <3>2, <1>2
      <3>4. q[p] # u
        BY <3>2, <2>1, <1>2 DEF Once
      <3>5. QED
        BY <3>1, <3>3, <3>4, <2>1
    <2>4. QED
      BY <2>2, <2>3, <1>2 DEF Behind
  <1>8. QED
    BY <1>1, <1>5, <1>6, <1>7 DEF r

LEMMA PushedKeeps ==
    ASSUME NEW q \in Seq(Users), Once(q), NEW v \in Users, v \notin In(q)
    PROVE  /\ Pushed(q, v) \in Seq(Users) /\ Len(Pushed(q, v)) = Len(q) + 1
           /\ Once(Pushed(q, v)) /\ In(Pushed(q, v)) = In(q) \cup {v}
           /\ \A u, S : Behind(q, u, S) => Behind(Pushed(q, v), u, S \cup {v})
           /\ \A S : Behind(Pushed(q, v), v, S)
  <1> DEFINE r == Pushed(q, v)
  <1>1. /\ r \in Seq(Users) /\ Len(r) = Len(q) + 1
        /\ r[1] = v /\ \A j \in 1..Len(q) : r[j + 1] = q[j]
    BY InFront
  <1> HIDE DEF r
  <1>2. PICK n \in Nat : n = Len(q) /\ DOMAIN q = 1..n /\ DOMAIN r = 1..(n + 1)
    BY <1>1
  <1>3. \A j \in 1..(n + 1) : j = 1 \/ (j - 1 \in 1..n /\ r[j] = q[j - 1])
    <2>1. ASSUME NEW j \in 1..(n + 1), j # 1 PROVE j - 1 \in 1..n /\ r[j] = q[j - 1]
      <3>1. j - 1 \in 1..n /\ (j - 1) + 1 = j
        BY <2>1
      <3>2. r[(j - 1) + 1] = q[j - 1]
        BY <3>1, <1>1, <1>2
      <3>3. QED
        BY <3>1, <3>2
    <2>2. QED
      BY <2>1
  <1>4. \A j \in 1..n : q[j] # v /\ j + 1 \in 1..(n + 1) /\ r[j + 1] = q[j]
    BY <1>1, <1>2 DEF In
  <1>5. Once(r)
    <2>1. ASSUME NEW i \in 1..(n + 1), NEW j \in 1..(n + 1), r[i] = r[j] PROVE i = j
      <3>1. \A k, l \in 1..n : q[k] = q[l] => k = l
        BY <1>2 DEF Once
      <3>2. i = 1 \/ (i - 1 \in 1..n /\ r[i] = q[i - 1])
        BY <1>3
      <3>3. j = 1 \/ (j - 1 \in 1..n /\ r[j] = q[j - 1])
        BY <1>3
      <3>4. i = 1 <=> j = 1
        BY <2>1, <3>2, <3>3, <1>1, <1>4
      <3>5. i # 1 => i - 1 = j - 1
        BY <2>1, <3>1, <3>2, <3>3, <3>4
      <3>6. QED
        BY <3>4, <3>5
    <2>2. QED
      BY <2>1, <1>2 DEF Once
  <1>6. In(r) = In(q) \cup {v}
    <2>1. In(r) \subseteq In(q) \cup {v}
      <3>1. ASSUME NEW j \in 1..(n + 1) PROVE r[j] \in In(q) \cup {v}
        <4>1. CASE j = 1
          BY <4>1, <1>1
        <4>2. CASE j # 1
          <5>1. j - 1 \in DOMAIN q /\ r[j] = q[j - 1]
            BY <4>2, <1>2, <1>3
          <5>2. QED
            BY <5>1 DEF In
        <4>3. QED
          BY <4>1, <4>2
      <3>2. In(r) = {r[j] : j \in 1..(n + 1)}
        BY <1>2 DEF In
      <3>3. QED
        BY <3>1, <3>2
    <2>2. In(q) \subseteq In(r) /\ v \in In(r)
      BY <1>1, <1>2, <1>4 DEF In
    <2>3. QED
      BY <2>1, <2>2
  <1>7. ASSUME NEW u, NEW S, Behind(q, u, S)
        PROVE  Behind(r, u, S \cup {v})
    <2>1. PICK i \in 1..n : q[i] = u /\ \A j \in 1..(i - 1) : q[j] \in S /\ q[j] # u
      BY <1>2, <1>7 DEF Behind
    <2>2. i + 1 \in 1..(n + 1) /\ r[i + 1] = u /\ u # v
      BY <1>4, <2>1
    <2>3. ASSUME NEW j \in 1..(i + 1 - 1)
          PROVE  r[j] \in S \cup {v} /\ r[j] # u
      <3>1. CASE j = 1
        BY <3>1, <1>1, <2>2
      <3>2. CASE j # 1
        <4>1. j - 1 \in 1..(i - 1) /\ j \in 1..(n + 1)
          BY <3>2
        <4>2. QED
          BY <4>1, <3>2, <1>3, <2>1
      <3>3. QED
        BY <3>1, <3>2
    <2>4. QED
      BY <2>2, <2>3, <1>2 DEF Behind
  <1>8. ASSUME NEW S PROVE Behind(r, v, S)
    <2>1. 1 \in DOMAIN r /\ r[1] = v /\ \A j \in 1..(1 - 1) : r[j] \in S /\ r[j] # v
      BY <1>1, <1>2
    <2>2. QED
      BY <2>1 DEF Behind
  <1>9. QED
    BY <1>1, <1>5, <1>6, <1>7, <1>8 DEF r

LEMMA CutKeeps ==
    ASSUME NEW q \in Seq(Users), Once(q), Len(q) # 0
    PROVE  /\ Cut(q) \in Seq(Users) /\ Len(Cut(q)) = Len(q) - 1
           /\ Once(Cut(q)) /\ In(Cut(q)) = In(q) \ {q[Len(q)]}
           /\ \A u, S : Behind(q, u, S) /\ u # q[Len(q)] => Behind(Cut(q), u, S)
  <1> DEFINE r == Cut(q)
  <1>1. r \in Seq(Users) /\ Len(r) = Len(q) - 1 /\ \A j \in 1..(Len(q) - 1) : r[j] = q[j]
    BY BackOff
  <1> HIDE DEF r
  <1>2. PICK n \in Nat : n = Len(q) /\ n # 0 /\ DOMAIN q = 1..n /\ DOMAIN r = 1..(n - 1)
    BY <1>1
  <1>3. \A j \in 1..(n - 1) : j \in 1..n /\ j # n /\ r[j] = q[j]
    BY <1>1, <1>2
  <1>4. n \in 1..n /\ \A j \in 1..n : j = n \/ j \in 1..(n - 1)
    BY <1>2
  <1>5. Once(r)
    BY <1>2, <1>3 DEF Once
  <1>6. In(r) = In(q) \ {q[n]}
    <2>1. \A i, j \in 1..n : q[i] = q[j] => i = j
      BY <1>2 DEF Once
    <2>2. In(r) = {r[j] : j \in 1..(n - 1)} /\ In(q) = {q[j] : j \in 1..n}
      BY <1>2 DEF In
    <2>3. \A j \in 1..(n - 1) : r[j] \in {q[i] : i \in 1..n} /\ r[j] # q[n]
      BY <1>3, <1>4, <2>1
    <2>4. \A j \in 1..n : j = n \/ q[j] \in {r[i] : i \in 1..(n - 1)}
      BY <1>3, <1>4
    <2>5. QED
      BY <2>2, <2>3, <2>4
  <1>7. ASSUME NEW u, NEW S, Behind(q, u, S), u # q[n]
        PROVE  Behind(r, u, S)
    <2>1. PICK i \in 1..n : q[i] = u /\ \A j \in 1..(i - 1) : q[j] \in S /\ q[j] # u
      BY <1>2, <1>7 DEF Behind
    <2>2. i \in 1..(n - 1)
      BY <1>4, <1>7, <2>1
    <2>3. \A j \in 1..(i - 1) : j \in 1..(n - 1)
      BY <2>2
    <2>4. QED
      BY <2>1, <2>2, <2>3, <1>2, <1>3 DEF Behind
  <1>8. QED
    BY <1>1, <1>2, <1>5, <1>6, <1>7 DEF r

-----------------------------------------------------------------------------
(* The members agree, and an element goes only when it is the oldest. *)

(* What is asked for, and what has been asked for since. *)
AskedOK ==
    /\ \A t \in Threads : at[t] # "idle" => user[t] \in Users
    /\ since \in [Threads -> SUBSET Users] /\ \A t \in Threads : IsFiniteSet(since[t])
    /\ cleared \in [Threads -> BOOLEAN]

(* An element in hand is in the queue, behind others that were asked for     *)
(* since; ...                                                                *)
LiveOK == \A t \in Threads : at[t] = "reading" /\ live[t] => Behind(queue, user[t], since[t])

(* ... and one that is gone went for a reason. *)
Reason(t) == cleared[t] \/ Cardinality(since[t] \ {user[t]}) >= MaxElems

MInv == IInv /\ TypeOK /\ QueueOfCache /\ AskedOK /\ LiveOK /\ GoneOnlyForReason

LEMMA QueueSays ==
    QueueOfCache <=> nelems = Len(queue) /\ In(queue) = DOMAIN cache /\ Once(queue)
  BY DEF QueueOfCache, In, Once

(* More that was asked for is no less of a reason. *)
LEMMA MoreReason ==
    ASSUME NEW S, IsFiniteSet(S), NEW T, IsFiniteSet(T), S \subseteq T,
           Cardinality(S) >= MaxElems
    PROVE  Cardinality(T) >= MaxElems
  <1>1. Cardinality(S) <= Cardinality(T)
    BY FS_Subset
  <1>2. Cardinality(S) \in Nat /\ Cardinality(T) \in Nat
    BY FS_CardinalityType
  <1>3. QED
    BY <1>1, <1>2, BoundsAssumption

LEMMA SinceGrows ==
    ASSUME NEW S, IsFiniteSet(S), NEW v, NEW u
    PROVE  /\ IsFiniteSet(S \cup {v}) /\ IsFiniteSet((S \cup {v}) \ {u})
           /\ IsFiniteSet(S \ {u})
           /\ Cardinality(S \ {u}) >= MaxElems => Cardinality((S \cup {v}) \ {u}) >= MaxElems
  <1>1. IsFiniteSet(S \cup {v})
    BY FS_AddElement
  <1>2. IsFiniteSet((S \cup {v}) \ {u}) /\ IsFiniteSet(S \ {u})
    BY <1>1, FS_Subset
  <1>3. S \ {u} \subseteq (S \cup {v}) \ {u}
    OBVIOUS
  <1>4. QED
    BY <1>1, <1>2, <1>3, MoreReason

(* What make room leaves: one place. *)
LEMMA RoomIs ==
    ASSUME MInv, NEW t \in Threads, at[t] = "finding", user[t] \notin DOMAIN cache
    PROVE  /\ Room.queue \in Seq(Users) /\ Once(Room.queue)
           /\ In(Room.queue) = DOMAIN Room.cache /\ user[t] \notin In(Room.queue)
           /\ Room.nelems = Len(Room.queue) + 1 /\ Room.nelems \in 1..MaxElems
           /\ \A u \in DOMAIN Room.cache : Room.cache[u] \in Elems
  <1>1. queue \in Seq(Users) /\ nelems = Len(queue) /\ nelems \in 0..MaxElems
        /\ In(queue) = DOMAIN cache /\ Once(queue) /\ \A u \in DOMAIN cache : cache[u] \in Elems
    BY QueueSays DEF MInv, TypeOK
  <1>2. CASE Full
    <2>1. Len(queue) # 0 /\ nelems = MaxElems
      BY <1>1, <1>2, BoundsAssumption DEF Full
    <2>2. Room.queue = Cut(queue) /\ Room.nelems = nelems /\ Room.cache = Forget(Back)
      BY <1>2 DEF Room, Cut
    <2>3. /\ Cut(queue) \in Seq(Users) /\ Len(Cut(queue)) = Len(queue) - 1
          /\ Once(Cut(queue)) /\ In(Cut(queue)) = In(queue) \ {queue[Len(queue)]}
      BY <1>1, <2>1, CutKeeps
    <2>4. DOMAIN Forget(Back) = DOMAIN cache \ {queue[Len(queue)]}
      BY DEF Forget, Back
    <2>5. nelems = Len(Cut(queue)) + 1 /\ nelems \in 1..MaxElems
      <3>1. PICK n \in Nat : n = Len(queue) /\ n = nelems
        BY <1>1, BoundsAssumption
      <3>2. QED
        BY <2>1, <2>3, <3>1, BoundsAssumption
    <2>6. \A u \in DOMAIN Forget(Back) : Forget(Back)[u] \in Elems
      BY <1>1 DEF Forget
    <2>7. In(Cut(queue)) = DOMAIN Forget(Back) /\ user[t] \notin In(Cut(queue))
      BY <1>1, <2>3, <2>4
    <2>8. QED
      BY <2>2, <2>3, <2>5, <2>6, <2>7
  <1>3. CASE ~Full
    <2>1. Room.queue = queue /\ Room.nelems = nelems + 1 /\ Room.cache = cache
      BY <1>3 DEF Room
    <2>2. nelems # MaxElems
      BY <1>3 DEF Full
    <2>3. nelems + 1 = Len(queue) + 1 /\ nelems + 1 \in 1..MaxElems
      BY <1>1, <2>2, BoundsAssumption
    <2>4. QED
      BY <1>1, <2>1, <2>3
  <1>4. QED
    BY <1>2, <1>3

(* Whoever is still left with its element, and whoever is not. *)
LEMMA RoomLeaves ==
    ASSUME MInv, NEW t \in Threads, at[t] = "finding", user[t] \notin DOMAIN cache,
           NEW s \in Threads, at[s] = "reading"
    PROVE  /\ LiveWithRoom[s] => Behind(Room.queue, user[s], since[s])
           /\ ~LiveWithRoom[s] =>
                 cleared[s] \/ Cardinality((since[s] \cup {user[t]}) \ {user[s]}) >= MaxElems
  <1>1. queue \in Seq(Users) /\ nelems = Len(queue) /\ nelems \in 0..MaxElems
        /\ In(queue) = DOMAIN cache /\ Once(queue)
    BY QueueSays DEF MInv, TypeOK
  <1>2. IsFiniteSet(since[s])
    BY DEF MInv, AskedOK
  <1>3. LiveWithRoom[s] <=> live[s] /\ ~(Full /\ user[s] = Back)
    BY DEF LiveWithRoom, Left
  <1>4. CASE live[s]
    <2>1. Behind(queue, user[s], since[s])
      BY <1>4 DEF MInv, LiveOK
    <2>2. CASE Full
      <3>1. Len(queue) # 0 /\ Len(queue) = MaxElems
        BY <1>1, <2>2, BoundsAssumption DEF Full
      <3>2. Room.queue = Cut(queue)
        BY <2>2 DEF Room, Cut
      <3>3. CASE user[s] # Back
        <4>1. Behind(Cut(queue), user[s], since[s])
          BY <1>1, <2>1, <3>1, <3>3, CutKeeps DEF Back
        <4>2. QED
          BY <4>1, <3>2, <3>3, <1>3, <1>4
      <3>4. CASE user[s] = Back
        <4>1. PICK i \in DOMAIN queue :
                /\ queue[i] = user[s]
                /\ \A j \in 1..(i - 1) : queue[j] \in since[s] /\ queue[j] # user[s]
          BY <2>1 DEF Behind
        <4>2. i = Len(queue)
          BY <1>1, <3>1, <3>4, <4>1 DEF Once, Back
        <4>3. user[s] \in In(queue)
          BY <4>1 DEF In
        <4> DEFINE S == (since[s] \cup {user[t]}) \ {user[s]}
        <4>4. IsFiniteSet(S) /\ user[t] \in S /\ user[t] \notin In(queue)
          BY <1>1, <1>2, <4>3, SinceGrows
        <4>5. \A j \in 1..(Len(queue) - 1) : queue[j] \in S
          BY <4>1, <4>2
        <4> HIDE DEF S
        <4>6. Cardinality(S) >= Len(queue)
          BY <4>4, <4>5, <1>1, <3>1, AsManyOthers
        <4>7. QED
          BY <4>6, <3>1, <1>3, <2>2, <3>4 DEF S
      <3>5. QED
        BY <3>3, <3>4
    <2>3. CASE ~Full
      BY <2>1, <2>3, <1>3, <1>4 DEF Room
    <2>4. QED
      BY <2>2, <2>3
  <1>5. CASE ~live[s]
    <2>1. cleared[s] \/ Cardinality(since[s] \ {user[s]}) >= MaxElems
      BY <1>5 DEF MInv, GoneOnlyForReason
    <2>2. QED
      BY <1>2, <1>3, <1>5, <2>1, SinceGrows
  <1>6. QED
    BY <1>4, <1>5

(* A thread that leaves with the element u, which is in front. *)
LEMMA LeaveKeeps ==
    ASSUME MInv, NEW t \in Threads, at[t] = "finding", NEW e \in Elems, Leave(t, e),
           queue' \in Seq(Users), nelems' \in 0..MaxElems, nelems' = Len(queue'),
           Once(queue'), In(queue') = DOMAIN cache', \A u \in DOMAIN cache' : cache'[u] \in Elems,
           cache' = [u \in DOMAIN cache' |-> cache'[u]],
           live' \in [Threads -> BOOLEAN], live'[t], \A S : Behind(queue', user[t], S),
           \A s \in Threads \ {t} : at[s] = "reading" =>
              /\ live'[s] => Behind(queue', user[s], since[s] \cup {user[t]})
              /\ ~live'[s] => cleared[s]
                      \/ Cardinality((since[s] \cup {user[t]}) \ {user[s]}) >= MaxElems,
           IInv'
    PROVE  MInv'
  <1>1. /\ user[t] \in Users /\ user' = user /\ at' = [at EXCEPT ![t] = "reading"]
        /\ at \in [Threads -> {"idle", "locking", "clearing", "finding", "reading"}]
    BY DEF MInv, AskedOK, Leave, IInv, NumbersOK
  <1>2. TypeOK'
    <2>1. cache' \in [DOMAIN cache' -> Elems]
      OBVIOUS
    <2>2. \A s \in Threads : mutex' = s <=> at'[s] \in {"clearing", "finding"}
      <3>1. ASSUME NEW s \in Threads PROVE mutex' # s /\ at'[s] \notin {"clearing", "finding"}
        <4>1. mutex' = NoThread /\ mutex = t
          BY DEF MInv, TypeOK, Leave
        <4>2. s # t => at'[s] = at[s] /\ at[s] \notin {"clearing", "finding"}
          BY <4>1, <1>1 DEF MInv, TypeOK
        <4>3. s = t => at'[s] = "reading"
          BY <1>1
        <4>4. QED
          BY <4>1, <4>2, <4>3, NullAssumption
      <3>2. QED
        BY <3>1
    <2>3. found' \in [Threads -> Elems]
      BY DEF MInv, TypeOK, Leave
    <2>4. QED
      BY <2>1, <2>2, <2>3 DEF MInv, TypeOK, Leave, files
  <1>3. QueueOfCache'
    BY DEF QueueOfCache, Once, In
  <1>4. ASSUME NEW s \in Threads
        PROVE  since'[s] = IF s = t THEN {}
                           ELSE IF at[s] = "reading" THEN since[s] \cup {user[t]} ELSE since[s]
    BY DEF Leave, Left
  <1>5. AskedOK'
    <2>1. \A s \in Threads : at'[s] # "idle" => user'[s] \in Users
      BY <1>1 DEF MInv, AskedOK
    <2>2. since' \in [Threads -> SUBSET Users]
      <3>1. \A s \in Threads : since'[s] \in SUBSET Users
        BY <1>1, <1>4 DEF MInv, AskedOK
      <3>2. since' = [s \in Threads |-> since'[s]]
        BY DEF Leave
      <3>3. QED
        BY <3>1, <3>2
    <2>3. ASSUME NEW s \in Threads PROVE IsFiniteSet(since'[s])
      <3>1. IsFiniteSet(since[s]) /\ IsFiniteSet({})
        BY FS_EmptySet DEF MInv, AskedOK
      <3>2. IsFiniteSet(since[s] \cup {user[t]})
        BY <3>1, FS_AddElement
      <3>3. QED
        BY <1>4, <3>1, <3>2
    <2>4. cleared' \in [Threads -> BOOLEAN]
      BY DEF MInv, AskedOK, Leave
    <2>5. QED
      BY <2>1, <2>2, <2>3, <2>4 DEF AskedOK
  <1>6. ASSUME NEW s \in Threads, at'[s] = "reading"
        PROVE  /\ live'[s] => Behind(queue', user'[s], since'[s])
               /\ ~live'[s] => cleared'[s] \/ Cardinality(since'[s] \ {user'[s]}) >= MaxElems
    <2>1. CASE s = t
      BY <2>1, <1>1, <1>4
    <2>2. CASE s # t
      <3>1. at[s] = "reading" /\ cleared'[s] = cleared[s] /\ since'[s] = since[s] \cup {user[t]}
        BY <2>2, <1>1, <1>4, <1>6 DEF MInv, AskedOK, Leave
      <3>2. QED
        BY <2>2, <3>1, <1>1
    <2>3. QED
      BY <2>1, <2>2
  <1>7. LiveOK' /\ GoneOnlyForReason'
    BY <1>6 DEF LiveOK, GoneOnlyForReason
  <1>8. QED
    BY <1>2, <1>3, <1>5, <1>7 DEF MInv

LEMMA MissKeeps ==
    ASSUME MInv, NEW t \in Threads, Miss(t)
    PROVE  MInv'
  <1> DEFINE u == user[t]
             e == [version |-> version, read |-> now]
  <1>1. at[t] = "finding" /\ u \notin DOMAIN cache /\ u \in Users
    BY DEF Miss, MInv, AskedOK
  <1>2. /\ Room.queue \in Seq(Users) /\ Once(Room.queue)
        /\ In(Room.queue) = DOMAIN Room.cache /\ u \notin In(Room.queue)
        /\ Room.nelems = Len(Room.queue) + 1 /\ Room.nelems \in 1..MaxElems
        /\ \A v \in DOMAIN Room.cache : Room.cache[v] \in Elems
    BY <1>1, RoomIs
  <1>3. queue' = Pushed(Room.queue, u)
    BY DEF Miss, Pushed
  <1>4. /\ Pushed(Room.queue, u) \in Seq(Users)
        /\ Len(Pushed(Room.queue, u)) = Len(Room.queue) + 1
        /\ Once(Pushed(Room.queue, u))
        /\ In(Pushed(Room.queue, u)) = In(Room.queue) \cup {u}
        /\ \A S : Behind(Pushed(Room.queue, u), u, S)
    BY <1>1, <1>2, PushedKeeps
  <1>5. \A v, S : Behind(Room.queue, v, S) => Behind(Pushed(Room.queue, u), v, S \cup {u})
    BY <1>1, <1>2, PushedKeeps
  <1>6. e \in Elems
    BY DEF MInv, TypeOK, Elems
  <1>7. /\ cache' = [v \in DOMAIN Room.cache \cup {u} |-> IF v = u THEN e ELSE Room.cache[v]]
        /\ nelems' = Room.nelems /\ live' = [LiveWithRoom EXCEPT ![t] = TRUE] /\ Leave(t, e)
    BY DEF Miss
  <1>8. LiveWithRoom \in [Threads -> BOOLEAN]
    BY DEF LiveWithRoom, MInv, TypeOK
  <1>9. /\ live' \in [Threads -> BOOLEAN] /\ live'[t]
        /\ \A s \in Threads \ {t} : live'[s] = LiveWithRoom[s]
    BY <1>7, <1>8
  <1>10. ASSUME NEW s \in Threads \ {t}, at[s] = "reading"
         PROVE  /\ live'[s] => Behind(queue', user[s], since[s] \cup {user[t]})
                /\ ~live'[s] => cleared[s]
                        \/ Cardinality((since[s] \cup {user[t]}) \ {user[s]}) >= MaxElems
    <2>1. /\ LiveWithRoom[s] => Behind(Room.queue, user[s], since[s])
          /\ ~LiveWithRoom[s] =>
                 cleared[s] \/ Cardinality((since[s] \cup {user[t]}) \ {user[s]}) >= MaxElems
      BY <1>1, <1>10, RoomLeaves
    <2>2. QED
      BY <2>1, <1>3, <1>5, <1>9
  <1>11. DOMAIN cache' = DOMAIN Room.cache \cup {u} /\ \A v \in DOMAIN cache' : cache'[v] \in Elems
    BY <1>2, <1>6, <1>7
  <1>12. cache' = [v \in DOMAIN cache' |-> cache'[v]]
    BY <1>7
  <1>13. nelems' = Len(queue') /\ nelems' \in 0..MaxElems
    BY <1>2, <1>3, <1>4, <1>7
  <1>14. IInv'
    BY MissIInv DEF MInv
  <1>15. In(queue') = DOMAIN cache'
    BY <1>2, <1>3, <1>4, <1>11
  <1> HIDE DEF e, u
  <1>16. QED
    BY <1>1, <1>3, <1>4, <1>6, <1>7, <1>9, <1>10, <1>11, <1>12, <1>13, <1>14, <1>15,
       LeaveKeeps DEF u

LEMMA HitKeeps ==
    ASSUME MInv, NEW t \in Threads, Hit(t)
    PROVE  MInv'
  <1> DEFINE u == user[t]
             p == Place(u)
             e == cache[u]
  <1>1. at[t] = "finding" /\ u \in DOMAIN cache /\ u \in Users
    BY DEF Hit, MInv, AskedOK
  <1>2. queue \in Seq(Users) /\ nelems = Len(queue) /\ nelems \in 0..MaxElems
        /\ In(queue) = DOMAIN cache /\ Once(queue) /\ \A v \in DOMAIN cache : cache[v] \in Elems
    BY QueueSays DEF MInv, TypeOK
  <1>3. p \in DOMAIN queue /\ queue[p] = u
    <2>1. \E i \in DOMAIN queue : queue[i] = u
      BY <1>1, <1>2 DEF In
    <2>2. QED
      BY <2>1 DEF Place
  <1>4. /\ queue' = <<u>> \o Without(p) /\ live' = [live EXCEPT ![t] = TRUE]
        /\ Leave(t, e) /\ UNCHANGED <<nelems, cache>>
    BY DEF Hit
  <1> HIDE DEF u, p, e
  <1>5. queue' = Raised(queue, p)
    BY <1>3, <1>4 DEF Raised, Without
  <1>6. /\ Raised(queue, p) \in Seq(Users) /\ Len(Raised(queue, p)) = Len(queue)
        /\ Once(Raised(queue, p)) /\ In(Raised(queue, p)) = In(queue)
        /\ \A v, S : Behind(queue, v, S) => Behind(Raised(queue, p), v, S \cup {u})
    BY <1>2, <1>3, RaisedKeeps
  <1>7. ASSUME NEW S PROVE Behind(queue', u, S)
    <2>1. queue'[1] = u /\ 1 \in DOMAIN queue'
      <3>1. \A j \in 1..Len(queue) : 
                 Raised(queue, p)[j] = queue[IF j = 1 THEN p ELSE IF j <= p THEN j - 1 ELSE j]
        BY <1>2, <1>3, ToFront
      <3>2. 1 \in 1..Len(queue)
        BY <1>2, <1>3
      <3>3. queue'[1] = queue[p]
        BY <3>1, <3>2, <1>5
      <3>4. DOMAIN queue' = 1..Len(queue)
        BY <1>5, <1>6
      <3>5. QED
        BY <3>2, <3>3, <3>4, <1>3
    <2>2. \A j \in 1..(1 - 1) : queue'[j] \in S /\ queue'[j] # u
      OBVIOUS
    <2>3. QED
      BY <2>1, <2>2 DEF Behind
  <1>8. e \in Elems
    BY <1>1, <1>2 DEF e
  <1>9. live' \in [Threads -> BOOLEAN] /\ live'[t] /\ \A s \in Threads \ {t} : live'[s] = live[s]
    BY <1>4 DEF MInv, TypeOK
  <1>10. ASSUME NEW s \in Threads \ {t}, at[s] = "reading"
         PROVE  /\ live'[s] => Behind(queue', user[s], since[s] \cup {u})
                /\ ~live'[s] => cleared[s]
                        \/ Cardinality((since[s] \cup {u}) \ {user[s]}) >= MaxElems
    <2>1. live'[s] => Behind(queue', user[s], since[s] \cup {u})
      BY <1>5, <1>6, <1>9, <1>10 DEF MInv, LiveOK
    <2>2. ~live'[s] => cleared[s] \/ Cardinality(since[s] \ {user[s]}) >= MaxElems
      BY <1>9, <1>10 DEF MInv, GoneOnlyForReason
    <2>3. IsFiniteSet(since[s])
      BY DEF MInv, AskedOK
    <2>4. QED
      BY <2>1, <2>2, <2>3, SinceGrows
  <1>11. /\ cache' = [v \in DOMAIN cache' |-> cache'[v]] /\ DOMAIN cache' = DOMAIN cache
         /\ \A v \in DOMAIN cache' : cache'[v] \in Elems
    <2>1. cache = [v \in DOMAIN cache |-> cache[v]]
      BY DEF MInv, TypeOK
    <2>2. QED
      BY <2>1, <1>2, <1>4
  <1>12. nelems' = Len(queue') /\ nelems' \in 0..MaxElems
    BY <1>2, <1>4, <1>5, <1>6
  <1>13. IInv'
    BY HitIInv DEF MInv
  <1>14. In(queue') = DOMAIN cache'
    BY <1>2, <1>5, <1>6, <1>11
  <1>15. QED
    BY <1>1, <1>4, <1>5, <1>6, <1>7, <1>8, <1>9, <1>10, <1>11, <1>12, <1>13, <1>14, LeaveKeeps DEF u

(* The exception leaves the element of nobody, and the place that was made.  *)
LEMMA FailKeeps ==
    ASSUME MInv, NEW t \in Threads, Fail(t)
    PROVE  MInv'
  <1> DEFINE u == user[t]
  <1>1. at[t] = "finding" /\ u \notin DOMAIN cache /\ u \in Users
    BY DEF Fail, MInv, AskedOK
  <1>2. /\ Room.queue \in Seq(Users) /\ Once(Room.queue)
        /\ In(Room.queue) = DOMAIN Room.cache
        /\ Room.nelems = Len(Room.queue) + 1 /\ Room.nelems \in 1..MaxElems
        /\ \A v \in DOMAIN Room.cache : Room.cache[v] \in Elems
    BY <1>1, RoomIs
  <1>3. at \in [Threads -> {"idle", "locking", "clearing", "finding", "reading"}]
    BY DEF MInv, IInv, NumbersOK
  <1>4. /\ at' = [at EXCEPT ![t] = "idle"] /\ user' = [user EXCEPT ![t] = NoUser]
        /\ mutex' = NoThread /\ live' = LiveWithRoom /\ cleared' = cleared
        /\ since' = [s \in Threads |-> IF Left(s) THEN since[s] \cup {u} ELSE since[s]]
        /\ queue' = Room.queue /\ cache' = Room.cache /\ nelems' = Room.nelems - 1
        /\ UNCHANGED <<files, checktime, found>>
    BY DEF Fail
  <1> HIDE DEF u
  <1>5. TypeOK'
    <2>1. cache' \in [DOMAIN cache' -> Elems]
      <3>1. Room.cache = [v \in DOMAIN Room.cache |-> Room.cache[v]]
        BY DEF Room, Forget, MInv, TypeOK
      <3>2. QED
        BY <3>1, <1>2, <1>4
    <2>2. ASSUME NEW s \in Threads PROVE mutex' # s /\ at'[s] \notin {"clearing", "finding"}
      <3>1. mutex = t /\ mutex' # s
        BY <1>1, <1>4, NullAssumption DEF MInv, TypeOK
      <3>2. s # t => at'[s] = at[s] /\ at[s] \notin {"clearing", "finding"}
        BY <3>1, <1>3, <1>4 DEF MInv, TypeOK
      <3>3. s = t => at'[s] = "idle"
        BY <1>3, <1>4
      <3>4. QED
        BY <3>1, <3>2, <3>3
    <2>3. LiveWithRoom \in [Threads -> BOOLEAN]
      BY DEF LiveWithRoom, MInv, TypeOK
    <2>4. nelems' \in 0..MaxElems
      BY <1>2, <1>4, BoundsAssumption
    <2>5. user' \in [Threads -> Users \cup {NoUser}]
      BY <1>4 DEF MInv, TypeOK
    <2>6. QED
      BY <2>1, <2>2, <2>3, <2>4, <2>5, <1>2, <1>4 DEF MInv, TypeOK, files
  <1>6. QueueOfCache'
    <2>1. nelems' = Len(queue')
      BY <1>2, <1>4
    <2>2. In(queue') = DOMAIN cache' /\ Once(queue')
      BY <1>2, <1>4
    <2>3. QED
      BY <2>1, <2>2 DEF QueueOfCache, In, Once
  <1>7. \A s \in Threads : since'[s] = IF Left(s) THEN since[s] \cup {u} ELSE since[s]
    BY <1>4
  <1>8. AskedOK'
    <2>1. since' \in [Threads -> SUBSET Users]
      <3>1. \A s \in Threads : since'[s] \in SUBSET Users
        BY <1>1, <1>7 DEF MInv, AskedOK
      <3>2. QED
        BY <3>1, <1>4
    <2>2. ASSUME NEW s \in Threads PROVE IsFiniteSet(since'[s])
      <3>1. IsFiniteSet(since[s])
        BY DEF MInv, AskedOK
      <3>2. IsFiniteSet(since[s] \cup {u})
        BY <3>1, FS_AddElement
      <3>3. QED
        BY <1>7, <3>1, <3>2
    <2>3. ASSUME NEW s \in Threads, at'[s] # "idle" PROVE user'[s] \in Users
      BY <2>3, <1>3, <1>4 DEF MInv, AskedOK, TypeOK
    <2>4. QED
      BY <2>1, <2>2, <2>3, <1>4 DEF AskedOK, MInv
  <1>9. ASSUME NEW s \in Threads, at'[s] = "reading"
        PROVE  /\ live'[s] => Behind(queue', user'[s], since'[s])
               /\ ~live'[s] => cleared'[s] \/ Cardinality(since'[s] \ {user'[s]}) >= MaxElems
    <2>1. s # t /\ at[s] = "reading" /\ user'[s] = user[s]
      BY <1>9, <1>3, <1>4 DEF MInv, TypeOK
    <2>2. /\ LiveWithRoom[s] => Behind(Room.queue, user[s], since[s])
          /\ ~LiveWithRoom[s] =>
                 cleared[s] \/ Cardinality((since[s] \cup {user[t]}) \ {user[s]}) >= MaxElems
      BY <1>1, <2>1, RoomLeaves DEF u
    <2>3. since'[s] = since[s] \cup {u}
      BY <1>7, <2>1 DEF Left
    <2>4. Behind(Room.queue, user[s], since[s]) => Behind(Room.queue, user[s], since[s] \cup {u})
      BY DEF Behind
    <2>5. QED
      BY <2>1, <2>2, <2>3, <2>4, <1>4 DEF u
  <1>10. LiveOK' /\ GoneOnlyForReason'
    BY <1>9 DEF LiveOK, GoneOnlyForReason
  <1>11. QED
    BY <1>5, <1>6, <1>8, <1>10, FailIInv DEF MInv

(* The steps that leave the three members alone, and those who are reading.  *)
LEMMA OthersKeep ==
    ASSUME MInv, IInv', TypeOK', AskedOK', UNCHANGED <<nelems, queue, cache>>,
           \A s \in Threads : at'[s] = "reading" =>
              /\ at[s] = "reading" /\ live'[s] = live[s] /\ user'[s] = user[s]
              /\ since'[s] = since[s] /\ cleared'[s] = cleared[s]
    PROVE  MInv'
  <1>1. QueueOfCache'
    BY DEF MInv, QueueOfCache
  <1>2. ASSUME NEW s \in Threads, at'[s] = "reading"
        PROVE  /\ live'[s] => Behind(queue', user'[s], since'[s])
               /\ ~live'[s] => cleared'[s] \/ Cardinality(since'[s] \ {user'[s]}) >= MaxElems
    <2>1. /\ live[s] => Behind(queue, user[s], since[s])
          /\ ~live[s] => cleared[s] \/ Cardinality(since[s] \ {user[s]}) >= MaxElems
      BY <1>2 DEF MInv, LiveOK, GoneOnlyForReason
    <2>2. QED
      BY <2>1, <1>2
  <1>3. LiveOK' /\ GoneOnlyForReason'
    BY <1>2 DEF LiveOK, GoneOnlyForReason
  <1>4. QED
    BY <1>1, <1>3 DEF MInv

LEMMA CallKeeps ==
    ASSUME MInv, NEW t \in Threads, NEW u \in Users, Call(t, u)
    PROVE  MInv'
  <1>1. /\ at' = [at EXCEPT ![t] = "locking"] /\ at[t] = "idle"
        /\ user' = [user EXCEPT ![t] = u]
        /\ UNCHANGED <<files, shared, found, live, since, cleared>>
    BY DEF Call
  <1>2. /\ at \in [Threads -> {"idle", "locking", "clearing", "finding", "reading"}]
        /\ user \in [Threads -> Users \cup {NoUser}]
    BY DEF MInv, IInv, NumbersOK
  <1>3. \A s \in Threads : (s # t /\ at'[s] = at[s] /\ user'[s] = user[s])
                        \/ (s = t /\ at'[s] = "locking" /\ user'[s] = u)
    BY <1>1, <1>2
  <1>4. TypeOK'
    BY <1>1, <1>2, <1>3 DEF MInv, TypeOK, files, shared
  <1>5. AskedOK'
    BY <1>1, <1>3 DEF MInv, AskedOK
  <1>6. IInv'
    BY OtherIInv DEF MInv
  <1>7. QED
    BY <1>1, <1>3, <1>4, <1>5, <1>6, OthersKeep DEF shared

LEMMA ReadKeeps ==
    ASSUME MInv, NEW t \in Threads, Read(t)
    PROVE  MInv'
  <1>1. /\ at' = [at EXCEPT ![t] = "idle"] /\ at[t] = "reading"
        /\ user' = [user EXCEPT ![t] = NoUser] /\ found' = [found EXCEPT ![t] = Elem]
        /\ live' = [live EXCEPT ![t] = FALSE] /\ since' = [since EXCEPT ![t] = {}]
        /\ cleared' = [cleared EXCEPT ![t] = FALSE]
        /\ UNCHANGED <<files, shared>>
    BY DEF Read
  <1>2. /\ at \in [Threads -> {"idle", "locking", "clearing", "finding", "reading"}]
        /\ user \in [Threads -> Users \cup {NoUser}] /\ live \in [Threads -> BOOLEAN]
        /\ since \in [Threads -> SUBSET Users] /\ cleared \in [Threads -> BOOLEAN]
        /\ found \in [Threads -> Elems]
    BY DEF MInv, IInv, NumbersOK, TypeOK, AskedOK
  <1>3. \A s \in Threads :
           \/ /\ s # t /\ at'[s] = at[s] /\ user'[s] = user[s] /\ live'[s] = live[s]
              /\ since'[s] = since[s] /\ cleared'[s] = cleared[s]
           \/ s = t /\ at'[s] = "idle" /\ user'[s] = NoUser /\ since'[s] = {}
    BY <1>1, <1>2
  <1>4. Elem \in Elems
    BY BoundsAssumption DEF Elem, Elems, Versions, Times
  <1>5. TypeOK'
    <2>1. /\ found' \in [Threads -> Elems] /\ live' \in [Threads -> BOOLEAN]
          /\ user' \in [Threads -> Users \cup {NoUser}]
      BY <1>1, <1>2, <1>4
    <2>2. \A s \in Threads : mutex' = s <=> at'[s] \in {"clearing", "finding"}
      BY <1>1, <1>3 DEF MInv, TypeOK, shared
    <2>3. QED
      BY <2>1, <2>2, <1>1 DEF MInv, TypeOK, files, shared
  <1>6. AskedOK'
    <2>1. since' \in [Threads -> SUBSET Users] /\ cleared' \in [Threads -> BOOLEAN]
      BY <1>1, <1>2
    <2>2. \A s \in Threads : IsFiniteSet(since'[s])
      BY <1>3, FS_EmptySet DEF MInv, AskedOK
    <2>3. QED
      BY <2>1, <2>2, <1>3 DEF MInv, AskedOK
  <1>7. IInv'
    BY OtherIInv DEF MInv
  <1>8. QED
    BY <1>1, <1>3, <1>5, <1>6, <1>7, OthersKeep DEF shared

LEMMA EnterKeeps ==
    ASSUME MInv, NEW t \in Threads, NEW missing \in BOOLEAN, Enter(t, missing)
    PROVE  MInv'
  <1>1. /\ at[t] = "locking" /\ mutex = NoThread /\ mutex' = t
        /\ at' = [at EXCEPT ![t] = IF missing \/ Outdated THEN "clearing" ELSE "finding"]
        /\ UNCHANGED <<files, checktime, nelems, queue, cache, user, found, live, since, cleared>>
    BY DEF Enter
  <1>2. at \in [Threads -> {"idle", "locking", "clearing", "finding", "reading"}]
    BY DEF MInv, IInv, NumbersOK
  <1>3. \A s \in Threads : (s # t /\ at'[s] = at[s]) \/ (s = t /\ at'[s] \in {"clearing", "finding"})
    BY <1>1, <1>2
  <1>4. TypeOK'
    <2>1. \A s \in Threads : mutex' = s <=> at'[s] \in {"clearing", "finding"}
      BY <1>1, <1>3, NullAssumption DEF MInv, TypeOK
    <2>2. QED
      BY <2>1, <1>1 DEF MInv, TypeOK, files
  <1>5. AskedOK'
    BY <1>1, <1>3 DEF MInv, AskedOK
  <1>6. IInv'
    BY EnterIInv DEF MInv
  <1>7. QED
    BY <1>1, <1>3, <1>4, <1>5, <1>6, OthersKeep

LEMMA ClearKeeps ==
    ASSUME MInv, NEW t \in Threads, Clear(t)
    PROVE  MInv'
  <1>1. /\ at[t] = "clearing" /\ checktime' = now
        /\ nelems' = 0 /\ queue' = <<>> /\ cache' = Empty
        /\ live' = [s \in Threads |-> live[s] /\ ~Left(s)]
        /\ cleared' = [s \in Threads |-> cleared[s] \/ Left(s)]
        /\ at' = [at EXCEPT ![t] = "finding"]
        /\ UNCHANGED <<files, mutex, user, found, since>>
    BY DEF Clear
  <1>2. at \in [Threads -> {"idle", "locking", "clearing", "finding", "reading"}]
    BY DEF MInv, IInv, NumbersOK
  <1>3. \A s \in Threads : (s # t /\ at'[s] = at[s]) \/ (s = t /\ at'[s] = "finding")
    BY <1>1, <1>2
  <1>4. TypeOK'
    <2>1. \A s \in Threads : mutex' = s <=> at'[s] \in {"clearing", "finding"}
      BY <1>1, <1>3 DEF MInv, TypeOK
    <2>2. live' \in [Threads -> BOOLEAN]
      BY <1>1 DEF MInv, TypeOK
    <2>3. cache' \in [DOMAIN cache' -> Elems] /\ queue' \in Seq(Users)
      BY <1>1 DEF Empty
    <2>4. nelems' \in 0..MaxElems /\ checktime' \in 0..now'
      BY <1>1, BoundsAssumption DEF MInv, TypeOK, Times, files
    <2>5. QED
      BY <2>1, <2>2, <2>3, <2>4, <1>1 DEF MInv, TypeOK, files
  <1>5. QueueOfCache'
    BY <1>1 DEF QueueOfCache, Empty
  <1>6. AskedOK'
    BY <1>1, <1>3 DEF MInv, AskedOK
  <1>7. \A s \in Threads : at'[s] = "reading" => ~live'[s] /\ cleared'[s]
    BY <1>1, <1>3 DEF Left
  <1>8. LiveOK' /\ GoneOnlyForReason'
    BY <1>7 DEF LiveOK, GoneOnlyForReason
  <1>9. QED
    BY <1>4, <1>5, <1>6, <1>8, ClearIInv DEF MInv

(* The world changes nothing of get's. *)
LEMMA WorldKeeps ==
    ASSUME MInv, Tick \/ (\E f \in SysFiles : \E m \in 0..now : Change(f, m))
    PROVE  MInv'
  <1>1. UNCHANGED <<shared, local>>
    BY DEF Tick, Change
  <1>2. TypeOK'
    <2>1. CASE Tick
      <3>1. now' \in Times /\ 0..now \subseteq 0..now'
        BY <2>1, BoundsAssumption DEF Tick, Times, MInv, TypeOK
      <3>2. QED
        BY <2>1, <3>1 DEF Tick, MInv, TypeOK, shared, local
    <2>2. ASSUME NEW f \in SysFiles, NEW m \in 0..now, Change(f, m) PROVE TypeOK'
      <3>1. version' \in Versions
        BY <2>2, BoundsAssumption DEF Change, Versions, MInv, TypeOK
      <3>2. m \in Times
        BY BoundsAssumption DEF Times, MInv, TypeOK
      <3>3. mtime' \in [SysFiles -> Times] /\ now' = now
        BY <2>2, <3>2 DEF Change, MInv, TypeOK
      <3>4. QED
        BY <3>1, <3>3, <1>1 DEF MInv, TypeOK, shared, local
    <2>3. QED
      BY <2>1, <2>2
  <1>3. AskedOK'
    BY <1>1 DEF MInv, AskedOK, local
  <1>4. IInv'
    BY OtherIInv DEF MInv
  <1>5. QED
    BY <1>1, <1>2, <1>3, <1>4, OthersKeep DEF shared, local

LEMMA InitMInv == Init => MInv
  <1>1. ASSUME Init PROVE TypeOK
    BY <1>1, BoundsAssumption, NullAssumption
       DEF Init, TypeOK, Times, Versions, Elems, Elem, Empty
  <1>2. ASSUME Init PROVE QueueOfCache
    BY <1>2 DEF Init, QueueOfCache, Empty
  <1>3. ASSUME Init PROVE AskedOK /\ LiveOK /\ GoneOnlyForReason
    BY <1>3, FS_EmptySet DEF Init, AskedOK, LiveOK, GoneOnlyForReason
  <1>4. QED
    BY <1>1, <1>2, <1>3, InitIInv DEF MInv

LEMMA NextMInv == MInv /\ [Next]_vars => MInv'
  <1> SUFFICES ASSUME MInv, [Next]_vars PROVE MInv'
    OBVIOUS
  <1>1. CASE Next
    BY <1>1, CallKeeps, EnterKeeps, ClearKeeps, HitKeeps, MissKeeps, FailKeeps, ReadKeeps,
       WorldKeeps DEF Next, Step
  <1>2. CASE UNCHANGED vars
    <2>1. UNCHANGED <<files, shared, local>>
      BY <1>2 DEF vars
    <2>2. IInv'
      BY <1>2, StutterIInv DEF MInv
    <2>3. TypeOK'
      BY <2>1 DEF MInv, TypeOK, files, shared, local
    <2>4. AskedOK'
      BY <2>1 DEF MInv, AskedOK, local
    <2>5. QED
      BY <2>1, <2>2, <2>3, <2>4, OthersKeep DEF shared, local
  <1>3. QED
    BY <1>1, <1>2

LEMMA SpecMInv == Spec => []MInv
  BY InitMInv, NextMInv, PTL DEF Spec

(* The members of SContextCache have their types, and its mutex is held by   *)
(* the one thread that is between the lock and the unlock of get().          *)
THEOREM Types == Spec => []TypeOK
<1>1. MInv => TypeOK
  BY DEF MInv
<1> QED
  BY <1>1, SpecMInv, PTL

(* queue, cache and nelems agree, whatever get() has evicted, moved, cleared *)
(* or failed to read.                                                        *)
THEOREM MembersAgree == Spec => []QueueOfCache
<1>1. MInv => QueueOfCache
  BY DEF MInv
<1> QED
  BY <1>1, SpecMInv, PTL

(* The element that get() reads after the unlock is gone only if the cache   *)
(* was cleared meanwhile, or as many other users were asked for as it holds. *)
THEOREM GoneForReason == Spec => []GoneOnlyForReason
<1>1. MInv => GoneOnlyForReason
  BY DEF MInv
<1> QED
  BY <1>1, SpecMInv, PTL
=============================================================================
