---------------------------- MODULE FsTxnProofs ----------------------------
(***************************************************************************)
(* FsTxn, for any number of threads, names, ids and pages, with any number *)
(* of crashes and aborted transactions: the type invariant and the four    *)
(* invariants about what transactions keep together.                       *)
(*                                                                         *)
(* The inductive invariant has four parts.  Rest: the steps a thread has   *)
(* left are the end of one of the five handlers, and each mknod under way  *)
(* has an id left to give.  Locks: what a thread holds, and that it holds  *)
(* the pages of what it has changed, and of the node of a directory before *)
(* that of its entries.  Counts: in memory, nlink is the                   *)
(* number of names, but for the one that addchild has yet to make and for  *)
(* what crashes tore.  Logged: there is a function from the positions of   *)
(* the log to states of the disk that begins with the disk, follows the    *)
(* records one by one, and ends with the memory but for what is not        *)
(* committed; in each of those states the counts are off by one at most    *)
(* where a name went without its count.  A crash leaves one of them.       *)
(***************************************************************************)
EXTENDS FsTxn, FiniteSetTheorems, SequenceTheorems, WellFoundedInduction, TLAPS

(* Where a thread is in its handler: its next step. *)
AtOf(q) == IF q = <<>> THEN "idle" ELSE Head(q)
At(t)   == AtOf(todo[t])

(* The steps that are left from there; three handlers look up a parent. *)
StepsFrom(p, op) ==
    CASE p = "nodes"          -> <<"nodes">>
      [] p = "directories"    -> <<"directories", "nodes">>
      [] p = "addchild"       -> <<"addchild", "directories", "nodes">>
      [] p = "list"           -> <<"list", "directories", "nodes">>
      [] p = "get"            -> <<"get", "directories", "nodes">>
      [] p = "put"            -> <<"put", "addchild", "directories", "nodes">>
      [] p = "last"           -> <<"last", "put", "addchild", "directories", "nodes">>
      [] p = "createregister" -> <<"createregister", "last", "put", "addchild", "directories", "nodes">>
      [] p = "node"           -> <<"node", "addchild", "directories", "nodes">>
      [] p = "parent" /\ op = "mknod" -> MknodSteps
      [] p = "parent" /\ op = "link"  -> LinkSteps
      [] p = "parent" /\ op \notin {"mknod", "link"} -> ReaddirSteps
      [] OTHER                -> <<>>

Making  == {"parent", "createregister", "last", "put"}
Finding == {"parent", "node", "get"}
Ends    == {"directories", "nodes"}
Stages  == {"idle", "node", "get", "list", "addchild"} \cup Making \cup Ends

After(p, op) ==
    CASE p = "parent"         -> IF op = "mknod" THEN "createregister"
                                 ELSE IF op = "link" THEN "node" ELSE "list"
      [] p = "createregister" -> "last"
      [] p = "last"           -> "put"
      [] p = "put"            -> "addchild"
      [] p = "node"           -> "addchild"
      [] p \in {"addchild", "get", "list"} -> "directories"
      [] p = "directories"    -> "nodes"
      [] OTHER                -> "idle"

CallType == [op : {"none", "mknod", "link", "unlink", "getattr", "readdir"},
             key : Keys \cup {NoNode}, node : Files \cup {NoNode}, by : Keys \cup {NoNode},
             done : BOOLEAN]

RecordType == [db : Ends, node : Files, key : Keys, value : Nat \cup Files \cup {NoNode}]

(* What is true of the handler that t runs. *)
Runs(t) ==
    /\ At(t) \in Stages /\ todo[t] = StepsFrom(At(t), call[t].op)
    /\ At(t) = "idle" <=> call[t] = NoCall
    /\ At(t) = "idle" <=> call[t].op = "none"
    /\ call[t].op \notin {"none", "getattr"} => call[t].key \in Keys
    /\ call[t].op \in {"link", "getattr"} => call[t].by \in Keys /\ call[t].node \in Files
    /\ At(t) \in {"createregister", "last", "put"} => call[t].op = "mknod"
    /\ At(t) = "node" => call[t].op = "link"
    /\ At(t) = "get" => call[t].op = "getattr"
    /\ At(t) = "list" => call[t].op = "readdir"
    /\ At(t) = "parent" => call[t].op \in {"mknod", "link", "readdir"}
    /\ At(t) = "addchild" => call[t].op \in {"mknod", "link"}
    /\ At(t) \in {"put", "addchild"} \/ call[t].done => call[t].node \in Files
    /\ call[t].done => At(t) \in Ends /\ call[t].key \in Keys
    /\ cold[t] # {} => At(t) \in Finding /\ cold[t] \subseteq DOMAIN Way(t)

(* The handler of t has changed the count of its node, and keeps the change. *)
Busy(t)   == At(t) = "addchild" \/ (At(t) \in Ends /\ call[t].done)
Has(t, n) == call[t].node = n /\ Busy(t)

(* The page of a directory is only read after that of its node. *)
Guarded(t) ==
    \A d \in Dirs : holder[D(d)] = t => \E e \in Dirs : D(e) = D(d) /\ holder[N(e)] = t

Found == {"createregister", "last", "put", "node", "addchild", "list"}

(* The locks of t, and what it needs them for. *)
Owns(t) ==
    /\ creating = t <=> At(t) \in {"last", "put"}
    /\ \A x \in Items :
          holder[x] = t => At(t) # "idle" /\ (x[1] = "directories" => At(t) # "nodes")
    /\ Guarded(t)
    /\ At(t) \in Found => holder[N(Dir(t))] = t
    /\ At(t) = "put" => call[t].node = Last + 1 /\ holder[N(Last)] = t
    /\ \A n \in Files : Has(t, n) => holder[N(n)] = t
    /\ At(t) = "directories" /\ call[t].done => holder[D(Dir(t))] = t

Locks ==
    /\ holder \in [Items -> Threads \cup {NoThread}]
    /\ creating \in Threads \cup {NoThread}
    /\ \A t \in Threads : Owns(t)

Makers == {t \in Threads : call[t].op = "mknod" /\ At(t) \in Making}

(* A link is counted before its name is made. *)
Adding(n) == \E t \in Threads : At(t) = "addchild" /\ call[t].node = n
Off(nl, e, n) == nl[n] - Count(e, n)

Gap(n) == Off(nlink, entry, n) - (IF Adding(n) THEN 1 ELSE 0)

Counts ==
    /\ nlink \in [Files -> Nat] /\ entry \in [Keys -> Files \cup {NoNode}]
    /\ \A n \in Files : /\ n \notin torn => Gap(n) = 0
                        /\ Gap(n) \in -crashes..crashes
                        /\ Adding(n) => nlink[n] > 0

(* A state of the databases on disk, and what a record makes of it. *)
Start == [nlink |-> disk.nlink, entry |-> disk.entry, half |-> half]

Write(B, r) ==
    IF r.db = "nodes"
    THEN [nlink |-> [B.nlink EXCEPT ![r.node] = r.value], entry |-> B.entry,
          half |-> B.half \ {r.node}]
    ELSE [nlink |-> B.nlink, entry |-> [B.entry EXCEPT ![r.key] = r.value],
          half |-> B.half \cup {r.node}]

Sane(B) ==
    /\ B.nlink \in [Files -> Nat] /\ B.entry \in [Keys -> Files \cup {NoNode}]
    /\ B.half \subseteq Files
    /\ \A n \in Files :
          LET off == Off(B.nlink, B.entry, n)
              most == (IF n \in torn THEN crashes ELSE 0) + (IF n \in B.half THEN 1 ELSE 0)
          IN  off \in -most..most

(* A name is made or removed: never is one node's name given to another. *)
Switches(e, k, v, n) == {e[k], v} = {n, NoNode}

Fits(B, r) ==
    /\ r.node \in Files
    /\ \/ /\ r.db = "nodes" /\ r.value \in Nat
          /\ r.node \in B.half
       \/ /\ r.db = "directories" /\ r.key \in Keys
          /\ r.node \notin B.half /\ Switches(B.entry, r.key, r.value, r.node)

Committing(t, p) == At(t) = p /\ call[t].done

Meets(B) ==
    /\ \A k \in Keys :
          \/ /\ B.entry[k] = entry[k]
             /\ \A t \in Threads : Committing(t, "directories") => call[t].key # k
          \/ \E t \in Threads : /\ Committing(t, "directories") /\ call[t].key = k
                                /\ Switches(B.entry, k, entry[k], call[t].node)
    /\ \A n \in Files :
          /\ n \in B.half <=> \E t \in Threads : Committing(t, "nodes") /\ call[t].node = n
          /\ Adding(n) => nlink[n] = B.nlink[n] + 1
          /\ (\A t \in Threads : ~Has(t, n)) => nlink[n] = B.nlink[n]

Replay(f) ==
    /\ f[0] = Start
    /\ \A i \in 1..Len(log) : f[i] = Write(f[i - 1], log[i]) /\ Fits(f[i - 1], log[i])
    /\ \A i \in 0..Len(log) : Sane(f[i])
    /\ Meets(f[Len(log)])

Rest ==
    /\ DOMAIN todo = Threads /\ DOMAIN cold = Threads /\ call \in [Threads -> CallType]
    /\ \A t \in Threads : Runs(t)
    /\ Last + Cardinality(Makers) <= MaxId
    /\ torn \subseteq Files /\ crashes \in 0..MaxCrashes
    /\ log \in Seq(RecordType) /\ Len(log) <= MaxLog
    /\ disk \in [nlink : [Files -> Nat], entry : [Keys -> Files \cup {NoNode}]]

Logged == \E f : Replay(f)

IInv == Rest /\ Locks /\ Counts /\ Logged

-----------------------------------------------------------------------------
(* Induction, for sets. *)

(* Every nonempty set of naturals has a least element. *)
LEMMA LeastNatural ==
    ASSUME NEW T, T \subseteq Nat, T # {}
    PROVE  \E m \in T : \A k \in T : m <= k
  <1>1. IsWellFoundedOn(OpToRel(<, Nat), Nat)
    BY NatLessThanWellFounded
  <1>2. PICK m \in T : \A k \in T : ~(<<k, m>> \in OpToRel(<, Nat))
    BY <1>1, WFMin
  <1>3. \A k \in T : ~(k < m)
    BY <1>2 DEF OpToRel
  <1>4. QED
    BY <1>3

(* Induction, for a set instead of a predicate. *)
LEMMA SetInduction ==
    ASSUME NEW n \in Nat, NEW T, 0 \in T, \A i \in 0..(n - 1) : i \in T => i + 1 \in T
    PROVE  0..n \subseteq T
  <1> DEFINE B == (0..n) \ T
  <1>1. SUFFICES ASSUME B # {} PROVE FALSE
    OBVIOUS
  <1>a. B \subseteq Nat
    OBVIOUS
  <1> HIDE DEF B
  <1>2. PICK m \in B : \A k \in B : m <= k
    BY <1>1, <1>a, LeastNatural
  <1> USE DEF B
  <1>3. m # 0 /\ m - 1 \in 0..(n - 1) /\ m - 1 \notin B
    BY <1>2
  <1>4. QED
    BY <1>2, <1>3

(* The greatest element of a bounded set of naturals, and the least one. *)
LEMMA MaxOf ==
    ASSUME NEW n \in Nat, NEW S, S \subseteq 0..n, S # {}
    PROVE  Max(S) \in S /\ \A y \in S : Max(S) >= y
  <1> DEFINE T == {n - x : x \in S}
  <1>1. \A x \in S : x \in Int /\ 0 <= x /\ x <= n
    OBVIOUS
  <1>2. T \subseteq Nat
    BY <1>1
  <1>3. T # {} /\ \A y \in S : n - y \in T
    OBVIOUS
  <1>4. \A k \in T : \E y \in S : k = n - y
    OBVIOUS
  <1> HIDE DEF T
  <1>5. PICK m \in T : \A k \in T : m <= k
    BY <1>2, <1>3, LeastNatural
  <1>6. PICK x \in S : m = n - x
    BY <1>4
  <1>7. ASSUME NEW y \in S PROVE x >= y
    <2>1. m <= n - y
      BY <1>3, <1>5
    <2>2. QED
      BY <2>1, <1>1, <1>6
  <1>8. QED
    BY <1>7 DEF Max

LEMMA MinOf ==
    ASSUME NEW S, S \subseteq Nat, S # {}
    PROVE  Min(S) \in S /\ \A y \in S : Min(S) <= y
  <1>1. PICK m \in S : \A k \in S : m <= k
    BY LeastNatural
  <1>2. QED
    BY <1>1 DEF Min

LastOf(nl) == Max(Dirs \cup {n \in Files : nl[n] > 0})

(* The last register: a directory, or a file with links. *)
LEMMA LastIs ==
    ASSUME NEW nl
    PROVE  /\ LastOf(nl) \in Ids
           /\ LastOf(nl) \in Dirs \/ (LastOf(nl) \in Files /\ nl[LastOf(nl)] > 0)
           /\ \A d \in Dirs : d <= LastOf(nl)
           /\ \A n \in Files : nl[n] > 0 => n <= LastOf(nl)
           /\ LastOf(nl) < MaxId => LastOf(nl) + 1 \in Files
  <1> DEFINE S == Dirs \cup {n \in Files : nl[n] > 0}
  <1>1. S \subseteq Ids /\ S # {} /\ LastOf(nl) = Max(S)
    BY IdsAssumption DEF Files, LastOf
  <1>2. Max(S) \in S /\ \A y \in S : Max(S) >= y
    BY <1>1, MaxOf, IdsAssumption DEF Ids
  <1>3. S \subseteq Int
    BY <1>1 DEF Ids
  <1> HIDE DEF LastOf
  <1>4. \A y \in S : y <= LastOf(nl) /\ LastOf(nl) \in S
    BY <1>1, <1>2, <1>3
  <1>5. \A d \in Dirs : d <= LastOf(nl)
    BY <1>4
  <1>6. LastOf(nl) \in Ids
    BY <1>1, <1>4
  <1>7. LastOf(nl) < MaxId => LastOf(nl) + 1 \in Files
    <2>1. LastOf(nl) < MaxId => LastOf(nl) + 1 \in Ids
      BY <1>6, IdsAssumption DEF Ids
    <2>2. LastOf(nl) + 1 \notin Dirs
      BY <1>5, <1>6 DEF Ids
    <2>3. QED
      BY <2>1, <2>2 DEF Files
  <1>8. QED
    BY <1>1, <1>4, <1>5, <1>6, <1>7

(* Counts that differ only where there are links before and after have the   *)
(* same last register.                                                       *)
LEMMA LastSame ==
    ASSUME NEW nl \in [Files -> Nat], NEW nm \in [Files -> Nat],
           \A n \in Files : nl[n] > 0 <=> nm[n] > 0
    PROVE  LastOf(nm) = LastOf(nl)
  <1>1. {n \in Files : nl[n] > 0} = {n \in Files : nm[n] > 0}
    OBVIOUS
  <1>2. QED
    BY <1>1 DEF LastOf

-----------------------------------------------------------------------------
(* The steps of a handler. *)

(* The steps of the handlers, written out. *)
LEMMA FiveAndTwo ==
    ASSUME NEW a, NEW b, NEW c, NEW d, NEW e, NEW x, NEW y
    PROVE  <<a, b, c, d, e>> \o <<x, y>> = <<a, b, c, d, e, x, y>>
  <1> DEFINE S == {a, b, c, d, e, x, y}
             q == <<a, b, c, d, e>> \o <<x, y>>
             u == <<a, b, c, d, e, x, y>>
  <1>1. <<a, b, c, d, e>> \in Seq(S) /\ <<x, y>> \in Seq(S) /\ u \in Seq(S)
    OBVIOUS
  <1>2. Len(<<a, b, c, d, e>>) = 5 /\ Len(<<x, y>>) = 2 /\ Len(u) = 7
    OBVIOUS
  <1>3. q \in Seq(S) /\ Len(q) = Len(u)
    BY <1>1, <1>2
  <1>4. \A i \in 1..7 : q[i] = u[i]
    BY <1>1, <1>2
  <1>5. \A i \in 1..Len(q) : q[i] = u[i]
    BY <1>2, <1>3, <1>4
  <1>6. u \in Seq(S)
    BY <1>1
  <1> HIDE DEF q, u
  <1>7. q = u
    BY <1>3, <1>5, <1>6, SeqEqual
  <1>8. QED
    BY <1>7 DEF q, u

LEMMA ThreeAndTwo ==
    ASSUME NEW a, NEW b, NEW c, NEW x, NEW y
    PROVE  <<a, b, c>> \o <<x, y>> = <<a, b, c, x, y>>
  <1> DEFINE S == {a, b, c, x, y}
             q == <<a, b, c>> \o <<x, y>>
             u == <<a, b, c, x, y>>
  <1>1. <<a, b, c>> \in Seq(S) /\ <<x, y>> \in Seq(S) /\ u \in Seq(S)
    OBVIOUS
  <1>2. Len(<<a, b, c>>) = 3 /\ Len(<<x, y>>) = 2 /\ Len(u) = 5
    OBVIOUS
  <1>3. q \in Seq(S) /\ Len(q) = Len(u)
    BY <1>1, <1>2
  <1>4. \A i \in 1..5 : q[i] = u[i]
    BY <1>1, <1>2
  <1>5. \A i \in 1..Len(q) : q[i] = u[i]
    BY <1>2, <1>3, <1>4
  <1>6. u \in Seq(S)
    BY <1>1
  <1> HIDE DEF q, u
  <1>7. q = u
    BY <1>3, <1>5, <1>6, SeqEqual
  <1>8. QED
    BY <1>7 DEF q, u

LEMMA TwoAndTwo ==
    ASSUME NEW a, NEW b, NEW x, NEW y
    PROVE  <<a, b>> \o <<x, y>> = <<a, b, x, y>>
  <1> DEFINE S == {a, b, x, y}
             q == <<a, b>> \o <<x, y>>
             u == <<a, b, x, y>>
  <1>1. <<a, b>> \in Seq(S) /\ <<x, y>> \in Seq(S) /\ u \in Seq(S)
    OBVIOUS
  <1>2. Len(<<a, b>>) = 2 /\ Len(<<x, y>>) = 2 /\ Len(u) = 4
    OBVIOUS
  <1>3. q \in Seq(S) /\ Len(q) = Len(u)
    BY <1>1, <1>2
  <1>4. \A i \in 1..4 : q[i] = u[i]
    BY <1>1, <1>2
  <1>5. \A i \in 1..Len(q) : q[i] = u[i]
    BY <1>2, <1>3, <1>4
  <1>6. u \in Seq(S)
    BY <1>1
  <1> HIDE DEF q, u
  <1>7. q = u
    BY <1>3, <1>5, <1>6, SeqEqual
  <1>8. QED
    BY <1>7 DEF q, u

LEMMA OneAndTwo ==
    ASSUME NEW a, NEW x, NEW y
    PROVE  <<a>> \o <<x, y>> = <<a, x, y>>
  <1> DEFINE S == {a, x, y}
             q == <<a>> \o <<x, y>>
             u == <<a, x, y>>
  <1>1. <<a>> \in Seq(S) /\ <<x, y>> \in Seq(S) /\ u \in Seq(S)
    OBVIOUS
  <1>2. Len(<<a>>) = 1 /\ Len(<<x, y>>) = 2 /\ Len(u) = 3
    OBVIOUS
  <1>3. q \in Seq(S) /\ Len(q) = Len(u)
    BY <1>1, <1>2
  <1>4. \A i \in 1..3 : q[i] = u[i]
    BY <1>1, <1>2
  <1>5. \A i \in 1..Len(q) : q[i] = u[i]
    BY <1>2, <1>3, <1>4
  <1>6. u \in Seq(S)
    BY <1>1
  <1> HIDE DEF q, u
  <1>7. q = u
    BY <1>3, <1>5, <1>6, SeqEqual
  <1>8. QED
    BY <1>7 DEF q, u

(* A thread that has taken a step is where the handler goes on. *)
LEMMA Onward ==
    ASSUME NEW p \in Stages \ {"idle"}, NEW op, p = "createregister" => op = "mknod"
    PROVE  LET q == StepsFrom(p, op) IN
           /\ q # <<>> /\ AtOf(q) = p
           /\ Tail(q) = StepsFrom(After(p, op), op) /\ AtOf(Tail(q)) = After(p, op)
           /\ After(p, op) \in Stages
           /\ Len(q) = 1 <=> p = "nodes"
  <1> USE DEF StepsFrom, After, AtOf, Stages, Making, Ends
  <1>1. CASE p = "nodes"
    BY <1>1
  <1>2. CASE p = "directories"
    BY <1>2
  <1>3. CASE p = "addchild"
    BY <1>3
  <1>4. CASE p = "put"
    BY <1>4
  <1>5. CASE p = "last"
    BY <1>5
  <1>6. CASE p = "createregister"
    BY <1>6
  <1>7. CASE p = "node"
    BY <1>7
  <1>8. CASE p = "get"
    BY <1>8
  <1>9. CASE p = "list"
    BY <1>9
  <1>10. CASE p = "parent" /\ op = "mknod"
    <2> DEFINE whole == <<"parent", "createregister", "last", "put", "addchild", "directories", "nodes">>
               rest == <<"createregister", "last", "put", "addchild", "directories", "nodes">>
    <2>1. StepsFrom(p, op) = whole
      BY <1>10, FiveAndTwo DEF MknodSteps, Ending
    <2>2. After(p, op) = "createregister"
      BY <1>10
    <2>3. StepsFrom("createregister", op) = rest
      OBVIOUS
    <2>4. Tail(whole) = rest
      OBVIOUS
    <2>5. Len(whole) = 7
      OBVIOUS
    <2>6. AtOf(rest) = "createregister" /\ AtOf(whole) = "parent" /\ whole # <<>>
      OBVIOUS
    <2> HIDE DEF StepsFrom, After, AtOf, whole, rest
    <2>a. StepsFrom(p, op) # <<>>
      BY <2>1, <2>6
    <2>b. AtOf(StepsFrom(p, op)) = p
      BY <1>10, <2>1, <2>6
    <2>c. Tail(StepsFrom(p, op)) = StepsFrom(After(p, op), op)
      BY <2>1, <2>2, <2>3, <2>4
    <2>d. AtOf(Tail(StepsFrom(p, op))) = After(p, op)
      BY <2>1, <2>2, <2>4, <2>6
    <2>e. After(p, op) \in Stages /\ p # "nodes"
      BY <1>10, <2>2
    <2>f. Len(StepsFrom(p, op)) # 1
      BY <2>1, <2>5
    <2>7. QED
      BY <2>a, <2>b, <2>c, <2>d, <2>e, <2>f
  <1>11. CASE p = "parent" /\ op = "link"
    <2> DEFINE whole == <<"parent", "node", "addchild", "directories", "nodes">>
               rest == <<"node", "addchild", "directories", "nodes">>
    <2>1. StepsFrom(p, op) = whole
      BY <1>11, ThreeAndTwo DEF LinkSteps, Ending
    <2>2. After(p, op) = "node"
      BY <1>11
    <2>3. StepsFrom("node", op) = rest
      OBVIOUS
    <2>4. Tail(whole) = rest
      OBVIOUS
    <2>5. Len(whole) = 5
      OBVIOUS
    <2>6. AtOf(rest) = "node" /\ AtOf(whole) = "parent" /\ whole # <<>>
      OBVIOUS
    <2> HIDE DEF StepsFrom, After, AtOf, whole, rest
    <2>a. StepsFrom(p, op) # <<>>
      BY <2>1, <2>6
    <2>b. AtOf(StepsFrom(p, op)) = p
      BY <1>11, <2>1, <2>6
    <2>c. Tail(StepsFrom(p, op)) = StepsFrom(After(p, op), op)
      BY <2>1, <2>2, <2>3, <2>4
    <2>d. AtOf(Tail(StepsFrom(p, op))) = After(p, op)
      BY <2>1, <2>2, <2>4, <2>6
    <2>e. After(p, op) \in Stages /\ p # "nodes"
      BY <1>11, <2>2
    <2>f. Len(StepsFrom(p, op)) # 1
      BY <2>1, <2>5
    <2>7. QED
      BY <2>a, <2>b, <2>c, <2>d, <2>e, <2>f
  <1>12. CASE p = "parent" /\ op \notin {"mknod", "link"}
    <2> DEFINE whole == <<"parent", "list", "directories", "nodes">>
               rest == <<"list", "directories", "nodes">>
    <2>1. StepsFrom(p, op) = whole
      BY <1>12, TwoAndTwo DEF ReaddirSteps, Ending
    <2>2. After(p, op) = "list"
      BY <1>12
    <2>3. StepsFrom("list", op) = rest
      OBVIOUS
    <2>4. Tail(whole) = rest
      OBVIOUS
    <2>5. Len(whole) = 4
      OBVIOUS
    <2>6. AtOf(rest) = "list" /\ AtOf(whole) = "parent" /\ whole # <<>>
      OBVIOUS
    <2> HIDE DEF StepsFrom, After, AtOf, whole, rest
    <2>a. StepsFrom(p, op) # <<>>
      BY <2>1, <2>6
    <2>b. AtOf(StepsFrom(p, op)) = p
      BY <1>12, <2>1, <2>6
    <2>c. Tail(StepsFrom(p, op)) = StepsFrom(After(p, op), op)
      BY <2>1, <2>2, <2>3, <2>4
    <2>d. AtOf(Tail(StepsFrom(p, op))) = After(p, op)
      BY <2>1, <2>2, <2>4, <2>6
    <2>e. After(p, op) \in Stages /\ p # "nodes"
      BY <1>12, <2>2
    <2>f. Len(StepsFrom(p, op)) # 1
      BY <2>1, <2>5
    <2>7. QED
      BY <2>a, <2>b, <2>c, <2>d, <2>e, <2>f
  <1>13. QED
    BY <1>1, <1>2, <1>3, <1>4, <1>5, <1>6, <1>7, <1>8, <1>9, <1>10, <1>11, <1>12

(* Only t has taken a step. *)
Still(t) ==
    \A u \in Threads \ {t} : todo'[u] = todo[u] /\ call'[u] = call[u] /\ cold'[u] = cold[u]

LEMMA StillThere ==
    ASSUME NEW t \in Threads, Still(t), NEW u \in Threads \ {t}
    PROVE  /\ At(u)' = At(u) /\ Busy(u)' = Busy(u) /\ Dir(u)' = Dir(u)
           /\ \A n : Has(u, n)' = Has(u, n)
           /\ \A p : Committing(u, p)' = Committing(u, p)
           /\ call'[u] = call[u]
  BY DEF Still, At, Busy, Dir, Has, Committing

LEMMA DueIsAt ==
    ASSUME NEW t \in Threads
    PROVE  /\ \A s \in Stages \ {"idle"} : Due(t, s) <=> At(t) = s
           /\ Rest => (Idle(t) <=> At(t) = "idle")
  <1>1. \A s \in Stages \ {"idle"} : Due(t, s) <=> At(t) = s
    BY DEF Due, At, AtOf
  <1>2. ASSUME Rest PROVE Idle(t) <=> At(t) = "idle"
    <2>1. todo[t] = StepsFrom(At(t), call[t].op)
      BY <1>2 DEF Rest, Runs
    <2>2. StepsFrom("idle", call[t].op) = <<>>
      BY DEF StepsFrom
    <2>3. QED
      BY <2>1, <2>2 DEF Idle, At, AtOf
  <1>3. QED
    BY <1>1, <1>2

LEMMA Moved ==
    ASSUME Rest, NEW t \in Threads, At(t) # "idle", Advance(t)
    PROVE  /\ At(t)' = After(At(t), call[t].op)
           /\ todo'[t] = StepsFrom(After(At(t), call[t].op), call[t].op)
           /\ \A u \in Threads \ {t} : todo'[u] = todo[u]
           /\ DOMAIN todo' = Threads
           /\ Len(todo[t]) = 1 <=> At(t) = "nodes"
  <1>1. /\ todo[t] = StepsFrom(At(t), call[t].op) /\ At(t) \in Stages
        /\ At(t) = "createregister" => call[t].op = "mknod"
        /\ DOMAIN todo = Threads
    BY DEF Rest, Runs
  <1>2. /\ Tail(todo[t]) = StepsFrom(After(At(t), call[t].op), call[t].op)
        /\ AtOf(Tail(todo[t])) = After(At(t), call[t].op)
        /\ Len(todo[t]) = 1 <=> At(t) = "nodes"
    BY <1>1, Onward
  <1>3. todo'[t] = Tail(todo[t])
    BY <1>1 DEF Advance
  <1>4. QED
    BY <1>1, <1>2, <1>3 DEF Advance, At

(* Rest, if the thread that takes the step goes on as it should. *)
LEMMA RestKept ==
    ASSUME Rest, NEW t \in Threads, Still(t), call' \in [Threads -> CallType],
           DOMAIN todo' = Threads, DOMAIN cold' = Threads, Runs(t)',
           UNCHANGED <<torn, crashes, disk>>,
           log' \in Seq(RecordType), Len(log') <= MaxLog,
           Last' + Cardinality(Makers') <= MaxId
    PROVE  Rest'
  <1>1. ASSUME NEW u \in Threads PROVE Runs(u)'
    <2>1. CASE u = t
      BY <2>1
    <2>2. CASE u # t
      BY <2>2 DEF Rest, Runs, Still, At, Way, Due, Dir
    <2>3. QED
      BY <2>1, <2>2
  <1>2. QED
    BY <1>1 DEF Rest

LEMMA FewerMakers ==
    ASSUME Rest, Makers' \subseteq Makers, Last' \in Int, Last \in Int, Last' <= Last
    PROVE  Last' + Cardinality(Makers') <= MaxId
  <1>1. IsFiniteSet(Makers)
    BY ThreadsAssumption, FS_Subset DEF Makers
  <1>2. Cardinality(Makers') <= Cardinality(Makers) /\ Cardinality(Makers) \in Nat
        /\ Cardinality(Makers') \in Nat
    BY <1>1, FS_Subset, FS_CardinalityType
  <1>3. Last + Cardinality(Makers) <= MaxId /\ MaxId \in Nat
    BY IdsAssumption DEF Rest
  <1>4. QED
    BY <1>2, <1>3

LEMMA DirIs ==
    ASSUME Rest, NEW t \in Threads, call[t].op \notin {"none", "getattr"}
    PROVE  call[t].key \in Keys /\ Dir(t) \in Dirs /\ Dir(t) \in Ids
  BY KeysAssumption, IdsAssumption DEF Rest, Runs, Dir

LEMMA PagesOfIds ==
    /\ \A i \in Ids : N(i) \in Items /\ N(i)[1] = "nodes"
    /\ \A d \in Dirs : D(d) \in Items /\ D(d)[1] = "directories" /\ N(d) \in Items
    /\ \A x \in Items : x[1] \in Ends
    /\ \A x \in Items : x[1] = "directories" => \E d \in Dirs : x = D(d)
  BY IdsAssumption DEF Items, N, D, Ends

(* Locks, if only those of the thread that takes the step change. *)
LEMMA LocksKept ==
    ASSUME Rest, Locks, NEW t \in Threads, Still(t), Owns(t)',
           holder' \in [Items -> Threads \cup {NoThread}],
           creating' \in Threads \cup {NoThread},
           \A u \in Threads \ {t} :
              /\ \A x \in Items : holder'[x] = u <=> holder[x] = u
              /\ creating' = u <=> creating = u
              /\ At(u) = "put" => Last' = Last
    PROVE  Locks'
  <1>1. ASSUME NEW u \in Threads \ {t} PROVE Owns(u)'
    <2>1. /\ At(u)' = At(u) /\ \A n : Has(u, n)' = Has(u, n)
          /\ call'[u] = call[u] /\ Dir(u)' = Dir(u)
      BY StillThere
    <2>2. Owns(u)
      BY DEF Locks
    <2>3. creating' = u <=> At(u)' \in {"last", "put"}
      BY <2>1, <2>2 DEF Owns
    <2>4. ASSUME NEW x \in Items, holder'[x] = u
          PROVE  At(u)' # "idle" /\ (x[1] = "directories" => At(u)' # "nodes")
      <3>1. holder[x] = u
        BY <2>4
      <3>2. QED
        BY <2>1, <2>2, <3>1 DEF Owns
    <2>5. ASSUME At(u)' = "put"
          PROVE  call'[u].node = Last' + 1 /\ holder'[N(Last')] = u
      <3>1. At(u) = "put" /\ Last' = Last
        BY <2>1, <2>5
      <3>2. Last \in Ids
        BY LastIs DEF Last, LastOf
      <3>3. call[u].node = Last + 1 /\ holder[N(Last)] = u
        BY <3>1, <2>2 DEF Owns
      <3>4. holder'[N(Last)] = u
        BY <3>2, <3>3, PagesOfIds
      <3>5. QED
        BY <3>1, <3>3, <3>4, <2>1
    <2>6. ASSUME NEW n \in Files, Has(u, n)' PROVE holder'[N(n)] = u
      <3>1. holder[N(n)] = u
        BY <2>1, <2>2, <2>6 DEF Owns
      <3>2. QED
        BY <3>1, PagesOfIds DEF Files
    <2>7. ASSUME At(u)' = "directories", call'[u].done
          PROVE  holder'[D(Dir(u)')] = u
      <3>1. holder[D(Dir(u))] = u
        BY <2>1, <2>2, <2>7 DEF Owns
      <3>2. Dir(u) \in Dirs
        BY <2>1, <2>7, KeysAssumption DEF Rest, Runs, Dir
      <3>3. QED
        BY <3>1, <3>2, <2>1, PagesOfIds
    <2>8. ASSUME At(u)' \in Found PROVE holder'[N(Dir(u)')] = u
      <3>1. holder[N(Dir(u))] = u
        BY <2>1, <2>2, <2>8 DEF Owns
      <3>2. Dir(u) \in Ids
        <4>1. call[u].op \notin {"none", "getattr"}
          BY <2>1, <2>8 DEF Rest, Runs, Found
        <4>2. QED
          BY <4>1, DirIs
      <3>3. QED
        BY <3>1, <3>2, <2>1, PagesOfIds
    <2>9. ASSUME NEW d \in Dirs, holder'[D(d)] = u
          PROVE  \E e \in Dirs : D(e) = D(d) /\ holder'[N(e)] = u
      <3>1. holder[D(d)] = u
        BY <2>9, PagesOfIds
      <3>2. PICK e \in Dirs : D(e) = D(d) /\ holder[N(e)] = u
        BY <3>1, <2>2 DEF Owns, Guarded
      <3>3. QED
        BY <3>2, PagesOfIds
    <2>10. Guarded(u)'
      BY <2>9 DEF Guarded, N, D
    <2>a. At(u)' \in Found => holder'[N(Dir(u))'] = u
      BY <2>8 DEF N
    <2>b. At(u)' = "directories" /\ call'[u].done => holder'[D(Dir(u))'] = u
      BY <2>7 DEF D
    <2>c. At(u)' = "put" => call'[u].node = Last' + 1 /\ holder'[N(Last)'] = u
      BY <2>5 DEF N
    <2>d. \A n \in Files : Has(u, n)' => holder'[N(n)] = u
      BY <2>6
    <2>11. QED
      BY <2>3, <2>4, <2>10, <2>a, <2>b, <2>c, <2>d DEF Owns, N
  <1>2. QED
    BY <1>1 DEF Locks

(* The path that is looked up: directories, and then perhaps a file. *)
LEMMA WayIs ==
    ASSUME Rest, NEW t \in Threads, At(t) \in Finding
    PROVE  /\ Way(t) \in Seq(Ids) /\ Len(Way(t)) > 0
           /\ \A j \in 1..(Len(Way(t)) - 1) : Way(t)[j] \in Dirs
  <1>1. Runs(t) /\ (Due(t, "parent") <=> At(t) = "parent")
    BY DueIsAt DEF Rest, Stages, Making
  <1>2. CASE At(t) = "parent"
    <2>1. Way(t) = PathOf[Dir(t)] /\ Dir(t) \in Dirs
      BY <1>1, <1>2, DirIs DEF Way, Runs
    <2>2. PICK q : q = PathOf[Dir(t)]
      OBVIOUS
    <2>3. q \in Seq(Dirs) /\ q # <<>>
      BY <2>1, <2>2, PathsAssumption
    <2>4. q \in Seq(Ids) /\ Len(q) > 0 /\ \A j \in 1..(Len(q) - 1) : q[j] \in Dirs
      BY <2>3, IdsAssumption
    <2>5. QED
      BY <2>1, <2>2, <2>4
  <1>3. CASE At(t) # "parent"
    <2>1. Way(t) = Append(PathOf[call[t].by[1]], call[t].node)
      BY <1>1, <1>3 DEF Way, FileWay
    <2>2. call[t].by[1] \in Dirs /\ call[t].node \in Ids
      BY <1>1, <1>3, KeysAssumption DEF Runs, Finding, Files
    <2>3. PICK q, n : q = PathOf[call[t].by[1]] /\ n = call[t].node
      OBVIOUS
    <2>4. q \in Seq(Dirs) /\ n \in Ids
      BY <2>2, <2>3, PathsAssumption
    <2>5. /\ Append(q, n) \in Seq(Ids) /\ Len(Append(q, n)) = Len(q) + 1
          /\ Len(q) \in Nat /\ \A j \in 1..Len(q) : Append(q, n)[j] \in Dirs
      BY <2>4, IdsAssumption
    <2>6. QED
      BY <2>1, <2>3, <2>5
  <1>4. QED
    BY <1>2, <1>3

(* The prefix that is made next is one that is not in the cache. *)
LEMMA NextIs ==
    ASSUME NEW n \in Nat, NEW missing, missing \subseteq 1..n, missing # {}
    PROVE  NextMade(missing, n) \in missing
  <1> DEFINE above  == missing \ {n}
             sought == IF above = {} THEN n ELSE Max(above)
             I == {j \in 1..sought : j..sought \subseteq missing}
  <1>1. sought \in missing
    <2>1. CASE above = {}
      BY <2>1
    <2>2. CASE above # {}
      <3>1. above \subseteq 0..n
        OBVIOUS
      <3>2. Max(above) \in above
        BY <2>2, <3>1, MaxOf
      <3>3. QED
        BY <2>2, <3>2
    <2>3. QED
      BY <2>1, <2>2
  <1> HIDE DEF sought
  <1>2. sought \in 1..n
    BY <1>1
  <1>3. sought \in I /\ I \subseteq Nat
    BY <1>1, <1>2
  <1>4. Min(I) \in I
    <2> HIDE DEF I
    <2>1. QED
      BY <1>3, MinOf
  <1>5. Min(I) \in missing
    BY <1>2, <1>4
  <1>6. NextMade(missing, n) = Min(I)
    BY DEF NextMade, sought
  <1>7. QED
    BY <1>5, <1>6

(* What is asked for in a lookup: the entry after the node it is in. *)
LEMMA AskedCold ==
    ASSUME Rest, NEW t \in Threads, cold[t] # {}, NEW x \in Asked(t)
    PROVE  /\ x \in Items
           /\ x[1] = "directories" => \E d \in Dirs : x = D(d) /\ holder[N(d)] = t
  <1>1. At(t) \in Finding /\ cold[t] \subseteq DOMAIN Way(t)
    BY DEF Rest, Runs
  <1>2. PICK q, j : q = Way(t) /\ j = Made(t)
    OBVIOUS
  <1>3. q \in Seq(Ids) /\ Len(q) > 0 /\ \A i \in 1..(Len(q) - 1) : q[i] \in Dirs
    BY <1>1, <1>2, WayIs
  <1>4. j \in 1..Len(q)
    <2>1. cold[t] \subseteq 1..Len(q) /\ Len(q) \in Nat
      BY <1>1, <1>2, <1>3
    <2>2. j \in cold[t]
      BY <2>1, <1>2, NextIs DEF Made
    <2>3. QED
      BY <2>1, <2>2
  <1>5. PICK reads : reads = Reads(q, j)
    OBVIOUS
  <1>6. PICK K : K = {k \in DOMAIN reads : holder[reads[k]] # t}
    OBVIOUS
  <1>7. K # {} /\ x = reads[Min(K)]
    <2>a. \A p \in {"last", "put", "addchild", "list"} : ~Due(t, p)
      BY <1>1, DueIsAt DEF Finding, Stages, Making
    <2>1. Asked(t) = {Reads(Way(t), Made(t))[Min(Z)] : Z \in {Unread(t)} \ {{}}}
      BY <2>a DEF Asked
    <2>2. Unread(t) = K
      BY <1>2, <1>5, <1>6 DEF Unread
    <2>3. QED
      BY <2>1, <2>2, <1>2, <1>5
  <1>8. CASE j = 1
    <2>1. reads = <<N(q[1])>>
      BY <1>5, <1>8 DEF Reads
    <2>2. K \subseteq {1} /\ K \subseteq Nat
      BY <2>1, <1>6
    <2>3. Min(K) = 1
      BY <2>2, <1>7, MinOf
    <2>4. x = N(q[1]) /\ q[1] \in Ids
      BY <2>1, <2>3, <1>3, <1>7
    <2>5. QED
      BY <2>4, PagesOfIds
  <1>9. CASE j # 1
    <2>1. reads = <<N(q[j - 1]), D(q[j - 1]), N(q[j])>>
      BY <1>5, <1>9 DEF Reads
    <2>2. j - 1 \in 1..(Len(q) - 1) /\ q[j - 1] \in Dirs /\ q[j] \in Ids
      BY <1>3, <1>4, <1>9
    <2>3. K \subseteq {1, 2, 3} /\ K \subseteq Nat
      BY <2>1, <1>6
    <2>4. Min(K) \in K /\ \A y \in K : Min(K) <= y
      BY <2>3, <1>7, MinOf
    <2>5. CASE Min(K) = 1
      BY <2>1, <2>2, <2>5, <1>7, PagesOfIds, IdsAssumption
    <2>6. CASE Min(K) = 2
      <3>1. 1 \notin K
        BY <2>4, <2>6
      <3>2. holder[N(q[j - 1])] = t
        BY <3>1, <2>1, <1>6
      <3>3. x = D(q[j - 1])
        BY <2>1, <2>6, <1>7
      <3>4. QED
        BY <3>2, <3>3, <2>2, PagesOfIds
    <2>7. CASE Min(K) = 3
      BY <2>1, <2>2, <2>7, <1>7, PagesOfIds
    <2>8. QED
      BY <2>3, <2>4, <2>5, <2>6, <2>7
  <1>10. QED
    BY <1>8, <1>9

(* What is asked for otherwise. *)
LEMMA AskedAt ==
    ASSUME NEW t \in Threads, cold[t] = {}
    PROVE  /\ At(t) = "parent" => Asked(t) = {N(Dir(t))}
           /\ At(t) = "last" => Asked(t) = {N(Last)}
           /\ At(t) \in {"put", "node", "get"} => Asked(t) = {N(call[t].node)}
           /\ At(t) \in {"addchild", "list"} => Asked(t) = {D(Dir(t))}
           /\ At(t) \in {"idle", "createregister"} \cup Ends => Asked(t) = {}
  <1>1. \A s \in Stages \ {"idle"} : Due(t, s) <=> At(t) = s
    BY DueIsAt
  <1>2. {"parent", "last", "put", "node", "get", "addchild", "list"} \subseteq Stages \ {"idle"}
    BY DEF Stages, Making
  <1>3. /\ Due(t, "parent") <=> At(t) = "parent"
        /\ Due(t, "last") <=> At(t) = "last"
        /\ Due(t, "put") <=> At(t) = "put"
        /\ Due(t, "node") <=> At(t) = "node"
        /\ Due(t, "get") <=> At(t) = "get"
        /\ Due(t, "addchild") <=> At(t) = "addchild"
        /\ Due(t, "list") <=> At(t) = "list"
    BY <1>1, <1>2
  <1>4. QED
    BY <1>3 DEF Asked, Ends

LEMMA ColdIs ==
    ASSUME Rest, NEW t \in Threads, At(t) \notin Finding
    PROVE  cold[t] = {}
  BY DEF Rest, Runs

(* Every page of a directory is asked for after that of its node. *)
LEMMA AskedIs ==
    ASSUME Rest, Locks, NEW t \in Threads, NEW x \in Asked(t)
    PROVE  /\ x \in Items /\ At(t) \notin {"idle", "createregister"} \cup Ends
           /\ x[1] = "directories" => \E d \in Dirs : x = D(d) /\ holder[N(d)] = t
  <1>1. CASE cold[t] # {}
    <2>1. At(t) \in Finding
      BY <1>1, ColdIs
    <2>2. QED
      BY <1>1, <2>1, AskedCold DEF Finding, Ends
  <1>2. CASE cold[t] = {}
    <2>1. Runs(t) /\ Owns(t)
      BY DEF Rest, Locks
    <2>2. At(t) \notin {"idle", "createregister"} \cup Ends
      BY <1>2, AskedAt
    <2>3. CASE At(t) = "parent"
      <3>1. x = N(Dir(t)) /\ Dir(t) \in Ids
        BY <1>2, <2>1, <2>3, AskedAt, DirIs DEF Runs
      <3>2. QED
        BY <3>1, <2>2, PagesOfIds
    <2>4. CASE At(t) = "last"
      <3>1. x = N(Last) /\ Last \in Ids
        BY <1>2, <2>4, AskedAt, LastIs DEF Last, LastOf
      <3>2. QED
        BY <3>1, <2>2, PagesOfIds
    <2>5. CASE At(t) \in {"put", "node", "get"}
      <3>1. x = N(call[t].node) /\ call[t].node \in Ids
        BY <1>2, <2>1, <2>5, AskedAt DEF Runs, Files
      <3>2. QED
        BY <3>1, <2>2, PagesOfIds
    <2>6. CASE At(t) \in {"addchild", "list"}
      <3>1. x = D(Dir(t)) /\ Dir(t) \in Dirs /\ holder[N(Dir(t))] = t
        BY <1>2, <2>1, <2>6, AskedAt, DirIs DEF Runs, Owns, Found
      <3>2. QED
        BY <3>1, <2>2, PagesOfIds
    <2>7. QED
      BY <2>1, <2>2, <2>3, <2>4, <2>5, <2>6 DEF Runs, Stages, Making
  <1>3. QED
    BY <1>1, <1>2

(* What is locked when it is granted. *)
LEMMA Grants ==
    ASSUME Rest, Locks, NEW t \in Threads, Grant(t)
    PROVE  /\ holder' \in [Items -> Threads \cup {NoThread}]
           /\ \A x \in Asked(t) : x \in Items /\ holder[x] \in {t, NoThread} /\ holder'[x] = t
           /\ \A x \in Items : holder'[x] = t <=> (holder[x] = t \/ x \in Asked(t))
           /\ \A u \in Threads \ {t}, x \in Items : holder'[x] = u <=> holder[x] = u
           /\ Guarded(t)'
  <1>1. /\ holder \in [Items -> Threads \cup {NoThread}]
        /\ \A x \in Asked(t) : holder[x] \in {t, NoThread}
        /\ holder' = [x \in Items |-> IF x \in Asked(t) THEN t ELSE holder[x]]
    BY DEF Locks, Grant
  <1>2. \A x \in Asked(t) : x \in Items
    BY AskedIs
  <1>3. /\ holder' \in [Items -> Threads \cup {NoThread}]
        /\ \A x \in Asked(t) : holder'[x] = t
        /\ \A x \in Items : holder'[x] = t <=> (holder[x] = t \/ x \in Asked(t))
        /\ \A u \in Threads \ {t}, x \in Items : holder'[x] = u <=> holder[x] = u
    BY <1>1, <1>2, ThreadsAssumption
  <1>4. ASSUME NEW d \in Dirs, holder'[D(d)] = t
        PROVE  \E e \in Dirs : D(e) = D(d) /\ holder'[N(e)] = t
    <2>1. D(d) \in Items /\ D(d)[1] = "directories"
      BY PagesOfIds
    <2>2. CASE holder[D(d)] = t
      <3>1. PICK e \in Dirs : D(e) = D(d) /\ holder[N(e)] = t
        BY <2>2 DEF Locks, Owns, Guarded
      <3>2. QED
        BY <3>1, <1>3, PagesOfIds
    <2>3. CASE D(d) \in Asked(t)
      <3>1. PICK e \in Dirs : D(d) = D(e) /\ holder[N(e)] = t
        BY <2>1, <2>3, AskedIs
      <3>2. QED
        BY <3>1, <1>3, PagesOfIds
    <2>4. QED
      BY <2>1, <2>2, <2>3, <1>3, <1>4
  <1>5. Guarded(t)'
    BY <1>4 DEF Guarded, N, D
  <1>6. QED
    BY <1>1, <1>2, <1>3, <1>5

LEMMA OneHas ==
    ASSUME Locks, NEW t \in Threads, NEW u \in Threads, NEW n \in Files, Has(u, n),
           holder[N(n)] \in {t, NoThread}
    PROVE  u = t
  <1>1. Owns(u)
    BY DEF Locks
  <1>2. holder[N(n)] = u
    BY <1>1 DEF Owns
  <1>3. QED
    BY <1>2, ThreadsAssumption

(* Nothing that the databases show changes. *)
LEMMA SameLog ==
    ASSUME UNCHANGED data, NEW f, Replay(f), NEW B, B = f[Len(log)], Meets(B)'
    PROVE  Logged'
  <1>1. log' = log /\ disk' = disk /\ half' = half /\ torn' = torn /\ crashes' = crashes
    BY DEF data
  <1>2. Start' = Start
    BY <1>1 DEF Start
  <1>3. \A E : Sane(E)' = Sane(E)
    BY <1>1 DEF Sane
  <1>4. Meets(f[Len(log)])'
    BY <1>1
  <1>5. Replay(f)'
    BY <1>1, <1>2, <1>3, <1>4 DEF Replay
  <1>6. QED
    BY <1>5 DEF Logged

(* The counts do not change, and neither does what the handlers have. *)
LEMMA Quiet ==
    ASSUME Counts, Logged, NEW t \in Threads, Still(t), ~Busy(t), ~Busy(t)',
           UNCHANGED <<nlink, entry, data>>
    PROVE  Counts' /\ Logged'
  <1>1. \A u \in Threads : \A n : Has(u, n)' = Has(u, n)
    BY StillThere DEF Has
  <1>2. \A u \in Threads : \A p \in Ends : Committing(u, p)' = Committing(u, p)
    <2>1. \A p \in Ends : ~Committing(t, p) /\ ~Committing(t, p)'
      BY DEF Committing, Busy
    <2>2. \A u \in Threads \ {t} : \A p \in Ends : Committing(u, p)' = Committing(u, p)
      BY StillThere
    <2>3. \A p \in Ends : Committing(t, p)' = Committing(t, p)
      BY <2>1 DEF Committing
    <2>4. QED
      BY <2>2, <2>3
  <1>3. \A n : Adding(n)' = Adding(n)
    <2>1. ~(At(t) = "addchild") /\ ~(At(t)' = "addchild")
      BY DEF Busy
    <2>2. \A u \in Threads \ {t} : At(u)' = At(u) /\ call'[u] = call[u]
      BY StillThere
    <2>3. QED
      BY <2>1, <2>2 DEF Adding
  <1>4. UNCHANGED <<torn, crashes>> /\ nlink' = nlink /\ entry' = entry
    BY DEF data
  <1>5. Counts'
    BY <1>3, <1>4 DEF Counts, Gap
  <1>6. PICK f : Replay(f)
    BY DEF Logged
  <1>7. PICK B : B = f[Len(log)]
    OBVIOUS
  <1>8. Meets(B)
    BY <1>6, <1>7 DEF Replay
  <1>9. Meets(B)'
    <2>1. \A u \in Threads \ {t} : call'[u] = call[u]
      BY DEF Still
    <2>2. \A u \in Threads : \A p \in Ends : Committing(u, p) => u # t
      BY DEF Committing, Busy
    <2>3. \A u \in Threads : \A p \in Ends : Committing(u, p) => call'[u] = call[u]
      BY <2>1, <2>2
    <2>a. "directories" \in Ends /\ "nodes" \in Ends
      BY DEF Ends
    <2>4. ASSUME NEW k \in Keys
          PROVE  \/ B.entry[k] = entry'[k]
                    /\ \A u \in Threads : Committing(u, "directories")' => call'[u].key # k
                 \/ \E u \in Threads : /\ Committing(u, "directories")' /\ call'[u].key = k
                                       /\ Switches(B.entry, k, entry'[k], call'[u].node)
      <3>1. CASE /\ B.entry[k] = entry[k]
                 /\ \A u \in Threads : Committing(u, "directories") => call[u].key # k
        BY <3>1, <1>2, <1>4, <2>3, <2>a
      <3>2. CASE \E u \in Threads : /\ Committing(u, "directories") /\ call[u].key = k
                                    /\ Switches(B.entry, k, entry[k], call[u].node)
        BY <3>2, <1>2, <1>4, <2>3, <2>a
      <3>3. QED
        BY <3>1, <3>2, <1>8 DEF Meets
    <2>5. ASSUME NEW n \in Files
          PROVE  /\ n \in B.half <=> \E u \in Threads : Committing(u, "nodes")' /\ call'[u].node = n
                 /\ Adding(n)' => nlink'[n] = B.nlink[n] + 1
                 /\ (\A u \in Threads : ~Has(u, n)') => nlink'[n] = B.nlink[n]
      <3>1. /\ n \in B.half <=> \E u \in Threads : Committing(u, "nodes") /\ call[u].node = n
            /\ Adding(n) => nlink[n] = B.nlink[n] + 1
            /\ (\A u \in Threads : ~Has(u, n)) => nlink[n] = B.nlink[n]
        BY <1>8 DEF Meets
      <3>2. QED
        BY <3>1, <1>1, <1>2, <1>3, <1>4, <2>3, <2>a
    <2>6. QED
      BY <2>4, <2>5 DEF Meets, Switches
  <1>10. QED
    BY <1>5, <1>6, <1>7, <1>9, SameLog

-----------------------------------------------------------------------------
(* How the names of a node are counted. *)

LEMMA CountNat ==
    ASSUME NEW e, NEW n
    PROVE  IsFiniteSet(NamesOf(e, n)) /\ Count(e, n) \in Nat
  <1>1. IsFiniteSet(NamesOf(e, n))
    BY KeysAssumption, FS_Subset DEF NamesOf
  <1>2. QED
    BY <1>1, FS_CardinalityType DEF Count

LEMMA NoNodeIsNoFile == NoNode \notin Files /\ Files \subseteq Ids /\ Files \subseteq Int
  BY IdsAssumption DEF Files, Ids

Renamed(d, e, k, v, n) ==
    e \in [Keys -> Files \cup {NoNode}] /\ Switches(e, k, v, n) /\ d = [e EXCEPT ![k] = v]

LEMMA RenamedWays ==
    ASSUME NEW e, NEW k, k \in Keys, NEW v, NEW n, n \in Files, NEW d, Renamed(d, e, k, v, n)
    PROVE  (e[k] = n /\ v = NoNode) \/ (e[k] = NoNode /\ v = n)
  BY NoNodeIsNoFile DEF Switches, Renamed

LEMMA RenamedType ==
    ASSUME NEW e, NEW k, k \in Keys, NEW v, NEW n, n \in Files, NEW d, Renamed(d, e, k, v, n)
    PROVE  d \in [Keys -> Files \cup {NoNode}]
  BY RenamedWays DEF Renamed

LEMMA RenamedAt ==
    ASSUME NEW e, NEW k, k \in Keys, NEW v, NEW n, n \in Files, NEW d, Renamed(d, e, k, v, n)
    PROVE  d[k] = v /\ \A q \in Keys : q # k => d[q] = e[q]
  BY RenamedWays DEF Renamed

(* The other nodes keep their names. *)
LEMMA OtherNames ==
    ASSUME NEW e, NEW k, k \in Keys, NEW v, NEW n, n \in Files, NEW d, Renamed(d, e, k, v, n),
           NEW m, m \in Files, m # n
    PROVE  NamesOf(d, m) = NamesOf(e, m) /\ Count(d, m) = Count(e, m)
  <1>1. NamesOf(d, m) = NamesOf(e, m)
    BY RenamedWays, RenamedAt, NoNodeIsNoFile DEF NamesOf
  <1>2. QED
    BY <1>1 DEF Count

LEMMA OneNameLess ==
    ASSUME NEW e, NEW k, k \in Keys, NEW v, NEW n, n \in Files, NEW d, Renamed(d, e, k, v, n),
           e[k] = n
    PROVE  Count(d, n) = Count(e, n) - 1
  <1>1. NamesOf(d, n) = NamesOf(e, n) \ {k} /\ k \in NamesOf(e, n)
    BY RenamedWays, RenamedAt, NoNodeIsNoFile DEF NamesOf
  <1>2. QED
    BY <1>1, CountNat, FS_RemoveElement DEF Count

LEMMA OneNameMore ==
    ASSUME NEW e, NEW k, k \in Keys, NEW v, NEW n, n \in Files, NEW d, Renamed(d, e, k, v, n),
           e[k] # n
    PROVE  Count(d, n) = Count(e, n) + 1
  <1>1. NamesOf(d, n) = NamesOf(e, n) \cup {k} /\ k \notin NamesOf(e, n)
    BY RenamedWays, RenamedAt, NoNodeIsNoFile DEF NamesOf
  <1>2. QED
    BY <1>1, CountNat, FS_AddElement DEF Count

(* The counts agree after a step, if their differences stay. *)
LEMMA CountsKept ==
    ASSUME Counts, UNCHANGED <<torn, crashes>>,
           nlink' \in [Files -> Nat], entry' \in [Keys -> Files \cup {NoNode}],
           \A n \in Files : Gap(n)' = Gap(n) /\ (Adding(n)' => nlink'[n] > 0)
    PROVE  Counts'
  BY DEF Counts

(* What the step of t makes of Adding. *)
LEMMA AddingNow ==
    ASSUME NEW t \in Threads, Still(t), NEW n
    PROVE  /\ Adding(n)' <=> \/ \E u \in Threads \ {t} : At(u) = "addchild" /\ call[u].node = n
                             \/ At(t)' = "addchild" /\ call'[t].node = n
           /\ Adding(n) <=> \/ \E u \in Threads \ {t} : At(u) = "addchild" /\ call[u].node = n
                            \/ At(t) = "addchild" /\ call[t].node = n
  <1>1. \A u \in Threads \ {t} : At(u)' = At(u) /\ call'[u] = call[u]
    BY StillThere
  <1>2. QED
    BY <1>1 DEF Adding

(* The handler of t changes the count of n only, and no name. *)
LEMMA MeetsSame ==
    ASSUME NEW B, Meets(B), NEW t \in Threads, Still(t), NEW n \in Files, entry' = entry,
           \A p \in Ends : ~Committing(t, p) /\ ~Committing(t, p)',
           \A m \in Files \ {n} : nlink'[m] = nlink[m] /\ ~Has(t, m) /\ ~Has(t, m)',
           Adding(n)' => nlink'[n] = B.nlink[n] + 1,
           (\A u \in Threads : ~Has(u, n)') => nlink'[n] = B.nlink[n]
    PROVE  Meets(B)'
  <1>1. \A u \in Threads \ {t} : /\ call'[u] = call[u]
                                 /\ \A m : Has(u, m)' = Has(u, m)
                                 /\ \A p \in Ends : Committing(u, p)' = Committing(u, p)
    BY StillThere
  <1>2. "directories" \in Ends /\ "nodes" \in Ends
    BY DEF Ends
  <1>3. \A u \in Threads : /\ Committing(u, "directories")' <=> Committing(u, "directories")
                           /\ Committing(u, "nodes")' <=> Committing(u, "nodes")
    BY <1>1, <1>2
  <1>4. \A u \in Threads : Committing(u, "directories") \/ Committing(u, "nodes") => call'[u] = call[u]
    BY <1>1, <1>2
  <1>5. ASSUME NEW k \in Keys
        PROVE  \/ B.entry[k] = entry'[k]
                  /\ \A u \in Threads : Committing(u, "directories")' => call'[u].key # k
               \/ \E u \in Threads : /\ Committing(u, "directories")' /\ call'[u].key = k
                                     /\ Switches(B.entry, k, entry'[k], call'[u].node)
    <2>1. CASE /\ B.entry[k] = entry[k]
               /\ \A u \in Threads : Committing(u, "directories") => call[u].key # k
      BY <2>1, <1>3, <1>4
    <2>2. CASE \E u \in Threads : /\ Committing(u, "directories") /\ call[u].key = k
                                  /\ Switches(B.entry, k, entry[k], call[u].node)
      BY <2>2, <1>3, <1>4
    <2>3. QED
      BY <2>1, <2>2 DEF Meets
  <1>6. ASSUME NEW m \in Files
        PROVE  m \in B.half <=> \E u \in Threads : Committing(u, "nodes")' /\ call'[u].node = m
    <2>1. m \in B.half <=> \E u \in Threads : Committing(u, "nodes") /\ call[u].node = m
      BY DEF Meets
    <2>2. QED
      BY <2>1, <1>3, <1>4
  <1>7. ASSUME NEW m \in Files
        PROVE  /\ Adding(m)' => nlink'[m] = B.nlink[m] + 1
               /\ (\A u \in Threads : ~Has(u, m)') => nlink'[m] = B.nlink[m]
    <2>1. CASE m = n
      BY <2>1
    <2>2. CASE m # n
      <3>1. /\ Adding(m) => nlink[m] = B.nlink[m] + 1
            /\ (\A u \in Threads : ~Has(u, m)) => nlink[m] = B.nlink[m]
        BY DEF Meets
      <3>2. ~(At(t) = "addchild" /\ call[t].node = m) /\ ~(At(t)' = "addchild" /\ call'[t].node = m)
        BY <2>2 DEF Has, Busy
      <3>3. Adding(m)' <=> Adding(m)
        BY <3>2, AddingNow
      <3>4. \A u \in Threads : Has(u, m)' <=> Has(u, m)
        BY <1>1, <2>2
      <3>5. QED
        BY <3>1, <3>3, <3>4, <2>2
    <2>3. QED
      BY <2>1, <2>2
  <1>8. QED
    BY <1>5, <1>6, <1>7 DEF Meets, Switches

-----------------------------------------------------------------------------
(* Every step keeps the invariant. *)

(* A handler has begun, and looks something up. *)
LEMMA Begun ==
    ASSUME IInv, NEW t \in Threads, NEW c \in CallType, NEW p \in {"parent", "get"},
           NEW path, Begin(t, c, StepsFrom(p, c.op), path),
           UNCHANGED <<nlink, entry, holder, creating>>,
           c.op \notin {"none", "unlink"}, ~c.done,
           c.op # "getattr" => c.key \in Keys,
           c.op \in {"link", "getattr"} => c.by \in Keys /\ c.node \in Files,
           p = "get" <=> c.op = "getattr",
           path = IF p = "parent" THEN PathOf[c.key[1]] ELSE FileWay(c)
    PROVE  /\ call' \in [Threads -> CallType] /\ call'[t] = c
           /\ DOMAIN todo' = Threads /\ DOMAIN cold' = Threads /\ Still(t)
           /\ At(t) = "idle" /\ call[t].op = "none" /\ At(t)' = p
           /\ ~Busy(t) /\ ~Busy(t)' /\ Runs(t)' /\ Owns(t)'
           /\ UNCHANGED <<nlink, entry, holder, creating, data>>
  <1>1. /\ Idle(t) /\ call' = [call EXCEPT ![t] = c]
        /\ todo' = [todo EXCEPT ![t] = StepsFrom(p, c.op)]
        /\ UNCHANGED data
    BY DEF Begin
  <1>2. PICK missing \in SUBSET DOMAIN path : cold' = [cold EXCEPT ![t] = missing]
    BY DEF Begin
  <1>3. Rest /\ Locks
    BY DEF IInv
  <1>4. /\ call' \in [Threads -> CallType] /\ call'[t] = c
        /\ DOMAIN todo' = Threads /\ todo'[t] = StepsFrom(p, c.op)
        /\ DOMAIN cold' = Threads /\ cold'[t] = missing
        /\ Still(t)
    BY <1>1, <1>2, <1>3 DEF Rest, Still
  <1>5. At(t) = "idle" /\ call[t].op = "none"
    BY <1>1, <1>3, DueIsAt DEF Rest, Runs
  <1>6. At(t)' = p /\ (Due(t, "parent")' <=> p = "parent")
    <2>1. p \in Stages \ {"idle"} /\ p # "createregister"
      BY DEF Stages, Making
    <2>2. AtOf(StepsFrom(p, c.op)) = p /\ StepsFrom(p, c.op) # <<>>
      BY <2>1, Onward
    <2>3. Head(StepsFrom(p, c.op)) = p
      BY <2>2 DEF AtOf
    <2>4. QED
      BY <2>2, <2>3, <1>4 DEF At, Due
  <1>7. Way(t)' = path
    BY <1>4, <1>6 DEF Way, Dir, FileWay
  <1>8. ~Busy(t) /\ ~Busy(t)'
    BY <1>4, <1>5, <1>6 DEF Busy, Ends
  <1>9. Runs(t)'
    <2>1. c # NoCall
      BY DEF NoCall
    <2>2. c.op \in {"mknod", "link", "getattr", "readdir"}
      BY DEF CallType
    <2>3. cold'[t] \subseteq DOMAIN Way(t)'
      BY <1>4, <1>7
    <2>4. QED
      BY <2>1, <2>2, <2>3, <1>4, <1>6 DEF Runs, Stages, Making, Finding, Ends
  <1>10. Owns(t)'
    <2>1. Owns(t)
      BY <1>3 DEF Locks
    <2>2. \A x \in Items : holder'[x] # t
      BY <2>1, <1>5 DEF Owns
    <2>3. creating' # t
      BY <2>1, <1>5 DEF Owns
    <2>4. \A n : ~Has(t, n)'
      BY <1>8 DEF Has
    <2>5. Guarded(t)'
      BY <2>2, PagesOfIds DEF Guarded, D
    <2>6. QED
      BY <2>2, <2>3, <2>4, <2>5, <1>6 DEF Owns, Found
  <1>11. QED
    BY <1>1, <1>4, <1>5, <1>6, <1>8, <1>9, <1>10

LEMMA MknodKeeps ==
    ASSUME IInv, NEW t \in Threads, NEW k \in Keys, Mknod(t, k)
    PROVE  IInv'
  <1> DEFINE c == [NoCall EXCEPT !.op = "mknod", !.key = k]
             path == PathOf[k[1]]
  <1>1. /\ Begin(t, c, MknodSteps, path) /\ UNCHANGED <<nlink, entry, holder, creating>>
        /\ Last + Cardinality({u \in Threads : call[u].op = "mknod"}) < MaxId
    BY DEF Mknod
  <1>2. Rest /\ Locks /\ Counts /\ Logged
    BY DEF IInv
  <1>3. c \in CallType /\ c.op = "mknod" /\ c.key = k /\ ~c.done
    BY DEF NoCall, CallType
  <1>4. MknodSteps = StepsFrom("parent", c.op)
    BY DEF StepsFrom, NoCall
  <1> HIDE DEF c
  <1>5. path = PathOf[c.key[1]]
    BY <1>3
  <1> HIDE DEF path
  <1>a. Begin(t, c, StepsFrom("parent", c.op), path)
    BY <1>1, <1>4
  <1>6. /\ call' \in [Threads -> CallType] /\ call'[t] = c
        /\ DOMAIN todo' = Threads /\ DOMAIN cold' = Threads /\ Still(t)
        /\ call[t].op = "none" /\ ~Busy(t) /\ ~Busy(t)' /\ Runs(t)' /\ Owns(t)'
        /\ UNCHANGED <<nlink, entry, holder, creating, data>>
    BY <1>1, <1>a, <1>3, <1>5, Begun
  <1>7. Last' = Last /\ Last \in Int
    <2>1. Last \in Ids
      BY LastIs DEF Last, LastOf
    <2>2. QED
      BY <2>1, <1>1 DEF Last, Ids
  <1>8. Rest'
    <2>1. Last' + Cardinality(Makers') <= MaxId
      <3> DEFINE M == {u \in Threads : call[u].op = "mknod"}
      <3>1. IsFiniteSet(M) /\ t \notin M
        BY <1>6, ThreadsAssumption, FS_Subset
      <3>2. Cardinality(M \cup {t}) = Cardinality(M) + 1 /\ IsFiniteSet(M \cup {t})
        BY <3>1, FS_AddElement
      <3>3. Makers' \subseteq M \cup {t}
        BY <1>6 DEF Makers, Still
      <3>4. Cardinality(Makers') <= Cardinality(M) + 1 /\ Cardinality(Makers') \in Nat
            /\ Cardinality(M) \in Nat
        BY <3>1, <3>2, <3>3, FS_Subset, FS_CardinalityType
      <3>5. QED
        BY <3>4, <1>1, <1>7, IdsAssumption
    <2>2. log' \in Seq(RecordType) /\ Len(log') <= MaxLog /\ UNCHANGED <<torn, crashes, disk>>
      BY <1>2, <1>6 DEF Rest, data
    <2>3. QED
      BY <2>1, <2>2, <1>2, <1>6, RestKept
  <1>9. Locks'
    BY <1>1, <1>2, <1>6, <1>7, LocksKept DEF Locks
  <1>10. Counts' /\ Logged'
    BY <1>2, <1>6, Quiet
  <1>11. QED
    BY <1>8, <1>9, <1>10 DEF IInv

(* A step that neither changes the databases nor begins a new mknod. *)
LEMMA QuietKeeps ==
    ASSUME IInv, NEW t \in Threads, Still(t), call' \in [Threads -> CallType],
           DOMAIN todo' = Threads, DOMAIN cold' = Threads, Runs(t)', ~Busy(t), ~Busy(t)',
           UNCHANGED <<nlink, entry, data>>, t \in Makers \/ At(t)' \notin Making \/ call'[t].op # "mknod",
           holder' \in [Items -> Threads \cup {NoThread}],
           creating' \in Threads \cup {NoThread}, Owns(t)',
           \A u \in Threads \ {t} : /\ \A x \in Items : holder'[x] = u <=> holder[x] = u
                                    /\ creating' = u <=> creating = u
    PROVE  IInv'
  <1>1. Rest /\ Locks /\ Counts /\ Logged
    BY DEF IInv
  <1>2. nlink' = nlink /\ log' = log /\ UNCHANGED <<torn, crashes, disk>>
    BY DEF data
  <1>3. Last' = Last /\ Last \in Int
    <2>1. Last \in Ids
      BY LastIs DEF Last, LastOf
    <2>2. QED
      BY <2>1, <1>2 DEF Last, Ids
  <1>4. Makers' \subseteq Makers
    <2>1. \A u \in Threads \ {t} : At(u)' = At(u) /\ call'[u] = call[u]
      BY StillThere
    <2>2. QED
      BY <2>1 DEF Makers
  <1>5. Rest'
    BY <1>1, <1>2, <1>3, <1>4, FewerMakers, RestKept DEF Rest
  <1>6. Locks'
    BY <1>1, <1>3, LocksKept
  <1>7. Counts' /\ Logged'
    BY <1>1, Quiet
  <1>8. QED
    BY <1>5, <1>6, <1>7 DEF IInv

LEMMA LinkKeeps ==
    ASSUME IInv, NEW t \in Threads, NEW j \in Keys, NEW k \in Keys, Link(t, j, k)
    PROVE  IInv'
  <1> DEFINE c == [NoCall EXCEPT !.op = "link", !.key = k, !.node = entry[j], !.by = j]
             path == PathOf[k[1]]
  <1>1. Begin(t, c, LinkSteps, path) /\ UNCHANGED <<nlink, entry, holder, creating>>
    BY DEF Link
  <1>2. Rest /\ Locks /\ Counts
    BY DEF IInv
  <1>3. entry[j] \in Files
    BY <1>2 DEF Counts, Link
  <1>4. c \in CallType /\ c.op = "link" /\ ~c.done /\ c.key = k /\ c.node = entry[j] /\ c.by = j
    BY <1>3 DEF NoCall, CallType
  <1>5. LinkSteps = StepsFrom("parent", c.op)
    BY DEF StepsFrom, NoCall
  <1>6. path = PathOf[c.key[1]]
    BY <1>4
  <1> HIDE DEF c, path
  <1>7. Begin(t, c, StepsFrom("parent", c.op), path)
    BY <1>1, <1>5
  <1>8. /\ call' \in [Threads -> CallType] /\ call'[t] = c
        /\ DOMAIN todo' = Threads /\ DOMAIN cold' = Threads /\ Still(t)
        /\ ~Busy(t) /\ ~Busy(t)' /\ Runs(t)' /\ Owns(t)'
        /\ UNCHANGED <<nlink, entry, holder, creating, data>>
    BY <1>1, <1>3, <1>4, <1>6, <1>7, Begun
  <1>9. QED
    BY <1>2, <1>4, <1>8, QuietKeeps DEF Locks

LEMMA GetattrKeeps ==
    ASSUME IInv, NEW t \in Threads, NEW j \in Keys, Getattr(t, j)
    PROVE  IInv'
  <1> DEFINE c == [NoCall EXCEPT !.op = "getattr", !.node = entry[j], !.by = j]
             path == FileWay(c)
  <1>1. Begin(t, c, GetattrSteps, path) /\ UNCHANGED <<nlink, entry, holder, creating>>
    BY DEF Getattr
  <1>2. Rest /\ Locks /\ Counts
    BY DEF IInv
  <1>3. entry[j] \in Files
    BY <1>2 DEF Counts, Getattr
  <1>4. c \in CallType /\ c.op = "getattr" /\ ~c.done /\ c.node = entry[j] /\ c.by = j
    BY <1>3 DEF NoCall, CallType
  <1>5. GetattrSteps = StepsFrom("get", c.op)
    BY OneAndTwo DEF StepsFrom, GetattrSteps, Ending
  <1>6. path = FileWay(c)
    BY <1>4
  <1> HIDE DEF c, path
  <1>7. Begin(t, c, StepsFrom("get", c.op), path)
    BY <1>1, <1>5
  <1>8. /\ call' \in [Threads -> CallType] /\ call'[t] = c
        /\ DOMAIN todo' = Threads /\ DOMAIN cold' = Threads /\ Still(t)
        /\ ~Busy(t) /\ ~Busy(t)' /\ Runs(t)' /\ Owns(t)'
        /\ UNCHANGED <<nlink, entry, holder, creating, data>>
    BY <1>1, <1>3, <1>4, <1>6, <1>7, Begun
  <1>9. QED
    BY <1>2, <1>4, <1>8, QuietKeeps DEF Locks

LEMMA ReaddirKeeps ==
    ASSUME IInv, NEW t \in Threads, NEW k \in Keys, Readdir(t, k)
    PROVE  IInv'
  <1> DEFINE c == [NoCall EXCEPT !.op = "readdir", !.key = k]
             path == PathOf[k[1]]
  <1>1. Begin(t, c, ReaddirSteps, path) /\ UNCHANGED <<nlink, entry, holder, creating>>
    BY DEF Readdir
  <1>2. Rest /\ Locks /\ Counts
    BY DEF IInv
  <1>4. c \in CallType /\ c.op = "readdir" /\ ~c.done /\ c.key = k
    BY DEF NoCall, CallType
  <1>5. ReaddirSteps = StepsFrom("parent", c.op)
    BY DEF StepsFrom, NoCall
  <1>6. path = PathOf[c.key[1]]
    BY <1>4
  <1> HIDE DEF c, path
  <1>7. Begin(t, c, StepsFrom("parent", c.op), path)
    BY <1>1, <1>5
  <1>8. /\ call' \in [Threads -> CallType] /\ call'[t] = c
        /\ DOMAIN todo' = Threads /\ DOMAIN cold' = Threads /\ Still(t)
        /\ ~Busy(t) /\ ~Busy(t)' /\ Runs(t)' /\ Owns(t)'
        /\ UNCHANGED <<nlink, entry, holder, creating, data>>
    BY <1>1, <1>4, <1>6, <1>7, Begun
  <1>9. QED
    BY <1>2, <1>4, <1>8, QuietKeeps DEF Locks

(* A page of a lookup is locked: the thread is where it was. *)
LEMMA LookupKeeps ==
    ASSUME IInv, NEW t \in Threads, Lookup(t)
    PROVE  IInv'
  <1>1. /\ cold[t] # {} /\ Grant(t) /\ UNCHANGED <<nlink, entry, creating, call, todo, data>>
    BY DEF Lookup
  <1>2. Rest /\ Locks
    BY DEF IInv
  <1>3. PICK rest \in SUBSET cold[t] : cold' = [cold EXCEPT ![t] = rest]
    <2>1. DOMAIN cold = Threads
      BY <1>2 DEF Rest
    <2>2. QED
      BY <2>1 DEF Lookup
  <1>4. DOMAIN cold' = Threads /\ cold'[t] = rest /\ Still(t)
    BY <1>1, <1>2, <1>3 DEF Rest, Still
  <1>5. At(t) \in Finding /\ Runs(t)
    BY <1>1, <1>2, ColdIs DEF Rest
  <1>6. At(t)' = At(t) /\ Dir(t)' = Dir(t) /\ Way(t)' = Way(t)
    BY <1>1 DEF At, Dir, Way, Due
  <1>7. ~Busy(t) /\ ~Busy(t)'
    BY <1>5, <1>6 DEF Busy, Ends, Finding
  <1>8. Runs(t)'
    <2>1. cold'[t] # {} => At(t)' \in Finding /\ cold'[t] \subseteq DOMAIN Way(t)'
      BY <1>3, <1>4, <1>5, <1>6 DEF Runs
    <2>2. QED
      BY <2>1, <1>1, <1>5, <1>6 DEF Runs
  <1>9. /\ holder' \in [Items -> Threads \cup {NoThread}] /\ Guarded(t)'
        /\ \A x \in Items : holder[x] = t => holder'[x] = t
        /\ \A u \in Threads \ {t}, x \in Items : holder'[x] = u <=> holder[x] = u
    BY <1>1, <1>2, Grants
  <1>10. Owns(t)'
    <2>1. Owns(t)
      BY <1>2 DEF Locks
    <2>2. \A m : ~Has(t, m)'
      BY <1>7 DEF Has
    <2>3. At(t)' \in Found => holder'[N(Dir(t))'] = t
      <3>1. ASSUME At(t)' \in Found PROVE holder'[N(Dir(t))] = t
        <4>1. holder[N(Dir(t))] = t
          BY <2>1, <3>1, <1>6 DEF Owns
        <4>2. Dir(t) \in Ids
          BY <3>1, <1>2, <1>5, <1>6, DirIs DEF Runs, Found
        <4>3. QED
          BY <4>1, <4>2, <1>9, PagesOfIds
      <3>2. QED
        BY <3>1, <1>6 DEF N
    <2>4. QED
      BY <2>1, <2>2, <2>3, <1>1, <1>5, <1>6, <1>9 DEF Owns, Finding
  <1>11. t \in Makers \/ At(t)' \notin Making \/ call'[t].op # "mknod"
    BY <1>1, <1>6 DEF Makers
  <1>12. QED
    BY <1>1, <1>2, <1>4, <1>7, <1>8, <1>9, <1>10, <1>11, QuietKeeps DEF Locks, Rest

LEMMA ParentKeeps ==
    ASSUME IInv, NEW t \in Threads, Parent(t)
    PROVE  IInv'
  <1>1. /\ Due(t, "parent") /\ cold[t] = {} /\ Grant(t) /\ Advance(t)
        /\ UNCHANGED <<nlink, entry, creating, call, data>>
    BY DEF Parent, Granted
  <1>a. PICK missing \in SUBSET (IF call[t].op = "link" THEN DOMAIN FileWay(call[t]) ELSE {}) :
           cold' = [cold EXCEPT ![t] = missing]
    BY DEF Parent
  <1>2. Rest /\ Locks
    BY DEF IInv
  <1>3. At(t) = "parent"
    BY <1>1, DueIsAt DEF Stages, Making
  <1>4. Runs(t) /\ call[t].op \in {"mknod", "link", "readdir"}
    BY <1>2, <1>3 DEF Rest, Runs
  <1>5. At(t)' = IF call[t].op = "mknod" THEN "createregister"
                 ELSE IF call[t].op = "link" THEN "node" ELSE "list"
    BY <1>1, <1>2, <1>3, Moved DEF After
  <1>6. /\ todo'[t] = StepsFrom(At(t)', call[t].op)
        /\ \A u \in Threads \ {t} : todo'[u] = todo[u]
        /\ DOMAIN todo' = Threads
    BY <1>1, <1>2, <1>3, <1>5, Moved DEF After
  <1>7. ~Busy(t) /\ ~Busy(t)'
    BY <1>1, <1>3, <1>4, <1>5 DEF Busy, Ends
  <1>b. DOMAIN cold' = Threads /\ cold'[t] = missing /\ Still(t)
    BY <1>1, <1>2, <1>6, <1>a DEF Rest, Still
  <1>8. Runs(t)'
    <2>1. ASSUME cold'[t] # {}
          PROVE  At(t)' \in Finding /\ cold'[t] \subseteq DOMAIN Way(t)'
      <3>1. call[t].op = "link" /\ At(t)' = "node"
        BY <2>1, <1>5, <1>a, <1>b
      <3>2. ~Due(t, "parent")'
        BY <3>1 DEF Due, At, AtOf
      <3>3. Way(t)' = FileWay(call[t])
        BY <3>2, <1>1 DEF Way, FileWay
      <3>4. QED
        BY <3>1, <3>3, <1>a, <1>b DEF Finding
    <2>2. QED
      BY <2>1, <1>1, <1>3, <1>4, <1>5, <1>6 DEF Runs, Stages, Making, Ends
  <1>9. Asked(t) = {N(Dir(t))} /\ Dir(t) \in Ids
    BY <1>1, <1>2, <1>3, <1>4, AskedAt, DirIs
  <1>10. /\ holder' \in [Items -> Threads \cup {NoThread}] /\ Guarded(t)'
         /\ holder'[N(Dir(t))] = t
         /\ \A x \in Items : holder'[x] = t <=> (holder[x] = t \/ x \in Asked(t))
         /\ \A u \in Threads \ {t}, x \in Items : holder'[x] = u <=> holder[x] = u
    BY <1>1, <1>2, <1>9, Grants
  <1>11. Owns(t)'
    <2>1. Owns(t)
      BY <1>2 DEF Locks
    <2>2. creating # t
      BY <2>1, <1>3 DEF Owns
    <2>3. \A m : ~Has(t, m)'
      BY <1>7 DEF Has
    <2>4. holder'[N(Dir(t))'] = t
      BY <1>1, <1>10 DEF Dir, N
    <2>5. QED
      BY <2>2, <2>3, <2>4, <1>1, <1>5, <1>10 DEF Owns
  <1>12. t \in Makers \/ call'[t].op # "mknod"
    BY <1>1, <1>3 DEF Makers, Making
  <1>13. QED
    BY <1>1, <1>2, <1>6, <1>7, <1>8, <1>b, <1>10, <1>11, <1>12, QuietKeeps DEF Locks, Rest

LEMMA ReadKeeps ==
    ASSUME IInv, NEW t \in Threads, Read(t)
    PROVE  IInv'
  <1>1. /\ cold[t] = {} /\ Grant(t) /\ Advance(t)
        /\ Due(t, "get") \/ Due(t, "list")
        /\ UNCHANGED <<nlink, entry, creating, call, cold, data>>
    BY DEF Read, Granted
  <1>2. Rest /\ Locks
    BY DEF IInv
  <1>3. At(t) \in {"get", "list"}
    BY <1>1, DueIsAt DEF Stages
  <1>4. Runs(t) /\ call[t].op \in {"getattr", "readdir"} /\ ~call[t].done
    BY <1>2, <1>3 DEF Rest, Runs, Ends
  <1>5. At(t)' = "directories"
    BY <1>1, <1>2, <1>3, Moved DEF After
  <1>6. /\ todo'[t] = StepsFrom(At(t)', call[t].op)
        /\ \A u \in Threads \ {t} : todo'[u] = todo[u]
        /\ DOMAIN todo' = Threads
    BY <1>1, <1>2, <1>3, <1>5, Moved DEF After
  <1>7. ~Busy(t) /\ ~Busy(t)' /\ Still(t)
    BY <1>1, <1>3, <1>4, <1>5, <1>6 DEF Busy, Ends, Still
  <1>8. Runs(t)'
    BY <1>1, <1>3, <1>4, <1>5, <1>6 DEF Runs, Stages, Making, Ends
  <1>9. /\ holder' \in [Items -> Threads \cup {NoThread}] /\ Guarded(t)'
        /\ \A u \in Threads \ {t}, x \in Items : holder'[x] = u <=> holder[x] = u
    BY <1>1, <1>2, Grants
  <1>10. Owns(t)'
    <2>1. creating # t
      BY <1>2, <1>3 DEF Locks, Owns
    <2>2. \A m : ~Has(t, m)'
      BY <1>7 DEF Has
    <2>3. QED
      BY <2>1, <2>2, <1>1, <1>4, <1>5, <1>9 DEF Owns, Found
  <1>11. QED
    BY <1>1, <1>2, <1>4, <1>6, <1>7, <1>8, <1>9, <1>10, QuietKeeps DEF Locks, Rest

LEMMA CreateLockKeeps ==
    ASSUME IInv, NEW t \in Threads, CreateLock(t)
    PROVE  IInv'
  <1>1. /\ Due(t, "createregister") /\ Advance(t) /\ creating = NoThread /\ creating' = t
        /\ UNCHANGED <<nlink, entry, holder, call, cold, data>>
    BY DEF CreateLock
  <1>2. Rest /\ Locks
    BY DEF IInv
  <1>3. At(t) = "createregister"
    BY <1>1, DueIsAt DEF Stages, Making
  <1>4. Runs(t) /\ call[t].op = "mknod"
    BY <1>2, <1>3 DEF Rest, Runs
  <1>5. At(t)' = "last"
    BY <1>1, <1>2, <1>3, Moved DEF After
  <1>6. /\ todo'[t] = StepsFrom("last", call[t].op)
        /\ \A u \in Threads \ {t} : todo'[u] = todo[u]
        /\ DOMAIN todo' = Threads
    BY <1>1, <1>2, <1>3, Moved DEF After
  <1>7. ~Busy(t) /\ ~Busy(t)'
    BY <1>3, <1>5 DEF Busy, Ends
  <1>c. cold'[t] = {}
    BY <1>1, <1>2, <1>3, ColdIs DEF Finding
  <1>8. Runs(t)'
    BY <1>c, <1>1, <1>3, <1>4, <1>5, <1>6 DEF Runs, Stages, Making, Ends
  <1>9. Owns(t)'
    <2>1. Owns(t)
      BY <1>2 DEF Locks
    <2>2. \A m : ~Has(t, m)'
      BY <1>7 DEF Has
    <2>3. Dir(t)' = Dir(t)
      BY <1>1 DEF Dir
    <2>4. Guarded(t)'
      BY <2>1, <1>1 DEF Owns, Guarded
    <2>5. holder'[N(Dir(t))'] = t
      BY <2>1, <1>1, <1>3 DEF Owns, Found, Dir, N
    <2>6. QED
      BY <2>1, <2>2, <2>4, <2>5, <1>1, <1>3, <1>5 DEF Owns, Found
  <1>10. t \in Makers
    BY <1>3, <1>4 DEF Makers, Making
  <1>11. \A u \in Threads \ {t} : creating' = u <=> creating = u
    BY <1>1, ThreadsAssumption
  <1>12. QED
    BY <1>1, <1>2, <1>6, <1>7, <1>8, <1>9, <1>10, <1>11, QuietKeeps DEF Locks, Rest, Still

LEMMA LastIdKeeps ==
    ASSUME IInv, NEW t \in Threads, LastId(t)
    PROVE  IInv'
  <1> DEFINE c == [call[t] EXCEPT !.node = Last + 1]
  <1>1. /\ Due(t, "last") /\ cold[t] = {} /\ Grant(t) /\ Advance(t)
        /\ call' = [call EXCEPT ![t].node = Last + 1]
        /\ UNCHANGED <<nlink, entry, creating, cold, data>>
    BY DEF LastId, Granted
  <1>2. Rest /\ Locks
    BY DEF IInv
  <1>3. At(t) = "last"
    BY <1>1, DueIsAt DEF Stages, Making
  <1>4. Runs(t) /\ call[t].op = "mknod" /\ call[t].key \in Keys /\ ~call[t].done
        /\ call[t] \in CallType
    BY <1>2, <1>3 DEF Rest, Runs, Ends
  <1>5. t \in Makers
    BY <1>3, <1>4 DEF Makers, Making
  <1>6. Last \in Ids /\ Last + 1 \in Files
    <2>1. Last \in Ids /\ (Last < MaxId => Last + 1 \in Files)
      BY LastIs DEF Last, LastOf
    <2>2. Cardinality(Makers) >= 1
      <3>1. IsFiniteSet(Makers)
        BY ThreadsAssumption, FS_Subset DEF Makers
      <3>2. Cardinality(Makers) \in Nat /\ Cardinality(Makers) # 0
        BY <3>1, <1>5, FS_CardinalityType, FS_EmptySet
      <3>3. QED
        BY <3>2
    <2>3. Cardinality(Makers) \in Nat
      BY ThreadsAssumption, FS_Subset, FS_CardinalityType DEF Makers
    <2>4. QED
      BY <2>1, <2>2, <2>3, <1>2, IdsAssumption DEF Rest, Ids
  <1>7. c \in CallType /\ c.op = "mknod" /\ c.key = call[t].key /\ c.node = Last + 1 /\ ~c.done
    BY <1>4, <1>6 DEF CallType
  <1>8. c # NoCall
    BY <1>7 DEF NoCall
  <1>9. call' = [call EXCEPT ![t] = c]
    BY <1>1, <1>2 DEF Rest
  <1> HIDE DEF c
  <1>10. /\ call' \in [Threads -> CallType] /\ call'[t] = c
         /\ \A u \in Threads \ {t} : call'[u] = call[u]
    BY <1>2, <1>7, <1>9 DEF Rest
  <1>11. At(t)' = "put"
    BY <1>1, <1>2, <1>3, Moved DEF After
  <1>12. /\ todo'[t] = StepsFrom("put", call[t].op)
         /\ \A u \in Threads \ {t} : todo'[u] = todo[u]
         /\ DOMAIN todo' = Threads
    BY <1>1, <1>2, <1>3, Moved DEF After
  <1>13. ~Busy(t) /\ ~Busy(t)'
    BY <1>3, <1>11 DEF Busy, Ends
  <1>14. Runs(t)'
    BY <1>1, <1>4, <1>6, <1>7, <1>8, <1>10, <1>11, <1>12 DEF Runs, Stages, Making, Ends
  <1>15. Asked(t) = {N(Last)}
    BY <1>1, <1>3, AskedAt
  <1>16. Last' = Last
    BY <1>1 DEF Last
  <1>17. /\ holder' \in [Items -> Threads \cup {NoThread}] /\ Guarded(t)'
         /\ holder'[N(Last)] = t
         /\ \A x \in Items : holder[x] = t => holder'[x] = t
         /\ \A u \in Threads \ {t}, x \in Items : holder'[x] = u <=> holder[x] = u
    BY <1>1, <1>2, <1>15, Grants
  <1>a. Owns(t)'
    <2>1. Owns(t)
      BY <1>2 DEF Locks
    <2>2. Dir(t)' = Dir(t) /\ Dir(t) \in Ids
      BY <1>2, <1>4, <1>7, <1>10, DirIs DEF Dir
    <2>3. \A m : ~Has(t, m)'
      BY <1>13 DEF Has
    <2>4. creating' = t
      BY <2>1, <1>1, <1>3 DEF Owns
    <2>5. holder'[N(Dir(t))] = t
      BY <2>1, <2>2, <1>3, <1>17, PagesOfIds DEF Owns, Found
    <2>6. holder'[N(Dir(t))'] = t /\ holder'[N(Last)'] = t
      BY <2>2, <2>5, <1>16, <1>17 DEF N
    <2>7. QED
      BY <2>3, <2>4, <2>6, <1>7, <1>10, <1>11, <1>16, <1>17 DEF Owns
  <1>18. QED
    BY <1>1, <1>2, <1>5, <1>10, <1>12, <1>13, <1>14, <1>17, <1>a, QuietKeeps
       DEF Locks, Still, Rest

LEMMA FindNodeKeeps ==
    ASSUME IInv, NEW t \in Threads, FindNode(t)
    PROVE  IInv'
  <1>0. PICK n : n = call[t].node
    OBVIOUS
  <1>1. /\ Due(t, "node") /\ cold[t] = {} /\ Grant(t)
        /\ UNCHANGED <<entry, creating, call, cold, data>>
    BY DEF FindNode, Granted
  <1>2. Rest /\ Locks /\ Counts /\ Logged
    BY DEF IInv
  <1>3. At(t) = "node"
    BY <1>1, DueIsAt DEF Stages
  <1>4. Runs(t) /\ call[t].op = "link" /\ call[t].key \in Keys /\ ~call[t].done /\ n \in Files
    BY <1>0, <1>2, <1>3 DEF Rest, Runs, Ends
  <1>5. Asked(t) = {N(n)}
    BY <1>0, <1>1, <1>3, AskedAt
  <1>6. /\ holder' \in [Items -> Threads \cup {NoThread}]
        /\ holder[N(n)] \in {t, NoThread}
        /\ Guarded(t)' /\ holder'[N(n)] = t
        /\ \A x \in Items : holder'[x] = t <=> (holder[x] = t \/ x = N(n))
        /\ \A u \in Threads \ {t}, x \in Items : holder'[x] = u <=> holder[x] = u
    BY <1>1, <1>2, <1>5, Grants
  <1>7. Owns(t)
    BY <1>2 DEF Locks
  <1>8. creating' # t /\ Dir(t)' = Dir(t) /\ holder'[N(Dir(t))'] = t
    <2>1. creating' # t /\ Dir(t)' = Dir(t) /\ holder[N(Dir(t))] = t
      BY <1>1, <1>3, <1>7 DEF Owns, Dir, Found
    <2>2. Dir(t) \in Ids
      BY <1>2, <1>4, DirIs
    <2>3. QED
      BY <2>1, <2>2, <1>6, PagesOfIds DEF N
  <1>9. CASE nlink[n] = 0
    <2>1. todo' = [todo EXCEPT ![t] = Ending] /\ nlink' = nlink
      BY <1>0, <1>9 DEF FindNode
    <2>2. StepsFrom("directories", call[t].op) = Ending
      BY DEF StepsFrom, Ending
    <2>3. At(t)' = "directories" /\ todo'[t] = Ending /\ Still(t) /\ DOMAIN todo' = Threads
      <3>1. AtOf(Ending) = "directories"
        BY DEF AtOf, Ending
      <3>2. todo'[t] = Ending /\ Still(t) /\ DOMAIN todo' = Threads
        BY <2>1, <1>1, <1>2 DEF Rest, Still
      <3>3. QED
        BY <3>1, <3>2 DEF At
    <2>4. ~Busy(t) /\ ~Busy(t)'
      BY <1>1, <1>3, <1>4, <2>3 DEF Busy, Ends
    <2>5. Runs(t)'
      BY <1>0, <1>1, <1>3, <1>4, <2>2, <2>3 DEF Runs, Stages, Making, Ends
    <2>6. Owns(t)'
      <3>1. \A m : ~Has(t, m)'
        BY <2>4 DEF Has
      <3>2. QED
        BY <1>1, <1>4, <1>6, <1>8, <2>3, <3>1 DEF Owns, Found
    <2>7. QED
      BY <1>1, <1>2, <1>4, <1>6, <2>1, <2>3, <2>4, <2>5, <2>6, QuietKeeps DEF Locks, Rest
  <1>10. CASE nlink[n] # 0
    <2>1. Advance(t) /\ nlink' = [nlink EXCEPT ![n] = @ + 1]
      BY <1>0, <1>10 DEF FindNode
    <2>2. At(t)' = "addchild"
      BY <1>2, <1>3, <2>1, Moved DEF After
    <2>3. /\ todo'[t] = StepsFrom("addchild", call[t].op)
          /\ \A u \in Threads \ {t} : todo'[u] = todo[u]
          /\ DOMAIN todo' = Threads
      BY <1>2, <1>3, <2>1, Moved DEF After
    <2>4. Still(t)
      BY <1>1, <2>3 DEF Still
    <2>5. /\ nlink' \in [Files -> Nat] /\ nlink'[n] = nlink[n] + 1 /\ nlink[n] > 0
          /\ \A m \in Files \ {n} : nlink'[m] = nlink[m]
      BY <1>2, <1>4, <1>10, <2>1 DEF Counts
    <2>6. Last' = Last /\ Last \in Int
      <3>1. \A m \in Files : nlink'[m] > 0 <=> nlink[m] > 0
        BY <1>2, <2>5 DEF Counts
      <3>2. LastOf(nlink') = LastOf(nlink)
        BY <3>1, <2>5, <1>2, LastSame DEF Counts
      <3>3. QED
        BY <3>2, LastIs DEF Last, LastOf, Ids
    <2>7. Has(t, n)' /\ \A m \in Files \ {n} : ~Has(t, m) /\ ~Has(t, m)'
      BY <1>0, <1>1, <2>2 DEF Has, Busy
    <2>8. Runs(t)'
      BY <1>0, <1>1, <1>3, <1>4, <2>2, <2>3 DEF Runs, Stages, Making, Ends
    <2>9. Owns(t)'
      BY <1>0, <1>1, <1>6, <1>8, <2>2, <2>7 DEF Owns
    <2>10. Makers' \subseteq Makers
      BY <2>4, StillThere, <1>1, <1>4 DEF Makers
    <2>11. \A u \in Threads \ {t} : ~Has(u, n)
      BY <1>2, <1>4, <1>6, OneHas
    <2>12. ~Adding(n) /\ Adding(n)'
      <3>1. \A u \in Threads \ {t} : ~(At(u) = "addchild" /\ call[u].node = n)
        BY <2>11 DEF Has, Busy
      <3>2. QED
        BY <3>1, <2>2, <2>4, <1>0, <1>1, <1>3, AddingNow
    <2>13. \A m \in Files \ {n} : Adding(m)' <=> Adding(m)
      BY <2>2, <2>4, <1>0, <1>1, <1>3, AddingNow
    <2>14. Counts'
      <3>1. \A m \in Files : Gap(m)' = Gap(m)
        <4>1. Gap(n)' = Gap(n)
          BY <1>1, <2>5, <2>12, <1>4, <1>2, CountNat DEF Gap, Off, Counts
        <4>2. \A m \in Files \ {n} : Gap(m)' = Gap(m)
          BY <1>1, <2>5, <2>13 DEF Gap, Off
        <4>3. QED
          BY <4>1, <4>2
      <3>2. \A m \in Files : Adding(m)' => nlink'[m] > 0
        BY <2>5, <2>13, <1>2 DEF Counts
      <3>3. QED
        BY <3>1, <3>2, <2>5, <1>1, <1>2, CountsKept DEF Counts, data
    <2>15. Logged'
      <3>1. PICK f : Replay(f)
        BY <1>2 DEF Logged
      <3>2. PICK B : B = f[Len(log)]
        OBVIOUS
      <3>3. Meets(B)
        BY <3>1, <3>2 DEF Replay
      <3>4. \A u \in Threads : ~Has(u, n)
        BY <2>11, <1>3 DEF Has, Busy, Ends
      <3>5. nlink'[n] = B.nlink[n] + 1
        BY <3>3, <3>4, <2>5, <1>4 DEF Meets
      <3>6. \A p \in Ends : ~Committing(t, p) /\ ~Committing(t, p)'
        BY <1>3, <2>2 DEF Committing, Ends
      <3>7. Meets(B)'
        BY <3>3, <3>5, <3>6, <2>4, <2>5, <2>7, <1>1, <1>4, MeetsSame
      <3>8. QED
        BY <3>1, <3>2, <3>7, <1>1, SameLog
    <2>16. Rest'
      BY <1>1, <1>2, <2>3, <2>4, <2>6, <2>8, <2>10, FewerMakers, RestKept DEF Rest, data
    <2>17. Locks'
      BY <1>1, <1>2, <1>6, <2>4, <2>6, <2>9, LocksKept DEF Locks
    <2>18. QED
      BY <2>14, <2>15, <2>16, <2>17 DEF IInv
  <1>11. QED
    BY <1>9, <1>10

(* A thread that waits in a circle has not made a name. *)
LEMMA DetectedAt ==
    ASSUME Rest, Locks, NEW t \in Threads, Detected(t)
    PROVE  At(t) \notin {"idle", "createregister"} \cup Ends
  <1>1. PICK S \in SUBSET Threads, db \in {"nodes", "directories"} :
           t \in S /\ Stuck(S, LAMBDA u : WaitsIn(u, db))
    BY DEF Detected
  <1>2. WaitsIn(t, db) # {}
    BY <1>1 DEF Stuck
  <1>3. PICK x \in Asked(t) : TRUE
    BY <1>2 DEF WaitsIn
  <1>4. QED
    BY <1>3, AskedIs

(* What is left when the handler of t ends with an exception. *)
LEMMA ReleasedIs ==
    ASSUME Rest, Locks, NEW t \in Threads, Released(t)
    PROVE  /\ call' \in [Threads -> CallType] /\ Still(t) /\ Runs(t)'
           /\ DOMAIN todo' = Threads /\ DOMAIN cold' = Threads
           /\ At(t)' = "idle" /\ ~Busy(t)' /\ UNCHANGED <<entry, data>>
           /\ holder' \in [Items -> Threads \cup {NoThread}]
           /\ creating' \in Threads \cup {NoThread}
           /\ \A u \in Threads \ {t} : /\ \A x \in Items : holder'[x] = u <=> holder[x] = u
                                       /\ creating' = u <=> creating = u
           /\ Owns(t)'
  <1>1. /\ holder' = [x \in Items |-> IF holder[x] = t THEN NoThread ELSE holder[x]]
        /\ creating' = IF creating = t THEN NoThread ELSE creating
        /\ call' = [call EXCEPT ![t] = NoCall]
        /\ todo' = [todo EXCEPT ![t] = <<>>]
        /\ cold' = [cold EXCEPT ![t] = {}]
        /\ UNCHANGED <<entry, data>>
    BY DEF Released
  <1>2. /\ NoCall \in CallType /\ NoCall.op = "none" /\ ~NoCall.done
        /\ NoCall.node \notin Files
    BY NoNodeIsNoFile DEF NoCall, CallType
  <1>3. /\ call' \in [Threads -> CallType] /\ call'[t] = NoCall /\ Still(t)
        /\ todo'[t] = <<>> /\ DOMAIN todo' = Threads
        /\ cold'[t] = {} /\ DOMAIN cold' = Threads
    BY <1>1, <1>2 DEF Rest, Still
  <1>4. At(t)' = "idle"
    BY <1>3 DEF At, AtOf
  <1>5. ~Busy(t)'
    BY <1>4 DEF Busy, Ends
  <1>6. Runs(t)'
    <2>1. StepsFrom("idle", NoCall.op) = <<>>
      BY DEF StepsFrom
    <2>2. QED
      BY <2>1, <1>2, <1>3, <1>4 DEF Runs, Stages, Making, Ends
  <1>7. /\ holder' \in [Items -> Threads \cup {NoThread}]
        /\ creating' \in Threads \cup {NoThread}
        /\ \A u \in Threads \ {t} : /\ \A x \in Items : holder'[x] = u <=> holder[x] = u
                                    /\ creating' = u <=> creating = u
        /\ creating' # t /\ \A x \in Items : holder'[x] # t
    BY <1>1, ThreadsAssumption DEF Locks
  <1>8. Owns(t)'
    <2>1. \A n : ~Has(t, n)'
      BY <1>5 DEF Has
    <2>2. Guarded(t)'
      BY <1>7, PagesOfIds DEF Guarded, D
    <2>3. QED
      BY <2>1, <2>2, <1>4, <1>7 DEF Owns, Found
  <1>9. QED
    BY <1>1, <1>3, <1>4, <1>5, <1>6, <1>7, <1>8

(* A transaction ends: what becomes of the thread and its locks. *)
LEMMA CommitStep ==
    ASSUME Rest, Locks, NEW t \in Threads, NEW db \in Ends, Commit(t, db)
    PROVE  /\ At(t) = db /\ Still(t) /\ DOMAIN todo' = Threads /\ DOMAIN cold' = Threads
           /\ At(t)' = IF db = "directories" THEN "nodes" ELSE "idle"
           /\ call'[t] = IF db = "directories" THEN call[t] ELSE NoCall
           /\ call' \in [Threads -> CallType] /\ Runs(t)' /\ Owns(t)'
           /\ holder' \in [Items -> Threads \cup {NoThread}]
           /\ \A u \in Threads \ {t}, x \in Items : holder'[x] = u <=> holder[x] = u
  <1>1. /\ Due(t, db) /\ Advance(t)
        /\ holder' = [x \in Items |-> IF x[1] = db /\ holder[x] = t THEN NoThread ELSE holder[x]]
        /\ call' = IF Len(todo[t]) = 1 THEN [call EXCEPT ![t] = NoCall] ELSE call
        /\ creating' = creating /\ nlink' = nlink /\ cold' = cold
    BY DEF Commit
  <1>2. At(t) = db
    BY <1>1, DueIsAt DEF Ends, Stages
  <1>3. At(t) # "idle"
    BY <1>2 DEF Ends
  <1>4. /\ At(t)' = After(At(t), call[t].op)
        /\ todo'[t] = StepsFrom(At(t)', call[t].op)
        /\ \A u \in Threads \ {t} : todo'[u] = todo[u]
        /\ DOMAIN todo' = Threads
        /\ Len(todo[t]) = 1 <=> At(t) = "nodes"
    BY <1>1, <1>3, Moved
  <1>5. At(t)' = IF db = "directories" THEN "nodes" ELSE "idle"
    BY <1>2, <1>4 DEF After, Ends
  <1>6. NoCall \in CallType /\ NoCall.op = "none" /\ ~NoCall.done /\ NoCall.node \notin Files
    BY NoNodeIsNoFile DEF NoCall, CallType
  <1>7. /\ call'[t] = IF db = "directories" THEN call[t] ELSE NoCall
        /\ call' \in [Threads -> CallType] /\ Still(t)
    BY <1>1, <1>2, <1>4, <1>6 DEF Ends, Rest, Still
  <1>8. Runs(t) /\ cold[t] = {} /\ DOMAIN cold' = Threads
    BY <1>1, <1>2, ColdIs DEF Rest, Finding, Ends
  <1>9. Runs(t)'
    <2>1. CASE db = "directories"
      BY <2>1, <1>1, <1>2, <1>4, <1>5, <1>7, <1>8 DEF Runs, Stages, Making, Ends
    <2>2. CASE db = "nodes"
      <3>1. todo'[t] = <<>> /\ StepsFrom("idle", NoCall.op) = <<>>
        BY <2>2, <1>4, <1>5 DEF StepsFrom
      <3>2. QED
        BY <3>1, <2>2, <1>1, <1>5, <1>6, <1>7, <1>8 DEF Runs, Stages, Making, Ends
    <2>3. QED
      BY <2>1, <2>2 DEF Ends
  <1>10. /\ holder' \in [Items -> Threads \cup {NoThread}]
         /\ \A u \in Threads \ {t}, x \in Items : holder'[x] = u <=> holder[x] = u
         /\ \A x \in Items : holder'[x] = t <=> (holder[x] = t /\ x[1] # db)
    BY <1>1, ThreadsAssumption DEF Locks
  <1>11. Owns(t)'
    <2>1. Owns(t)
      BY DEF Locks
    <2>2. CASE db = "directories"
      <3>1. \A n \in Files : Has(t, n)' => holder'[N(n)] = t
        <4>1. ASSUME NEW n \in Files, Has(t, n)' PROVE holder'[N(n)] = t
          <5>1. Has(t, n)
            BY <4>1, <2>2, <1>2, <1>5, <1>7 DEF Has, Busy, Ends
          <5>2. holder[N(n)] = t /\ N(n) \in Items /\ N(n)[1] = "nodes"
            BY <5>1, <2>1, PagesOfIds DEF Owns, Files
          <5>3. QED
            BY <5>2, <1>10, <2>2
        <4>2. QED
          BY <4>1
      <3>2. creating' # t /\ At(t)' = "nodes"
        BY <2>1, <2>2, <1>1, <1>2, <1>5 DEF Owns
      <3>3. \A x \in Items : holder'[x] = t => x[1] # "directories"
        BY <2>2, <1>10
      <3>4. Guarded(t)'
        BY <3>3, PagesOfIds DEF Guarded, D
      <3>5. QED
        BY <3>1, <3>2, <3>3, <3>4 DEF Owns, Found
    <2>3. CASE db = "nodes"
      <3>1. \A x \in Items : holder'[x] # t
        BY <2>1, <2>3, <1>2, <1>10, PagesOfIds DEF Owns, Ends
      <3>2. creating' # t /\ At(t)' = "idle"
        BY <2>1, <2>3, <1>1, <1>2, <1>5 DEF Owns
      <3>3. \A n : ~Has(t, n)'
        BY <3>2 DEF Has, Busy, Ends
      <3>4. Guarded(t)'
        BY <3>1, PagesOfIds DEF Guarded, D
      <3>5. QED
        BY <3>1, <3>2, <3>3, <3>4 DEF Owns, Found
    <2>4. QED
      BY <2>2, <2>3 DEF Ends
  <1>12. QED
    BY <1>2, <1>4, <1>5, <1>7, <1>8, <1>9, <1>10, <1>11

LEMMA NoCommitKeeps ==
    ASSUME IInv, NEW t \in Threads, NEW db \in Ends, Commit(t, db), ~call[t].done
    PROVE  IInv'
  <1>1. Rest /\ Locks
    BY DEF IInv
  <1>2. UNCHANGED <<nlink, entry, creating, data>>
    BY DEF Commit, data
  <1>3. /\ At(t) = db /\ Still(t) /\ DOMAIN todo' = Threads /\ DOMAIN cold' = Threads
        /\ At(t)' = IF db = "directories" THEN "nodes" ELSE "idle"
        /\ call'[t] = IF db = "directories" THEN call[t] ELSE NoCall
        /\ call' \in [Threads -> CallType] /\ Runs(t)' /\ Owns(t)'
        /\ holder' \in [Items -> Threads \cup {NoThread}]
        /\ \A u \in Threads \ {t}, x \in Items : holder'[x] = u <=> holder[x] = u
    BY <1>1, CommitStep
  <1>4. ~Busy(t) /\ ~Busy(t)'
    BY <1>3 DEF Busy, Ends, NoCall
  <1>5. At(t)' \notin Making
    BY <1>3 DEF Making
  <1>6. creating' \in Threads \cup {NoThread}
    BY <1>1, <1>2 DEF Locks
  <1>7. QED
    BY <1>2, <1>3, <1>4, <1>5, <1>6, QuietKeeps

LEMMA PutKeeps ==
    ASSUME IInv, NEW t \in Threads, Put(t)
    PROVE  IInv'
  <1>0. PICK n : n = call[t].node
    OBVIOUS
  <1>1. /\ Due(t, "put") /\ cold[t] = {} /\ Grant(t) /\ Advance(t)
        /\ nlink' = [nlink EXCEPT ![n] = 1] /\ creating' = NoThread
        /\ UNCHANGED <<entry, call, cold, data>>
    BY <1>0 DEF Put, Granted
  <1>2. Rest /\ Locks /\ Counts /\ Logged
    BY DEF IInv
  <1>3. At(t) = "put"
    BY <1>1, DueIsAt DEF Stages, Making
  <1>4. Runs(t) /\ call[t].op = "mknod" /\ call[t].key \in Keys /\ ~call[t].done /\ n \in Files
    BY <1>0, <1>2, <1>3 DEF Rest, Runs, Ends
  <1>5. Asked(t) = {N(n)}
    BY <1>0, <1>1, <1>3, AskedAt
  <1>6. /\ holder' \in [Items -> Threads \cup {NoThread}]
        /\ holder[N(n)] \in {t, NoThread}
        /\ Guarded(t)' /\ holder'[N(n)] = t
        /\ \A x \in Items : holder'[x] = t <=> (holder[x] = t \/ x = N(n))
        /\ \A u \in Threads \ {t}, x \in Items : holder'[x] = u <=> holder[x] = u
    BY <1>1, <1>2, <1>5, Grants
  <1>7. Owns(t)
    BY <1>2 DEF Locks
  <1>8. n = Last + 1 /\ creating = t
    BY <1>0, <1>3, <1>7 DEF Owns
  <1>9. Last \in Int /\ nlink[n] = 0 /\ Last' = Last + 1
    <2>1. /\ LastOf(nlink) \in Ids
          /\ \A m \in Files : nlink[m] > 0 => m <= LastOf(nlink)
          /\ \A d \in Dirs : d <= LastOf(nlink)
      BY LastIs
    <2>2. /\ LastOf(nlink') \in Ids
          /\ LastOf(nlink') \in Dirs \/ (LastOf(nlink') \in Files /\ nlink'[LastOf(nlink')] > 0)
          /\ \A m \in Files : nlink'[m] > 0 => m <= LastOf(nlink')
      BY LastIs
    <2>3. LastOf(nlink) = Last /\ LastOf(nlink') = Last'
      BY DEF LastOf, Last
    <2>4. Last \in Int /\ Last' \in Int
      BY <2>1, <2>2, <2>3 DEF Ids
    <2>5. nlink \in [Files -> Nat]
      BY <1>2 DEF Counts
    <2>6. nlink[n] = 0
      BY <2>1, <2>3, <2>4, <2>5, <1>4, <1>8
    <2>7. nlink'[n] = 1 /\ \A m \in Files \ {n} : nlink'[m] = nlink[m]
      BY <2>5, <1>1, <1>4
    <2>8. n <= Last'
      BY <2>2, <2>3, <2>7, <1>4
    <2>9. Last' <= Last + 1
      <3>1. CASE Last' \in Dirs
        BY <3>1, <2>1, <2>3, <2>4
      <3>2. CASE Last' \in Files /\ nlink'[Last'] > 0
        BY <3>2, <2>1, <2>3, <2>4, <2>7, <1>8
      <3>3. QED
        BY <3>1, <3>2, <2>2, <2>3
    <2>10. QED
      BY <2>4, <2>6, <2>8, <2>9, <1>8
  <1>10. At(t)' = "addchild"
    BY <1>1, <1>2, <1>3, Moved DEF After
  <1>11. /\ todo'[t] = StepsFrom("addchild", call[t].op)
         /\ \A u \in Threads \ {t} : todo'[u] = todo[u]
         /\ DOMAIN todo' = Threads
    BY <1>1, <1>2, <1>3, Moved DEF After
  <1>12. Still(t)
    BY <1>1, <1>11 DEF Still
  <1>13. /\ nlink' \in [Files -> Nat] /\ nlink'[n] = 1
         /\ \A m \in Files \ {n} : nlink'[m] = nlink[m]
    BY <1>1, <1>2, <1>4 DEF Counts
  <1>14. Has(t, n)' /\ \A m \in Files \ {n} : ~Has(t, m) /\ ~Has(t, m)'
    BY <1>0, <1>1, <1>10 DEF Has, Busy
  <1>15. Runs(t)'
    BY <1>0, <1>1, <1>3, <1>4, <1>10, <1>11 DEF Runs, Stages, Making, Ends
  <1>16. Owns(t)'
    <2>1. holder[N(Dir(t))] = t /\ Dir(t) \in Ids
      BY <1>2, <1>3, <1>4, <1>7, DirIs DEF Owns, Found
    <2>2. holder'[N(Dir(t))'] = t
      BY <2>1, <1>1, <1>6, PagesOfIds DEF N, Dir
    <2>3. \A m \in Files : Has(t, m)' => holder'[N(m)] = t
      BY <1>6, <1>14
    <2>4. creating' # t
      BY <1>1, ThreadsAssumption
    <2>5. QED
      BY <2>2, <2>3, <2>4, <1>6, <1>10 DEF Owns
  <1>17. \A u \in Threads \ {t} : ~Has(u, n)
    BY <1>2, <1>4, <1>6, OneHas
  <1>18. ~Adding(n) /\ Adding(n)' /\ \A m \in Files \ {n} : Adding(m)' <=> Adding(m)
    <2>1. \A u \in Threads \ {t} : ~(At(u) = "addchild" /\ call[u].node = n)
      BY <1>17 DEF Has, Busy
    <2>2. ~Adding(n) /\ Adding(n)'
      BY <2>1, <1>0, <1>1, <1>3, <1>10, <1>12, AddingNow
    <2>3. \A m \in Files \ {n} : Adding(m)' <=> Adding(m)
      BY <1>0, <1>1, <1>3, <1>12, AddingNow
    <2>4. QED
      BY <2>2, <2>3
  <1>19. Counts'
    <2>1. Gap(n)' = Gap(n)
      BY <1>1, <1>9, <1>13, <1>18, CountNat DEF Gap, Off
    <2>2. \A m \in Files \ {n} : Gap(m)' = Gap(m)
      BY <1>1, <1>13, <1>18 DEF Gap, Off
    <2>3. \A m \in Files : Adding(m)' => nlink'[m] > 0
      BY <1>13, <1>18, <1>2 DEF Counts
    <2>4. \A m \in Files : Gap(m)' = Gap(m)
      BY <2>1, <2>2
    <2>5. QED
      BY <2>3, <2>4, <1>1, <1>2, <1>13, CountsKept DEF Counts, data
  <1>20. Logged'
    <2>1. PICK f : Replay(f)
      BY <1>2 DEF Logged
    <2>2. PICK B : B = f[Len(log)]
      OBVIOUS
    <2>3. Meets(B)
      BY <2>1, <2>2 DEF Replay
    <2>4. \A u \in Threads : ~Has(u, n)
      BY <1>3, <1>17 DEF Has, Busy, Ends
    <2>5. nlink'[n] = B.nlink[n] + 1
      BY <2>3, <2>4, <1>4, <1>9, <1>13 DEF Meets
    <2>6. \A p \in Ends : ~Committing(t, p) /\ ~Committing(t, p)'
      BY <1>3, <1>10 DEF Committing, Ends
    <2>7. Meets(B)'
      BY <2>3, <2>5, <2>6, <1>1, <1>4, <1>12, <1>13, <1>14, MeetsSame
    <2>8. QED
      BY <2>1, <2>2, <2>7, <1>1, SameLog
  <1>21. Rest'
    <2>1. Makers' = Makers \ {t} /\ t \in Makers
      <3>1. t \in Makers /\ t \notin Makers'
        BY <1>3, <1>4, <1>10 DEF Makers, Making
      <3>2. \A u \in Threads \ {t} : At(u)' = At(u) /\ call'[u] = call[u]
        BY <1>12, StillThere
      <3>3. QED
        BY <3>1, <3>2 DEF Makers
    <2>2. IsFiniteSet(Makers)
      BY ThreadsAssumption, FS_Subset DEF Makers
    <2>3. Cardinality(Makers') = Cardinality(Makers) - 1 /\ Cardinality(Makers) \in Nat
      BY <2>1, <2>2, FS_RemoveElement, FS_CardinalityType
    <2>4. Last' + Cardinality(Makers') <= MaxId
      BY <2>3, <1>2, <1>9, IdsAssumption DEF Rest
    <2>5. QED
      BY <2>4, <1>1, <1>2, <1>11, <1>12, <1>15, RestKept DEF Rest, data
  <1>22. Locks'
    <2>1. \A u \in Threads \ {t} : At(u) # "put" /\ (creating' = u <=> creating = u)
      BY <1>1, <1>2, <1>8, ThreadsAssumption DEF Locks, Owns
    <2>2. creating' \in Threads \cup {NoThread}
      BY <1>1
    <2>3. QED
      BY <2>1, <2>2, <1>2, <1>6, <1>12, <1>16, LocksKept
  <1>23. QED
    BY <1>19, <1>20, <1>21, <1>22 DEF IInv

(* addchild fails, or waits in a circle: what it has counted is taken back. *)
LEMMA TakenBack ==
    ASSUME IInv, NEW t \in Threads, At(t) = "addchild", NEW n, n = call[t].node,
           nlink' = [nlink EXCEPT ![n] = @ - 1], UNCHANGED <<entry, data>>,
           call' \in [Threads -> CallType], Still(t), Runs(t)', Owns(t)',
           DOMAIN todo' = Threads, DOMAIN cold' = Threads,
           ~Busy(t)', At(t)' \notin Making,
           holder' \in [Items -> Threads \cup {NoThread}],
           creating' \in Threads \cup {NoThread},
           \A u \in Threads \ {t} : /\ \A x \in Items : holder'[x] = u <=> holder[x] = u
                                    /\ creating' = u <=> creating = u
    PROVE  IInv'
  <1>1. nlink' = [nlink EXCEPT ![n] = @ - 1] /\ UNCHANGED <<entry, data>>
    OBVIOUS
  <1>2. Rest /\ Locks /\ Counts /\ Logged
    BY DEF IInv
  <1>4. Runs(t) /\ ~call[t].done /\ n \in Files
    BY <1>2 DEF Rest, Runs, Ends
  <1>7. Has(t, n) /\ holder[N(n)] = t
    BY <1>2, <1>4 DEF Locks, Owns, Has, Busy
  <1>8. \A u \in Threads \ {t} : ~Has(u, n)
    BY <1>2, <1>4, <1>7, OneHas
  <1>9. At(t)' # "addchild" /\ \A m : ~Has(t, m)'
    BY DEF Busy, Has
  <1>12. Adding(n) /\ ~Adding(n)' /\ \A m \in Files \ {n} : Adding(m)' <=> Adding(m)
    <2>1. \A u \in Threads \ {t} : ~(At(u) = "addchild" /\ call[u].node = n)
      BY <1>8 DEF Has, Busy
    <2>2. Adding(n) /\ ~Adding(n)'
      BY <2>1, <1>9, AddingNow
    <2>3. \A m \in Files \ {n} : Adding(m)' <=> Adding(m)
      BY <1>9, AddingNow
    <2>4. QED
      BY <2>2, <2>3
  <1>13. /\ nlink' \in [Files -> Nat] /\ nlink'[n] = nlink[n] - 1
         /\ \A m \in Files \ {n} : nlink'[m] = nlink[m]
    BY <1>1, <1>2, <1>4, <1>12 DEF Counts
  <1>15. \A m \in Files \ {n} : ~Has(t, m)
    BY DEF Has
  <1>18. Counts'
    <2>1. Gap(n)' = Gap(n)
      BY <1>1, <1>2, <1>4, <1>12, <1>13, CountNat DEF Gap, Off, Counts
    <2>2. \A m \in Files \ {n} : Gap(m)' = Gap(m)
      BY <1>1, <1>12, <1>13 DEF Gap, Off
    <2>3. \A m \in Files : Adding(m)' => nlink'[m] > 0
      BY <1>12, <1>13, <1>2 DEF Counts
    <2>4. \A m \in Files : Gap(m)' = Gap(m)
      BY <2>1, <2>2
    <2>5. QED
      BY <2>3, <2>4, <1>1, <1>2, <1>13, CountsKept DEF Counts, data
  <1>19. Logged'
    <2>1. PICK f : Replay(f)
      BY <1>2 DEF Logged
    <2>2. PICK B : B = f[Len(log)]
      OBVIOUS
    <2>3. Meets(B)
      BY <2>1, <2>2 DEF Replay
    <2>4. nlink[n] = B.nlink[n] + 1
      BY <2>3, <1>4, <1>12 DEF Meets
    <2>5. nlink'[n] = B.nlink[n]
      <3>1. B.nlink \in [Files -> Nat]
        <4>1. Len(log) \in 0..Len(log)
          BY <1>2 DEF Rest
        <4>2. QED
          BY <4>1, <2>1, <2>2 DEF Replay, Sane
      <3>2. QED
        BY <3>1, <2>4, <1>4, <1>13
    <2>6. \A p \in Ends : ~Committing(t, p) /\ ~Committing(t, p)'
      BY <1>4 DEF Committing, Ends, Busy
    <2>7. Meets(B)'
      BY <2>3, <2>5, <2>6, <1>1, <1>4, <1>9, <1>12, <1>13, <1>15, MeetsSame
    <2>8. QED
      BY <2>1, <2>2, <2>7, <1>1, SameLog
  <1>20. Last' \in Int /\ Last \in Int /\ Last' <= Last
    <2>1. LastOf(nlink) \in Ids /\ LastOf(nlink') \in Ids
      BY LastIs
    <2>2. LastOf(nlink') \in Dirs => LastOf(nlink') <= LastOf(nlink)
      BY LastIs
    <2>3. LastOf(nlink') \notin Dirs => LastOf(nlink') \in Files /\ nlink'[LastOf(nlink')] > 0
      BY LastIs
    <2>4. \A m \in Files : nlink'[m] > 0 => nlink[m] > 0
      BY <1>2, <1>13 DEF Counts
    <2>5. \A m \in Files : nlink[m] > 0 => m <= LastOf(nlink)
      BY LastIs
    <2>6. QED
      BY <2>1, <2>2, <2>3, <2>4, <2>5 DEF Last, LastOf, Ids
  <1>21. Rest'
    <2>1. Makers' \subseteq Makers
      BY StillThere DEF Makers
    <2>2. QED
      BY <2>1, <1>1, <1>2, <1>20, FewerMakers, RestKept DEF Rest, data
  <1>22. Locks'
    <2>1. ASSUME NEW u \in Threads \ {t}, At(u) = "put" PROVE Last' = Last
      <3>1. holder[N(Last)] = u
        BY <2>1, <1>2 DEF Locks, Owns
      <3>2. n # Last
        BY <3>1, <1>7
      <3>3. CASE Last \in Dirs
        <4>1. \A d \in Dirs : d <= LastOf(nlink')
          BY LastIs
        <4>2. QED
          BY <4>1, <3>3, <1>20 DEF LastOf, Last
      <3>4. CASE Last \notin Dirs
        <4>1. Last \in Files /\ nlink[Last] > 0
          BY <3>4, LastIs DEF LastOf, Last
        <4>2. nlink'[Last] > 0
          BY <4>1, <3>2, <1>13
        <4>3. \A m \in Files : nlink'[m] > 0 => m <= LastOf(nlink')
          BY LastIs
        <4>4. Last' = LastOf(nlink')
          BY DEF LastOf, Last
        <4>5. Last <= Last'
          BY <4>1, <4>2, <4>3, <4>4
        <4>6. QED
          BY <4>5, <1>20
      <3>5. QED
        BY <3>3, <3>4
    <2>2. QED
      BY <2>1, <1>2, LocksKept
  <1>23. QED
    BY <1>18, <1>19, <1>21, <1>22 DEF IInv

LEMMA NoAddKeeps ==
    ASSUME IInv, NEW t \in Threads, Addchild(t), entry[call[t].key] # NoNode
    PROVE  IInv'
  <1>0. PICK n : n = call[t].node
    OBVIOUS
  <1>1. /\ Due(t, "addchild") /\ Grant(t) /\ Advance(t)
        /\ nlink' = [nlink EXCEPT ![n] = @ - 1]
        /\ UNCHANGED <<entry, call, creating, cold, data>>
    BY <1>0 DEF Addchild, Unlinked, Granted
  <1>2. Rest /\ Locks
    BY DEF IInv
  <1>3. At(t) = "addchild"
    BY <1>1, DueIsAt DEF Stages
  <1>4. Runs(t) /\ call[t].op \in {"mknod", "link"} /\ ~call[t].done /\ cold[t] = {}
    BY <1>2, <1>3, ColdIs DEF Rest, Runs, Ends, Finding
  <1>5. At(t)' = "directories"
    BY <1>1, <1>2, <1>3, Moved DEF After
  <1>6. /\ todo'[t] = StepsFrom("directories", call[t].op)
        /\ \A u \in Threads \ {t} : todo'[u] = todo[u]
        /\ DOMAIN todo' = Threads
    BY <1>1, <1>2, <1>3, Moved DEF After
  <1>7. Still(t) /\ ~Busy(t)'
    BY <1>1, <1>4, <1>5, <1>6 DEF Still, Busy, Ends
  <1>8. Runs(t)'
    BY <1>1, <1>3, <1>4, <1>5, <1>6 DEF Runs, Stages, Making, Ends
  <1>9. /\ holder' \in [Items -> Threads \cup {NoThread}] /\ Guarded(t)'
        /\ \A u \in Threads \ {t}, x \in Items : holder'[x] = u <=> holder[x] = u
    BY <1>1, <1>2, Grants
  <1>10. Owns(t)'
    <2>1. creating' # t
      BY <1>1, <1>2, <1>3 DEF Locks, Owns
    <2>2. \A m : ~Has(t, m)'
      BY <1>7 DEF Has
    <2>3. QED
      BY <2>1, <2>2, <1>1, <1>4, <1>5, <1>9 DEF Owns, Found
  <1>11. At(t)' \notin Making
    BY <1>5 DEF Making
  <1>12. QED
    BY <1>0, <1>1, <1>2, <1>3, <1>6, <1>7, <1>8, <1>9, <1>10, <1>11, TakenBack DEF Locks, Rest

LEMMA VictimKeeps ==
    ASSUME IInv, NEW t \in Threads, Victim(t)
    PROVE  IInv'
  <1>0. PICK n : n = call[t].node
    OBVIOUS
  <1>1. /\ Detected(t) /\ Released(t)
        /\ nlink' = IF Due(t, "addchild") THEN [nlink EXCEPT ![n] = @ - 1] ELSE nlink
    BY <1>0 DEF Victim, Unlinked
  <1>2. Rest /\ Locks
    BY DEF IInv
  <1>3. Due(t, "addchild") <=> At(t) = "addchild"
    BY DueIsAt DEF Stages
  <1>4. At(t)' \notin Making
    BY <1>1, <1>2, ReleasedIs DEF Making
  <1>5. CASE At(t) = "addchild"
    BY <1>0, <1>1, <1>2, <1>3, <1>4, <1>5, ReleasedIs, TakenBack
  <1>6. CASE At(t) # "addchild"
    <2>1. ~Busy(t)
      BY <1>1, <1>2, <1>6, DetectedAt DEF Busy
    <2>2. nlink' = nlink
      BY <1>1, <1>3, <1>6
    <2>3. QED
      BY <2>1, <2>2, <1>1, <1>2, <1>4, ReleasedIs, QuietKeeps
  <1>7. QED
    BY <1>5, <1>6

(* The last state of the log has the types of the databases. *)
LEMMA LastState ==
    ASSUME Rest, NEW f, Replay(f)
    PROVE  /\ Len(log) \in Nat /\ Sane(f[Len(log)]) /\ Meets(f[Len(log)])
  BY DEF Rest, Replay

(* Two directories committers do not have the same key. *)
LEMMA OneName ==
    ASSUME Rest, Locks, NEW t \in Threads, NEW u \in Threads, Committing(u, "directories"),
           holder[D(Dir(u))] \in {t, NoThread}
    PROVE  u = t
  <1>1. holder[D(Dir(u))] = u
    BY DEF Locks, Owns, Committing
  <1>2. QED
    BY <1>1, ThreadsAssumption

(* addchild makes the name. *)
LEMMA AddKeeps ==
    ASSUME IInv, NEW t \in Threads, Addchild(t), entry[call[t].key] = NoNode
    PROVE  IInv'
  <1>0. PICK n, k : n = call[t].node /\ k = call[t].key
    OBVIOUS
  <1> DEFINE c == [call[t] EXCEPT !.done = TRUE]
  <1>1. /\ Due(t, "addchild") /\ cold[t] = {} /\ Grant(t) /\ Advance(t)
        /\ entry' = [entry EXCEPT ![k] = n] /\ call' = [call EXCEPT ![t].done = TRUE]
        /\ UNCHANGED <<nlink, creating, cold, data>>
    BY <1>0 DEF Addchild, Granted
  <1>2. Rest /\ Locks /\ Counts /\ Logged
    BY DEF IInv
  <1>3. At(t) = "addchild"
    BY <1>1, DueIsAt DEF Stages
  <1>4. /\ Runs(t) /\ call[t].op \in {"mknod", "link"} /\ k \in Keys
        /\ ~call[t].done /\ n \in Files /\ call[t] \in CallType
    BY <1>0, <1>2, <1>3 DEF Rest, Runs, Ends
  <1>5. c \in CallType /\ c.op = call[t].op /\ c.key = k /\ c.node = n /\ c.done
        /\ c.by = call[t].by
    BY <1>0, <1>4 DEF CallType
  <1>6. c # NoCall
    BY <1>5 DEF NoCall
  <1>7. call' = [call EXCEPT ![t] = c]
    BY <1>1, <1>2 DEF Rest
  <1> HIDE DEF c
  <1>8. /\ call' \in [Threads -> CallType] /\ call'[t] = c
        /\ \A u \in Threads \ {t} : call'[u] = call[u]
    BY <1>2, <1>5, <1>7 DEF Rest
  <1>9. Asked(t) = {D(Dir(t))} /\ Dir(t) \in Dirs
    BY <1>1, <1>2, <1>3, <1>4, AskedAt, DirIs
  <1>10. /\ holder' \in [Items -> Threads \cup {NoThread}]
         /\ holder[D(Dir(t))] \in {t, NoThread}
         /\ Guarded(t)' /\ holder'[D(Dir(t))] = t
         /\ \A x \in Items : holder'[x] = t <=> (holder[x] = t \/ x = D(Dir(t)))
         /\ \A u \in Threads \ {t}, x \in Items : holder'[x] = u <=> holder[x] = u
    BY <1>1, <1>2, <1>9, Grants
  <1>11. Owns(t) /\ Has(t, n) /\ holder[N(n)] = t
    BY <1>0, <1>2, <1>3, <1>4 DEF Locks, Owns, Has, Busy
  <1>12. \A u \in Threads \ {t} : ~Has(u, n)
    BY <1>2, <1>4, <1>11, OneHas
  <1>13. At(t)' = "directories"
    BY <1>1, <1>2, <1>3, Moved DEF After
  <1>14. /\ todo'[t] = StepsFrom("directories", call[t].op)
         /\ \A u \in Threads \ {t} : todo'[u] = todo[u]
         /\ DOMAIN todo' = Threads
    BY <1>1, <1>2, <1>3, Moved DEF After
  <1>15. Still(t)
    BY <1>1, <1>8, <1>14 DEF Still
  <1>16. Adding(n) /\ ~Adding(n)' /\ \A m \in Files \ {n} : Adding(m)' <=> Adding(m)
    <2>1. \A u \in Threads \ {t} : ~(At(u) = "addchild" /\ call[u].node = n)
      BY <1>12 DEF Has, Busy
    <2>2. Adding(n) /\ ~Adding(n)'
      BY <2>1, <1>0, <1>3, <1>13, <1>15, AddingNow
    <2>3. \A m \in Files \ {n} : Adding(m)' <=> Adding(m)
      BY <1>0, <1>3, <1>13, <1>15, AddingNow
    <2>4. QED
      BY <2>2, <2>3
  <1>17. Switches(entry, k, n, n) /\ entry[k] = NoNode /\ entry \in [Keys -> Files \cup {NoNode}]
    BY <1>0, <1>2 DEF Switches, Counts
  <1>18. /\ entry' \in [Keys -> Files \cup {NoNode}]
         /\ Count(entry', n) = Count(entry, n) + 1
         /\ \A m \in Files \ {n} : Count(entry', m) = Count(entry, m)
         /\ entry'[k] = n /\ \A q \in Keys \ {k} : entry'[q] = entry[q]
    <2>1. Renamed(entry', entry, k, n, n)
      BY <1>1, <1>17 DEF Renamed
    <2>2. entry[k] # n
      BY <1>4, <1>17, NoNodeIsNoFile
    <2>3. Count(entry', n) = Count(entry, n) + 1
      BY <2>1, <2>2, <1>4, OneNameMore
    <2>4. \A m \in Files \ {n} : Count(entry', m) = Count(entry, m)
      BY <2>1, <1>4, OtherNames
    <2>5. /\ entry' \in [Keys -> Files \cup {NoNode}]
          /\ entry'[k] = n
          /\ \A q \in Keys \ {k} : entry'[q] = entry[q]
      BY <2>1, <1>4, RenamedType, RenamedAt
    <2>6. QED
      BY <2>3, <2>4, <2>5
  <1>19. Has(t, n)' /\ \A m \in Files \ {n} : ~Has(t, m) /\ ~Has(t, m)'
    BY <1>0, <1>3, <1>5, <1>8, <1>13 DEF Has, Busy, Ends
  <1>20. Runs(t)'
    BY <1>0, <1>1, <1>4, <1>5, <1>6, <1>8, <1>13, <1>14 DEF Runs, Stages, Making, Ends
  <1>21. Owns(t)'
    <2>1. creating' # t
      BY <1>1, <1>3, <1>11 DEF Owns
    <2>2. Dir(t)' = Dir(t)
      BY <1>0, <1>5, <1>8 DEF Dir
    <2>3. holder'[D(Dir(t))'] = t /\ holder'[N(n)] = t
      BY <2>2, <1>4, <1>10, <1>11, PagesOfIds DEF Files, D
    <2>4. \A m \in Files : Has(t, m)' => holder'[N(m)] = t
      BY <2>3, <1>19
    <2>5. QED
      BY <2>1, <2>2, <2>3, <2>4, <1>10, <1>13 DEF Owns, Found
  <1>22. Counts'
    <2>1. Gap(n)' = Gap(n)
      BY <1>1, <1>2, <1>4, <1>16, <1>18, CountNat DEF Gap, Off, Counts
    <2>2. \A m \in Files \ {n} : Gap(m)' = Gap(m)
      BY <1>1, <1>16, <1>18 DEF Gap, Off
    <2>3. \A m \in Files : Adding(m)' => nlink'[m] > 0
      BY <1>1, <1>16, <1>2 DEF Counts
    <2>4. \A m \in Files : Gap(m)' = Gap(m)
      BY <2>1, <2>2
    <2>5. QED
      BY <2>3, <2>4, <1>1, <1>2, <1>18, CountsKept DEF Counts, data
  <1>23. Logged'
    <2>1. PICK f : Replay(f)
      BY <1>2 DEF Logged
    <2>2. PICK B : B = f[Len(log)]
      OBVIOUS
    <2>3. Meets(B)
      BY <2>1, <2>2 DEF Replay
    <2>4. \A u \in Threads : Committing(u, "directories") => u # t /\ call[u].key # k
      <3>1. ASSUME NEW u \in Threads, Committing(u, "directories") PROVE u # t /\ call[u].key # k
        <4>1. u # t
          BY <3>1, <1>3 DEF Committing
        <4>2. CASE call[u].key = k
          BY <4>1, <4>2, <3>1, <1>0, <1>2, <1>10, OneName DEF Dir
        <4>3. QED
          BY <4>1, <4>2
      <3>2. QED
        BY <3>1
    <2>5. B.entry[k] = NoNode
      BY <2>3, <2>4, <1>4, <1>17 DEF Meets
    <2>6. \A u \in Threads \ {t} : /\ Committing(u, "directories")' <=> Committing(u, "directories")
                                   /\ Committing(u, "nodes")' <=> Committing(u, "nodes")
                                   /\ call'[u] = call[u]
      BY <1>15, StillThere
    <2>7. /\ Committing(t, "directories")' /\ ~Committing(t, "directories")
          /\ ~Committing(t, "nodes")' /\ ~Committing(t, "nodes")
      BY <1>3, <1>5, <1>8, <1>13 DEF Committing
    <2>8. ASSUME NEW q \in Keys
          PROVE  \/ B.entry[q] = entry'[q]
                    /\ \A u \in Threads : Committing(u, "directories")' => call'[u].key # q
                 \/ \E u \in Threads : /\ Committing(u, "directories")' /\ call'[u].key = q
                                       /\ Switches(B.entry, q, entry'[q], call'[u].node)
      <3>1. CASE q = k
        <4>1. Switches(B.entry, k, entry'[k], n)
          BY <2>5, <1>18 DEF Switches
        <4>2. QED
          BY <3>1, <4>1, <2>7, <1>5, <1>8
      <3>2. CASE /\ q # k /\ B.entry[q] = entry[q]
                 /\ \A u \in Threads : Committing(u, "directories") => call[u].key # q
        <4>1. \A u \in Threads : Committing(u, "directories")' => call'[u].key # q
          BY <3>2, <2>6, <2>7, <1>5, <1>8
        <4>2. QED
          BY <4>1, <3>2, <1>18
      <3>3. CASE /\ q # k
                 /\ \E u \in Threads : /\ Committing(u, "directories") /\ call[u].key = q
                                       /\ Switches(B.entry, q, entry[q], call[u].node)
        <4>1. PICK u \in Threads : /\ Committing(u, "directories") /\ call[u].key = q
                                   /\ Switches(B.entry, q, entry[q], call[u].node)
          BY <3>3
        <4>2. u # t
          BY <4>1, <2>4
        <4>3. entry'[q] = entry[q]
          BY <3>3, <1>18
        <4>4. QED
          BY <4>1, <4>2, <4>3, <2>6
      <3>4. QED
        BY <3>1, <3>2, <3>3, <2>3 DEF Meets
    <2>9. ASSUME NEW m \in Files
          PROVE  m \in B.half <=> \E u \in Threads : Committing(u, "nodes")' /\ call'[u].node = m
      <3>1. m \in B.half <=> \E u \in Threads : Committing(u, "nodes") /\ call[u].node = m
        BY <2>3 DEF Meets
      <3>2. QED
        BY <3>1, <2>6, <2>7
    <2>10. ASSUME NEW m \in Files
           PROVE  /\ Adding(m)' => nlink'[m] = B.nlink[m] + 1
                  /\ (\A u \in Threads : ~Has(u, m)') => nlink'[m] = B.nlink[m]
      <3>1. CASE m = n
        BY <3>1, <1>16, <1>19
      <3>2. CASE m # n
        <4>1. /\ Adding(m) => nlink[m] = B.nlink[m] + 1
              /\ (\A u \in Threads : ~Has(u, m)) => nlink[m] = B.nlink[m]
          BY <2>3 DEF Meets
        <4>2. \A u \in Threads : Has(u, m)' <=> Has(u, m)
          BY <3>2, <1>15, <1>19, StillThere
        <4>3. Adding(m)' <=> Adding(m)
          BY <3>2, <1>16
        <4>4. QED
          BY <4>1, <4>2, <4>3, <1>1
      <3>3. QED
        BY <3>1, <3>2
    <2>11. Meets(B)'
      BY <2>8, <2>9, <2>10 DEF Meets, Switches
    <2>12. QED
      BY <2>1, <2>2, <2>11, <1>1, SameLog
  <1>24. Last' = Last /\ Last \in Int /\ Last' \in Int /\ Last' <= Last
    <2>1. LastOf(nlink) \in Ids
      BY LastIs
    <2>2. QED
      BY <2>1, <1>1 DEF Last, LastOf, Ids
  <1>25. Rest'
    <2>1. Makers' \subseteq Makers
      BY <1>13, <1>15, StillThere DEF Makers, Making
    <2>2. QED
      BY <2>1, <1>1, <1>2, <1>8, <1>14, <1>15, <1>20, <1>24, FewerMakers, RestKept DEF Rest, data
  <1>26. Locks'
    BY <1>1, <1>2, <1>10, <1>15, <1>21, <1>24, LocksKept DEF Locks
  <1>27. QED
    BY <1>22, <1>23, <1>25, <1>26 DEF IInv

(* A record that fits is put into the log. *)
LEMMA LogGrows ==
    ASSUME Rest, NEW f, Replay(f), NEW B, B = f[Len(log)], NEW r \in RecordType,
           log' = Append(log, r), UNCHANGED <<disk, half, torn, crashes>>,
           Fits(B, r), Sane(Write(B, r)), Meets(Write(B, r))'
    PROVE  Logged'
  <1>a. PICK len : len = Len(log)
    OBVIOUS
  <1>b. PICK g : g = [i \in 0..(len + 1) |-> IF i <= len THEN f[i] ELSE Write(B, r)]
    OBVIOUS
  <1>1. len \in Nat /\ log \in Seq(RecordType)
    BY <1>a DEF Rest
  <1>2. /\ Len(log') = len + 1
        /\ \A i \in 1..len : log'[i] = log[i]
        /\ log'[len + 1] = r
    BY <1>1, <1>a
  <1>3. Start' = Start /\ \A E : Sane(E)' = Sane(E)
    BY DEF Start, Sane
  <1>4. \A i \in 0..len : g[i] = f[i]
    BY <1>1, <1>b
  <1>5. g[len + 1] = Write(B, r)
    BY <1>1, <1>b
  <1>6. g[0] = Start'
    BY <1>1, <1>3, <1>4, <1>a DEF Replay
  <1>7. ASSUME NEW i \in 1..(len + 1)
        PROVE  g[i] = Write(g[i - 1], log'[i]) /\ Fits(g[i - 1], log'[i])
    <2>1. CASE i <= len
      <3>1. i \in 1..len /\ i \in 0..len /\ i - 1 \in 0..len
        BY <1>1, <2>1
      <3>2. g[i] = f[i] /\ g[i - 1] = f[i - 1] /\ log'[i] = log[i]
        BY <3>1, <1>2, <1>4
      <3>3. QED
        BY <3>1, <3>2, <1>a DEF Replay
    <2>2. CASE i = len + 1
      <3>1. g[i - 1] = B /\ g[i] = Write(B, r) /\ log'[i] = r
        BY <2>2, <1>1, <1>2, <1>4, <1>5, <1>a
      <3>2. QED
        BY <3>1
    <2>3. i <= len \/ i = len + 1
      BY <1>1
    <2>4. QED
      BY <2>1, <2>2, <2>3
  <1>8. ASSUME NEW i \in 0..(len + 1) PROVE Sane(g[i])'
    <2>1. CASE i <= len
      <3>1. Sane(f[i]) /\ g[i] = f[i]
        BY <2>1, <1>1, <1>4, <1>a DEF Replay
      <3>2. QED
        BY <3>1, <1>3
    <2>2. CASE i = len + 1
      <3>1. g[i] = Write(B, r)
        BY <2>2, <1>5
      <3>2. PICK E : E = Write(B, r)
        OBVIOUS
      <3>3. QED
        BY <3>1, <3>2, <1>3
    <2>3. QED
      BY <2>1, <2>2, <1>1
  <1>9. Meets(g[len + 1])'
    BY <1>5 DEF Meets
  <1>10. Replay(g)'
    BY <1>2, <1>6, <1>7, <1>8, <1>9 DEF Replay
  <1>11. QED
    BY <1>10 DEF Logged

(* The counts after a commit, which does not change them. *)
LEMMA CountsStay ==
    ASSUME Counts, NEW t \in Threads, Still(t), UNCHANGED <<nlink, entry, torn, crashes>>,
           At(t) # "addchild", At(t)' # "addchild"
    PROVE  Counts'
  <1>1. \A n : Adding(n)' <=> Adding(n)
    BY AddingNow
  <1>2. \A n \in Files : Gap(n)' = Gap(n)
    BY <1>1 DEF Gap, Off
  <1>3. \A n \in Files : Adding(n)' => nlink'[n] > 0
    BY <1>1 DEF Counts
  <1>4. nlink' \in [Files -> Nat] /\ entry' \in [Keys -> Files \cup {NoNode}]
    BY DEF Counts
  <1>5. QED
    BY <1>2, <1>3, <1>4, CountsKept

(* The transaction of the directories commits: the name is in the log. *)
LEMMA NameCommitKeeps ==
    ASSUME IInv, NEW t \in Threads, Commit(t, "directories"), call[t].done
    PROVE  IInv'
  <1>0. PICK n, k, r : n = call[t].node /\ k = call[t].key /\ r = Record(t, "directories")
    OBVIOUS
  <1>1. /\ Len(log) < MaxLog /\ log' = Append(log, r)
        /\ UNCHANGED <<nlink, entry, creating, disk, half, torn, crashes>>
    BY <1>0 DEF Commit
  <1>2. Rest /\ Locks /\ Counts /\ Logged
    BY DEF IInv
  <1>d. "directories" \in Ends /\ "nodes" \in Ends
    BY DEF Ends
  <1>3. /\ At(t) = "directories" /\ Still(t) /\ DOMAIN todo' = Threads /\ DOMAIN cold' = Threads
        /\ At(t)' = "nodes" /\ call'[t] = call[t]
        /\ call' \in [Threads -> CallType] /\ Runs(t)' /\ Owns(t)'
        /\ holder' \in [Items -> Threads \cup {NoThread}]
        /\ \A u \in Threads \ {t}, x \in Items : holder'[x] = u <=> holder[x] = u
    BY <1>2, <1>d, CommitStep
  <1>4. n \in Files /\ k \in Keys
    BY <1>0, <1>2, <1>3 DEF Rest, Runs, Ends
  <1>5. r.db = "directories" /\ r.node = n /\ r.key = k /\ r.value = entry[k] /\ r \in RecordType
    BY <1>0, <1>2, <1>4, <1>d DEF Record, RecordType, Counts
  <1>6. Has(t, n) /\ Has(t, n)' /\ \A m \in Files \ {n} : ~Has(t, m) /\ ~Has(t, m)'
    BY <1>0, <1>3 DEF Has, Busy, Ends
  <1>7. \A u \in Threads \ {t} : ~Has(u, n)
    <2>1. holder[N(n)] = t
      BY <1>2, <1>4, <1>6 DEF Locks, Owns
    <2>2. QED
      BY <2>1, <1>2, <1>4, OneHas
  <1>8. Committing(t, "directories") /\ ~Committing(t, "nodes")
        /\ ~Committing(t, "directories")' /\ Committing(t, "nodes")'
    BY <1>3 DEF Committing
  <1>9. ASSUME NEW u \in Threads \ {t}
        PROVE  /\ Committing(u, "directories")' <=> Committing(u, "directories")
               /\ Committing(u, "nodes")' <=> Committing(u, "nodes")
               /\ call'[u] = call[u]
               /\ Committing(u, "directories") => call[u].key # k /\ call[u].node # n
               /\ Committing(u, "nodes") => call[u].node # n
    <2>1. /\ Committing(u, "directories")' <=> Committing(u, "directories")
          /\ Committing(u, "nodes")' <=> Committing(u, "nodes")
          /\ call'[u] = call[u]
      BY <1>3, StillThere
    <2>2. Committing(u, "directories") \/ Committing(u, "nodes") => call[u].node # n
      BY <1>7, <1>d DEF Committing, Has, Busy
    <2>3. ASSUME Committing(u, "directories"), call[u].key = k PROVE FALSE
      <3>1. holder[D(Dir(t))] = t
        BY <1>2, <1>8 DEF Locks, Owns, Committing
      <3>2. Dir(u) = Dir(t)
        BY <2>3, <1>0 DEF Dir
      <3>3. QED
        BY <2>3, <3>1, <3>2, <1>2, OneName
    <2>4. QED
      BY <2>1, <2>2, <2>3
  <1>10. PICK f : Replay(f)
    BY <1>2 DEF Logged
  <1>11. PICK B : B = f[Len(log)]
    OBVIOUS
  <1>12. Len(log) \in Nat /\ Sane(B) /\ Meets(B)
    BY <1>2, <1>10, <1>11, LastState
  <1>13. B.nlink \in [Files -> Nat] /\ B.entry \in [Keys -> Files \cup {NoNode}] /\ B.half \subseteq Files
    BY <1>12 DEF Sane
  <1>14. Switches(B.entry, k, entry[k], n) /\ n \notin B.half
    <2>1. n \notin B.half
      BY <1>12, <1>4, <1>8, <1>9 DEF Meets
    <2>2. PICK u \in Threads : /\ Committing(u, "directories") /\ call[u].key = k
                               /\ Switches(B.entry, k, entry[k], call[u].node)
      BY <1>0, <1>4, <1>8, <1>12 DEF Meets
    <2>3. u = t
      BY <2>2, <1>9
    <2>4. QED
      BY <2>1, <2>2, <2>3, <1>0
  <1>15. PICK E : E = [nlink |-> B.nlink, entry |-> [B.entry EXCEPT ![k] = entry[k]],
                       half |-> B.half \cup {n}]
    OBVIOUS
  <1>16. Write(B, r) = E /\ E.nlink = B.nlink /\ E.half = B.half \cup {n}
    BY <1>5, <1>15 DEF Write
  <1>17. Renamed(E.entry, B.entry, k, entry[k], n)
    BY <1>13, <1>14, <1>15 DEF Renamed
  <1>18. E.entry \in [Keys -> Files \cup {NoNode}]
    BY <1>4, <1>17, RenamedType
  <1>19. E.entry[k] = entry[k] /\ \A q \in Keys : q # k => E.entry[q] = B.entry[q]
    BY <1>4, <1>17, RenamedAt
  <1>20. Fits(B, r)
    BY <1>4, <1>5, <1>14 DEF Fits
  <1>21. Sane(E)
    <2>1. ASSUME NEW m \in Files
          PROVE  LET most == (IF m \in torn THEN crashes ELSE 0) + (IF m \in E.half THEN 1 ELSE 0)
                 IN  Off(E.nlink, E.entry, m) \in -most..most
      <3> DEFINE c == IF m \in torn THEN crashes ELSE 0
      <3>1. c \in Nat
        BY <1>2, BoundsAssumption DEF Rest
      <3>2. B.nlink[m] \in Nat /\ Count(B.entry, m) \in Nat /\ Count(E.entry, m) \in Nat
        BY <1>13, CountNat
      <3> HIDE DEF c
      <3>3. Off(B.nlink, B.entry, m) \in -(c + (IF m \in B.half THEN 1 ELSE 0))..(c + (IF m \in B.half THEN 1 ELSE 0))
        BY <1>12 DEF Sane, c
      <3>4. CASE m = n
        <4>1. Off(B.nlink, B.entry, m) \in -c..c
          BY <3>1, <3>3, <3>4, <1>14
        <4>2. Count(E.entry, n) = Count(B.entry, n) - 1 \/ Count(E.entry, n) = Count(B.entry, n) + 1
          <5>1. CASE B.entry[k] = n
            BY <5>1, <1>4, <1>17, OneNameLess
          <5>2. CASE B.entry[k] # n
            BY <5>2, <1>4, <1>17, OneNameMore
          <5>3. QED
            BY <5>1, <5>2
        <4>3. Off(E.nlink, E.entry, m) \in -(c + 1)..(c + 1)
          BY <4>1, <4>2, <3>1, <3>2, <3>4, <1>16 DEF Off
        <4>4. m \in E.half
          BY <3>4, <1>16
        <4>5. QED
          BY <4>3, <4>4 DEF c
      <3>5. CASE m # n
        <4>1. Count(E.entry, m) = Count(B.entry, m)
          BY <3>5, <1>4, <1>17, OtherNames
        <4>2. Off(E.nlink, E.entry, m) = Off(B.nlink, B.entry, m) /\ (m \in E.half <=> m \in B.half)
          BY <4>1, <3>5, <1>16 DEF Off
        <4>3. QED
          BY <4>2, <3>3 DEF c
      <3>6. QED
        BY <3>4, <3>5
    <2>2. QED
      BY <2>1, <1>4, <1>13, <1>16, <1>18 DEF Sane
  <1>22. Meets(E)'
    <2>1. ASSUME NEW q \in Keys
          PROVE  \/ E.entry[q] = entry'[q]
                    /\ \A u \in Threads : Committing(u, "directories")' => call'[u].key # q
                 \/ \E u \in Threads : /\ Committing(u, "directories")' /\ call'[u].key = q
                                       /\ Switches(E.entry, q, entry'[q], call'[u].node)
      <3>1. CASE q = k
        BY <3>1, <1>1, <1>8, <1>9, <1>19
      <3>2. CASE /\ q # k /\ B.entry[q] = entry[q]
                 /\ \A u \in Threads : Committing(u, "directories") => call[u].key # q
        BY <3>2, <1>1, <1>8, <1>9, <1>19
      <3>3. CASE /\ q # k
                 /\ \E u \in Threads : /\ Committing(u, "directories") /\ call[u].key = q
                                       /\ Switches(B.entry, q, entry[q], call[u].node)
        <4>1. PICK u \in Threads : /\ Committing(u, "directories") /\ call[u].key = q
                                   /\ Switches(B.entry, q, entry[q], call[u].node)
          BY <3>3
        <4>2. u # t
          BY <4>1, <3>3, <1>0
        <4>3. Switches(E.entry, q, entry'[q], call'[u].node)
          BY <4>1, <4>2, <3>3, <1>1, <1>9, <1>19 DEF Switches
        <4>4. QED
          BY <4>1, <4>2, <4>3, <1>9
      <3>4. QED
        BY <3>1, <3>2, <3>3, <1>12 DEF Meets
    <2>2. ASSUME NEW m \in Files
          PROVE  m \in E.half <=> \E u \in Threads : Committing(u, "nodes")' /\ call'[u].node = m
      <3>1. CASE m = n
        BY <3>1, <1>0, <1>3, <1>8, <1>16
      <3>2. CASE m # n
        <4>1. m \in B.half <=> \E u \in Threads : Committing(u, "nodes") /\ call[u].node = m
          BY <1>12 DEF Meets
        <4>2. (\E u \in Threads : Committing(u, "nodes") /\ call[u].node = m)
                <=> (\E u \in Threads : Committing(u, "nodes")' /\ call'[u].node = m)
          BY <3>2, <1>0, <1>3, <1>8, <1>9
        <4>3. QED
          BY <4>1, <4>2, <3>2, <1>16
      <3>3. QED
        BY <3>1, <3>2
    <2>3. ASSUME NEW m \in Files
          PROVE  /\ Adding(m)' => nlink'[m] = E.nlink[m] + 1
                 /\ (\A u \in Threads : ~Has(u, m)') => nlink'[m] = E.nlink[m]
      <3>1. /\ Adding(m) => nlink[m] = B.nlink[m] + 1
            /\ (\A u \in Threads : ~Has(u, m)) => nlink[m] = B.nlink[m]
        BY <1>12 DEF Meets
      <3>2. Adding(m)' <=> Adding(m)
        BY <1>3, AddingNow
      <3>3. \A u \in Threads : Has(u, m)' <=> Has(u, m)
        <4>1. \A u \in Threads \ {t} : Has(u, m)' <=> Has(u, m)
          BY <1>3, StillThere
        <4>2. Has(t, m)' <=> Has(t, m)
          BY <1>6
        <4>3. QED
          BY <4>1, <4>2
      <3>4. QED
        BY <3>1, <3>2, <3>3, <1>1, <1>16
    <2>4. QED
      BY <2>1, <2>2, <2>3 DEF Meets, Switches
  <1>23. Logged'
    BY <1>1, <1>2, <1>5, <1>10, <1>11, <1>16, <1>20, <1>21, <1>22, LogGrows
  <1>24. Counts'
    BY <1>1, <1>2, <1>3, CountsStay
  <1>25. Last' = Last /\ Last \in Int /\ Last' \in Int /\ Last' <= Last
    <2>1. LastOf(nlink) \in Ids
      BY LastIs
    <2>2. QED
      BY <2>1, <1>1 DEF Last, LastOf, Ids
  <1>26. Rest'
    <2>1. Makers' \subseteq Makers
      BY <1>3, StillThere DEF Makers, Making
    <2>2. log' \in Seq(RecordType) /\ Len(log') <= MaxLog
      BY <1>1, <1>2, <1>5, BoundsAssumption DEF Rest
    <2>3. QED
      BY <2>1, <2>2, <1>1, <1>2, <1>3, <1>25, FewerMakers, RestKept
  <1>27. Locks'
    BY <1>1, <1>2, <1>3, <1>25, LocksKept DEF Locks
  <1>28. QED
    BY <1>23, <1>24, <1>26, <1>27 DEF IInv

(* The names of a node that is locked are in the log already. *)
LEMMA NamesLogged ==
    ASSUME NEW B, Meets(B), NEW n, n \in Files,
           \A u \in Threads : Committing(u, "directories") => call[u].node # n
    PROVE  NamesOf(B.entry, n) = NamesOf(entry, n)
  <1>1. ASSUME NEW k \in Keys PROVE B.entry[k] = n <=> entry[k] = n
    <2>1. CASE B.entry[k] = entry[k]
      BY <2>1
    <2>2. CASE \E u \in Threads : /\ Committing(u, "directories") /\ call[u].key = k
                                  /\ Switches(B.entry, k, entry[k], call[u].node)
      <3>1. PICK u \in Threads : /\ Committing(u, "directories")
                                 /\ Switches(B.entry, k, entry[k], call[u].node)
        BY <2>2
      <3>2. call[u].node # n /\ n # NoNode
        BY <3>1, NoNodeIsNoFile
      <3>3. QED
        BY <3>1, <3>2 DEF Switches
    <2>3. QED
      BY <2>1, <2>2 DEF Meets
  <1>2. QED
    BY <1>1 DEF NamesOf

(* The transaction of the nodes commits: the count is in the log. *)
LEMMA CountCommitKeeps ==
    ASSUME IInv, NEW t \in Threads, Commit(t, "nodes"), call[t].done
    PROVE  IInv'
  <1>0. PICK n, r : n = call[t].node /\ r = Record(t, "nodes")
    OBVIOUS
  <1>1. /\ Len(log) < MaxLog /\ log' = Append(log, r)
        /\ UNCHANGED <<nlink, entry, creating, disk, half, torn, crashes>>
    BY <1>0 DEF Commit
  <1>2. Rest /\ Locks /\ Counts /\ Logged
    BY DEF IInv
  <1>d. "directories" \in Ends /\ "nodes" \in Ends
    BY DEF Ends
  <1>3. /\ At(t) = "nodes" /\ Still(t) /\ DOMAIN todo' = Threads /\ DOMAIN cold' = Threads
        /\ At(t)' = "idle" /\ call'[t] = NoCall
        /\ call' \in [Threads -> CallType] /\ Runs(t)' /\ Owns(t)'
        /\ holder' \in [Items -> Threads \cup {NoThread}]
        /\ \A u \in Threads \ {t}, x \in Items : holder'[x] = u <=> holder[x] = u
    BY <1>2, <1>d, CommitStep
  <1>4. n \in Files /\ call[t].key \in Keys
    BY <1>0, <1>2, <1>3 DEF Rest, Runs, Ends
  <1>5. r.db = "nodes" /\ r.node = n /\ r.value = nlink[n] /\ r \in RecordType
    BY <1>0, <1>2, <1>4, <1>d DEF Record, RecordType, Counts
  <1>6. Has(t, n) /\ \A m \in Files : ~Has(t, m)' /\ (m # n => ~Has(t, m))
    BY <1>0, <1>3 DEF Has, Busy, Ends
  <1>7. \A u \in Threads \ {t} : ~Has(u, n)
    <2>1. holder[N(n)] = t
      BY <1>2, <1>4, <1>6 DEF Locks, Owns
    <2>2. QED
      BY <2>1, <1>2, <1>4, OneHas
  <1>8. Committing(t, "nodes") /\ ~Committing(t, "directories")
        /\ ~Committing(t, "directories")' /\ ~Committing(t, "nodes")'
    BY <1>3 DEF Committing
  <1>9. ASSUME NEW u \in Threads \ {t}
        PROVE  /\ Committing(u, "directories")' <=> Committing(u, "directories")
               /\ Committing(u, "nodes")' <=> Committing(u, "nodes")
               /\ call'[u] = call[u]
               /\ Committing(u, "directories") \/ Committing(u, "nodes") => call[u].node # n
    <2>1. /\ Committing(u, "directories")' <=> Committing(u, "directories")
          /\ Committing(u, "nodes")' <=> Committing(u, "nodes")
          /\ call'[u] = call[u]
      BY <1>3, StillThere
    <2>2. Committing(u, "directories") \/ Committing(u, "nodes") => call[u].node # n
      BY <1>7, <1>d DEF Committing, Has, Busy
    <2>3. QED
      BY <2>1, <2>2
  <1>10. PICK f : Replay(f)
    BY <1>2 DEF Logged
  <1>11. PICK B : B = f[Len(log)]
    OBVIOUS
  <1>12. Len(log) \in Nat /\ Sane(B) /\ Meets(B)
    BY <1>2, <1>10, <1>11, LastState
  <1>13. B.nlink \in [Files -> Nat] /\ B.entry \in [Keys -> Files \cup {NoNode}] /\ B.half \subseteq Files
    BY <1>12 DEF Sane
  <1>14. n \in B.half
    BY <1>0, <1>4, <1>8, <1>12 DEF Meets
  <1>15. PICK E : E = [nlink |-> [B.nlink EXCEPT ![n] = nlink[n]], entry |-> B.entry,
                       half |-> B.half \ {n}]
    OBVIOUS
  <1>16. Write(B, r) = E /\ E.entry = B.entry /\ E.half = B.half \ {n}
    BY <1>5, <1>15 DEF Write
  <1>17. nlink[n] \in Nat
    BY <1>2, <1>4 DEF Counts
  <1>18. E.nlink \in [Files -> Nat] /\ E.nlink[n] = nlink[n]
         /\ \A m \in Files : m # n => E.nlink[m] = B.nlink[m]
    BY <1>4, <1>13, <1>15, <1>17
  <1>19. Fits(B, r)
    BY <1>4, <1>5, <1>14, <1>17 DEF Fits
  <1>20. ~Adding(n)
    BY <1>3, <1>7 DEF Adding, Has, Busy
  <1>21. Sane(E)
    <2>1. ASSUME NEW m \in Files
          PROVE  LET most == (IF m \in torn THEN crashes ELSE 0) + (IF m \in E.half THEN 1 ELSE 0)
                 IN  Off(E.nlink, E.entry, m) \in -most..most
      <3>1. crashes \in Nat
        BY <1>2, BoundsAssumption DEF Rest
      <3>2. CASE m = n
        <4>1. NamesOf(B.entry, n) = NamesOf(entry, n)
          BY <1>4, <1>8, <1>9, <1>12, NamesLogged
        <4>2. Off(E.nlink, E.entry, n) = Off(nlink, entry, n)
          BY <4>1, <1>16, <1>18 DEF Off, Count
        <4>3. Off(nlink, entry, n) \in Int
          BY <1>17, CountNat DEF Off
        <4>4. Gap(n) = Off(nlink, entry, n)
          BY <4>3, <1>20 DEF Gap
        <4>5. Off(nlink, entry, n) \in -crashes..crashes /\ (n \notin torn => Off(nlink, entry, n) = 0)
          BY <4>4, <1>2, <1>4 DEF Counts
        <4>6. n \notin E.half
          BY <1>16
        <4>7. QED
          BY <4>2, <4>5, <4>6, <3>1, <3>2
      <3>3. CASE m # n
        <4>1. Off(E.nlink, E.entry, m) = Off(B.nlink, B.entry, m) /\ (m \in E.half <=> m \in B.half)
          BY <3>3, <1>16, <1>18 DEF Off
        <4>2. QED
          BY <4>1, <1>12 DEF Sane
      <3>4. QED
        BY <3>2, <3>3
    <2>2. QED
      BY <2>1, <1>13, <1>16, <1>18 DEF Sane
  <1>22. Meets(E)'
    <2>1. ASSUME NEW q \in Keys
          PROVE  \/ E.entry[q] = entry'[q]
                    /\ \A u \in Threads : Committing(u, "directories")' => call'[u].key # q
                 \/ \E u \in Threads : /\ Committing(u, "directories")' /\ call'[u].key = q
                                       /\ Switches(E.entry, q, entry'[q], call'[u].node)
      <3>1. CASE /\ B.entry[q] = entry[q]
                 /\ \A u \in Threads : Committing(u, "directories") => call[u].key # q
        BY <3>1, <1>1, <1>8, <1>9, <1>16
      <3>2. CASE \E u \in Threads : /\ Committing(u, "directories") /\ call[u].key = q
                                    /\ Switches(B.entry, q, entry[q], call[u].node)
        <4>1. PICK u \in Threads : /\ Committing(u, "directories") /\ call[u].key = q
                                   /\ Switches(B.entry, q, entry[q], call[u].node)
          BY <3>2
        <4>2. u # t
          BY <4>1, <1>8
        <4>3. QED
          BY <4>1, <4>2, <1>1, <1>9, <1>16
      <3>3. QED
        BY <3>1, <3>2, <1>12 DEF Meets
    <2>2. ASSUME NEW m \in Files
          PROVE  m \in E.half <=> \E u \in Threads : Committing(u, "nodes")' /\ call'[u].node = m
      <3>1. CASE m = n
        BY <3>1, <1>8, <1>9, <1>16
      <3>2. CASE m # n
        <4>1. m \in B.half <=> \E u \in Threads : Committing(u, "nodes") /\ call[u].node = m
          BY <1>12 DEF Meets
        <4>2. (\E u \in Threads : Committing(u, "nodes") /\ call[u].node = m)
                <=> (\E u \in Threads : Committing(u, "nodes")' /\ call'[u].node = m)
          BY <3>2, <1>0, <1>8, <1>9
        <4>3. QED
          BY <4>1, <4>2, <3>2, <1>16
      <3>3. QED
        BY <3>1, <3>2
    <2>3. ASSUME NEW m \in Files
          PROVE  /\ Adding(m)' => nlink'[m] = E.nlink[m] + 1
                 /\ (\A u \in Threads : ~Has(u, m)') => nlink'[m] = E.nlink[m]
      <3>1. Adding(m)' <=> Adding(m)
        BY <1>3, AddingNow
      <3>2. CASE m = n
        BY <3>1, <3>2, <1>1, <1>18, <1>20
      <3>3. CASE m # n
        <4>1. /\ Adding(m) => nlink[m] = B.nlink[m] + 1
              /\ (\A u \in Threads : ~Has(u, m)) => nlink[m] = B.nlink[m]
          BY <1>12 DEF Meets
        <4>2. \A u \in Threads : Has(u, m)' <=> Has(u, m)
          <5>1. \A u \in Threads \ {t} : Has(u, m)' <=> Has(u, m)
            BY <1>3, StillThere
          <5>2. Has(t, m)' <=> Has(t, m)
            BY <3>3, <1>6
          <5>3. QED
            BY <5>1, <5>2
        <4>3. QED
          BY <4>1, <4>2, <3>1, <3>3, <1>1, <1>18
      <3>4. QED
        BY <3>2, <3>3
    <2>4. QED
      BY <2>1, <2>2, <2>3 DEF Meets, Switches
  <1>23. Logged'
    BY <1>1, <1>2, <1>5, <1>10, <1>11, <1>16, <1>19, <1>21, <1>22, LogGrows
  <1>24. Counts'
    BY <1>1, <1>2, <1>3, CountsStay
  <1>25. Last' = Last /\ Last \in Int /\ Last' \in Int /\ Last' <= Last
    <2>1. LastOf(nlink) \in Ids
      BY LastIs
    <2>2. QED
      BY <2>1, <1>1 DEF Last, LastOf, Ids
  <1>26. Rest'
    <2>1. Makers' \subseteq Makers
      BY <1>3, StillThere DEF Makers, Making
    <2>2. log' \in Seq(RecordType) /\ Len(log') <= MaxLog
      BY <1>1, <1>2, <1>5, BoundsAssumption DEF Rest
    <2>3. QED
      BY <2>1, <2>2, <1>1, <1>2, <1>3, <1>25, FewerMakers, RestKept
  <1>27. Locks'
    BY <1>1, <1>2, <1>3, <1>25, LocksKept DEF Locks
  <1>28. QED
    BY <1>23, <1>24, <1>26, <1>27 DEF IInv

LEMMA UnlinkKeeps ==
    ASSUME IInv, NEW t \in Threads, NEW k \in Keys, Unlink(t, k)
    PROVE  IInv'
  <1>0. PICK n : n = entry[k]
    OBVIOUS
  <1>a. PICK c : c = [op |-> "unlink", key |-> k, node |-> n, by |-> k, done |-> TRUE]
    OBVIOUS
  <1>1. /\ Alone /\ n # NoNode /\ nlink[n] > 0
        /\ call' = [call EXCEPT ![t] = c] /\ todo' = [todo EXCEPT ![t] = Ending]
        /\ nlink' = [nlink EXCEPT ![n] = @ - 1] /\ entry' = [entry EXCEPT ![k] = NoNode]
        /\ holder' = [x \in Items |->
                        IF x \in {N(k[1]), N(n),
                                  D(k[1])}
                        THEN t ELSE holder[x]]
        /\ UNCHANGED <<creating, data>>
    BY <1>0, <1>a DEF Unlink, Begin, Unlinked
  <1>b. cold' = [cold EXCEPT ![t] = {}]
    <2>1. PICK missing \in SUBSET DOMAIN <<>> : cold' = [cold EXCEPT ![t] = missing]
      BY DEF Unlink, Begin
    <2>2. missing = {}
      OBVIOUS
    <2>3. QED
      BY <2>1, <2>2
  <1>2. Rest /\ Locks /\ Counts /\ Logged
    BY DEF IInv
  <1>3. n \in Files /\ k[1] \in Ids /\ n \in Ids /\ k[1] \in Dirs
    BY <1>0, <1>1, <1>2, KeysAssumption, IdsAssumption DEF Counts, Files
  <1>4. c \in CallType /\ c.op = "unlink" /\ c.key = k /\ c.node = n /\ c.done /\ c # NoCall
    BY <1>a, <1>3 DEF CallType, NoCall
  <1>5. /\ call' \in [Threads -> CallType] /\ call'[t] = c /\ todo'[t] = Ending
        /\ DOMAIN todo' = Threads /\ DOMAIN cold' = Threads /\ cold'[t] = {} /\ Still(t)
    BY <1>1, <1>2, <1>4, <1>b DEF Rest, Still
  <1>6. StepsFrom("directories", c.op) = Ending /\ AtOf(Ending) = "directories"
    BY DEF StepsFrom, Ending, AtOf
  <1>7. At(t)' = "directories"
    BY <1>5, <1>6 DEF At
  <1>8. \A u \in Threads : At(u) = "idle"
    BY <1>1, <1>2, DueIsAt DEF Alone
  <1>9. \A u \in Threads : \A m : ~Has(u, m)
    BY <1>8 DEF Has, Busy, Ends
  <1>10. \A u \in Threads \ {t} : /\ At(u)' = "idle" /\ call'[u] = call[u]
                                  /\ \A m : ~Has(u, m)'
                                  /\ \A p \in Ends : ~Committing(u, p)'
    <2>1. \A u \in Threads \ {t} : At(u)' = "idle" /\ call'[u] = call[u] /\ \A m : ~Has(u, m)'
      BY <1>5, <1>8, <1>9, StillThere
    <2>2. \A u \in Threads \ {t} : \A p \in Ends : ~Committing(u, p)'
      BY <2>1 DEF Committing, Ends
    <2>3. QED
      BY <2>1, <2>2
  <1>11. \A x \in Items, u \in Threads : holder[x] # u
    BY <1>2, <1>8 DEF Locks, Owns
  <1>12. \A u \in Threads, p \in Ends : ~Committing(u, p)
    BY <1>8 DEF Committing, Ends
  <1>13. Committing(t, "directories")' /\ ~Committing(t, "nodes")'
    BY <1>4, <1>5, <1>7 DEF Committing
  <1>14. Has(t, n)' /\ \A m \in Files \ {n} : ~Has(t, m)'
    BY <1>4, <1>5, <1>7 DEF Has, Busy, Ends
  <1>15. /\ nlink' \in [Files -> Nat] /\ nlink'[n] = nlink[n] - 1
         /\ \A m \in Files \ {n} : nlink'[m] = nlink[m]
    BY <1>1, <1>2, <1>3 DEF Counts
  <1>16. Renamed(entry', entry, k, NoNode, n)
    BY <1>0, <1>1, <1>2 DEF Renamed, Switches, Counts
  <1>17. /\ entry' \in [Keys -> Files \cup {NoNode}]
         /\ entry'[k] = NoNode /\ \A q \in Keys : q # k => entry'[q] = entry[q]
    <2>1. entry' \in [Keys -> Files \cup {NoNode}]
      BY <1>3, <1>16, RenamedType
    <2>2. entry'[k] = NoNode /\ \A q \in Keys : q # k => entry'[q] = entry[q]
      BY <1>3, <1>16, RenamedAt
    <2>3. QED
      BY <2>1, <2>2
  <1>18. Count(entry', n) = Count(entry, n) - 1
    BY <1>0, <1>3, <1>16, OneNameLess
  <1>19. \A m \in Files \ {n} : Count(entry', m) = Count(entry, m)
    BY <1>3, <1>16, OtherNames
  <1>20. \A m : ~Adding(m) /\ ~Adding(m)'
    <2>1. \A m : ~Adding(m)
      BY <1>8 DEF Adding
    <2>2. \A m : ~Adding(m)'
      BY <1>7, <1>10 DEF Adding
    <2>3. QED
      BY <2>1, <2>2
  <1>21. Counts'
    <2>1. nlink[n] \in Nat /\ Count(entry, n) \in Nat
      BY <1>2, <1>3, CountNat DEF Counts
    <2>2. Gap(n)' = Gap(n)
      BY <2>1, <1>15, <1>18, <1>20 DEF Gap, Off
    <2>3. \A m \in Files \ {n} : Gap(m)' = Gap(m)
      BY <1>15, <1>19, <1>20 DEF Gap, Off
    <2>4. \A m \in Files : Gap(m)' = Gap(m)
      BY <2>2, <2>3
    <2>5. QED
      BY <2>4, <1>1, <1>2, <1>15, <1>17, <1>20, CountsKept DEF data
  <1>22. Logged'
    <2>1. PICK f : Replay(f)
      BY <1>2 DEF Logged
    <2>2. PICK B : B = f[Len(log)]
      OBVIOUS
    <2>3. Meets(B)
      BY <2>1, <2>2 DEF Replay
    <2>d. "directories" \in Ends /\ "nodes" \in Ends
      BY DEF Ends
    <2>4. \A q \in Keys : B.entry[q] = entry[q]
      BY <2>3, <2>d, <1>12 DEF Meets
    <2>5. \A m \in Files : m \notin B.half /\ nlink[m] = B.nlink[m]
      BY <2>3, <2>d, <1>9, <1>12 DEF Meets
    <2>6. ASSUME NEW q \in Keys
          PROVE  \/ B.entry[q] = entry'[q]
                    /\ \A u \in Threads : Committing(u, "directories")' => call'[u].key # q
                 \/ \E u \in Threads : /\ Committing(u, "directories")' /\ call'[u].key = q
                                       /\ Switches(B.entry, q, entry'[q], call'[u].node)
      <3>1. CASE q = k
        <4>1. Switches(B.entry, k, entry'[k], n)
          BY <2>4, <1>0, <1>17 DEF Switches
        <4>2. QED
          BY <3>1, <4>1, <1>4, <1>5, <1>13
      <3>2. CASE q # k
        BY <3>2, <2>4, <2>d, <1>4, <1>5, <1>10, <1>17
      <3>3. QED
        BY <3>1, <3>2
    <2>7. ASSUME NEW m \in Files
          PROVE  /\ m \in B.half <=> \E u \in Threads : Committing(u, "nodes")' /\ call'[u].node = m
                 /\ Adding(m)' => nlink'[m] = B.nlink[m] + 1
                 /\ (\A u \in Threads : ~Has(u, m)') => nlink'[m] = B.nlink[m]
      <3>1. ~\E u \in Threads : Committing(u, "nodes")' /\ call'[u].node = m
        BY <2>d, <1>10, <1>13
      <3>2. (\A u \in Threads : ~Has(u, m)') => nlink'[m] = B.nlink[m]
        BY <2>5, <1>14, <1>15
      <3>3. QED
        BY <3>1, <3>2, <2>5, <1>20
    <2>8. Meets(B)'
      BY <2>6, <2>7 DEF Meets, Switches
    <2>9. QED
      BY <2>1, <2>2, <2>8, <1>1, SameLog
  <1>23. Last' \in Int /\ Last \in Int /\ Last' <= Last
    <2>1. LastOf(nlink) \in Ids /\ LastOf(nlink') \in Ids
      BY LastIs
    <2>2. LastOf(nlink') \in Dirs => LastOf(nlink') <= LastOf(nlink)
      BY LastIs
    <2>3. LastOf(nlink') \notin Dirs => LastOf(nlink') \in Files /\ nlink'[LastOf(nlink')] > 0
      BY LastIs
    <2>4. \A m \in Files : nlink'[m] > 0 => nlink[m] > 0
      BY <1>1, <1>15
    <2>5. \A m \in Files : nlink[m] > 0 => m <= LastOf(nlink)
      BY LastIs
    <2>6. QED
      BY <2>1, <2>2, <2>3, <2>4, <2>5 DEF Last, LastOf, Ids
  <1>24. Rest'
    <2>1. Makers' \subseteq Makers
      BY <1>7, <1>10 DEF Makers, Making
    <2>2. Runs(t)'
      BY <1>3, <1>4, <1>5, <1>6, <1>7 DEF Runs, Stages, Making, Ends
    <2>3. QED
      BY <2>1, <2>2, <1>1, <1>2, <1>5, <1>23, FewerMakers, RestKept DEF Rest, data
  <1>25. Locks'
    <2>1. holder' \in [Items -> Threads \cup {NoThread}]
      BY <1>1, <1>2 DEF Locks
    <2>2. Owns(t)'
      <3>1. creating' # t
        BY <1>1, <1>2, <1>8 DEF Locks, Owns
      <3>2. Dir(t)' = k[1]
        BY <1>4, <1>5 DEF Dir
      <3>3. holder'[D(k[1])] = t /\ holder'[N(n)] = t /\ holder'[N(k[1])] = t
        BY <1>1, <1>3, PagesOfIds
      <3>4. \A m \in Files : Has(t, m)' => holder'[N(m)] = t
        BY <3>3, <1>14
      <3>5. \A d \in Dirs : holder'[D(d)] = t => D(d) = D(k[1])
        BY <1>1, <1>3, <1>11, PagesOfIds
      <3>6. Guarded(t)'
        BY <3>3, <3>5, <1>3 DEF Guarded, N, D
      <3>7. holder'[D(Dir(t))'] = t
        BY <3>2, <3>3 DEF D
      <3>8. QED
        BY <3>1, <3>4, <3>6, <3>7, <1>7 DEF Owns, Found
    <2>3. \A u \in Threads \ {t} : /\ \A x \in Items : holder'[x] = u <=> holder[x] = u
                                   /\ creating' = u <=> creating = u
                                   /\ At(u) # "put"
      BY <1>1, <1>8, <1>11
    <2>4. creating' \in Threads \cup {NoThread}
      BY <1>1, <1>2 DEF Locks
    <2>5. QED
      BY <2>1, <2>2, <2>3, <2>4, <1>2, <1>5, LocksKept
  <1>26. QED
    BY <1>21, <1>22, <1>24, <1>25 DEF IInv

(* The oldest record is on disk now. *)
LEMMA WriteLogKeeps ==
    ASSUME IInv, WriteLog
    PROVE  IInv'
  <1>0. PICK r, len : r = Head(log) /\ len = Len(log)
    OBVIOUS
  <1>1. /\ log # <<>> /\ log' = Tail(log)
        /\ UNCHANGED <<nlink, entry, holder, creating, call, todo, cold, torn, crashes>>
    BY DEF WriteLog
  <1>2. Rest /\ Locks /\ Counts /\ Logged
    BY DEF IInv
  <1>3. PICK f : Replay(f)
    BY <1>2 DEF Logged
  <1>4. /\ len \in Nat /\ len > 0 /\ r = log[1] /\ Len(log') = len - 1
        /\ log' \in Seq(RecordType)
        /\ \A i \in 1..(len - 1) : log'[i] = log[i + 1]
    BY <1>0, <1>1, <1>2 DEF Rest
  <1>5. 1 \in 1..len /\ 0 \in 0..len /\ 1 \in 0..len
    BY <1>4
  <1>6. f[1] = Write(Start, r) /\ Fits(Start, r) /\ Sane(f[1])
    BY <1>0, <1>3, <1>4, <1>5 DEF Replay
  <1>7. Start' = Write(Start, r)
    <2>1. DOMAIN disk = {"nlink", "entry"} /\ disk = [nlink |-> disk.nlink, entry |-> disk.entry]
      BY <1>2 DEF Rest
    <2>2. CASE r.db = "nodes"
      <3>1. disk' = [disk EXCEPT !.nlink = [disk.nlink EXCEPT ![r.node] = r.value]]
            /\ half' = half \ {r.node}
        BY <2>2, <1>0 DEF WriteLog
      <3>2. disk'.nlink = [disk.nlink EXCEPT ![r.node] = r.value] /\ disk'.entry = disk.entry
        BY <2>1, <3>1
      <3>3. QED
        BY <2>2, <3>1, <3>2 DEF Start, Write
    <2>3. CASE r.db # "nodes"
      <3>1. disk' = [disk EXCEPT !.entry = [disk.entry EXCEPT ![r.key] = r.value]]
            /\ half' = half \cup {r.node}
        BY <2>3, <1>0 DEF WriteLog
      <3>2. disk'.entry = [disk.entry EXCEPT ![r.key] = r.value] /\ disk'.nlink = disk.nlink
        BY <2>1, <3>1
      <3>3. QED
        BY <2>3, <3>1, <3>2 DEF Start, Write
    <2>4. QED
      BY <2>2, <2>3
  <1>8. disk' \in [nlink : [Files -> Nat], entry : [Keys -> Files \cup {NoNode}]]
    <2>1. disk'.nlink \in [Files -> Nat] /\ disk'.entry \in [Keys -> Files \cup {NoNode}]
      <3>1. Sane(Start')
        BY <1>6, <1>7
      <3>2. QED
        BY <3>1 DEF Sane, Start
    <2>2. disk' = [nlink |-> disk'.nlink, entry |-> disk'.entry]
      BY <1>2 DEF WriteLog, Rest
    <2>3. QED
      BY <2>1, <2>2
  <1>9. \A u \in Threads : /\ At(u)' = At(u) /\ Runs(u)' = Runs(u) /\ Owns(u)' = Owns(u)
                           /\ \A m : Has(u, m)' = Has(u, m)
                           /\ \A p : Committing(u, p)' = Committing(u, p)
    BY <1>1 DEF At, Runs, Owns, Has, Busy, Committing, Last, Dir, Way, Due, Guarded
  <1>10. \A m : Adding(m)' = Adding(m)
    BY <1>1 DEF Adding, At
  <1>11. Makers' = Makers /\ Last' = Last
    BY <1>1 DEF Makers, Last, At
  <1>12. Rest'
    BY <1>0, <1>1, <1>2, <1>4, <1>8, <1>9, <1>11, BoundsAssumption DEF Rest
  <1>13. Locks'
    BY <1>1, <1>2, <1>9 DEF Locks
  <1>14. Counts'
    BY <1>1, <1>2, <1>10 DEF Counts, Gap, Off
  <1>15. Logged'
    <2>1. PICK g : g = [i \in 0..(len - 1) |-> f[i + 1]]
      OBVIOUS
    <2>2. \A i \in 0..(len - 1) : g[i] = f[i + 1]
      BY <2>1
    <2>3. \A E : Sane(E)' = Sane(E)
      BY <1>1 DEF Sane
    <2>4. g[0] = Start'
      BY <2>2, <1>4, <1>6, <1>7
    <2>5. ASSUME NEW i \in 1..(len - 1)
          PROVE  g[i] = Write(g[i - 1], log'[i]) /\ Fits(g[i - 1], log'[i])
      <3>1. /\ i + 1 \in 1..len /\ (i + 1) - 1 = i /\ i \in 0..(len - 1) /\ i - 1 \in 0..(len - 1)
            /\ (i - 1) + 1 = i
        BY <1>4
      <3>2. g[i] = f[i + 1] /\ g[i - 1] = f[i] /\ log'[i] = log[i + 1]
        BY <2>2, <3>1, <1>4
      <3>3. f[i + 1] = Write(f[i], log[i + 1]) /\ Fits(f[i], log[i + 1])
        BY <3>1, <1>0, <1>3 DEF Replay
      <3>4. QED
        BY <3>2, <3>3
    <2>6. ASSUME NEW i \in 0..(len - 1) PROVE Sane(g[i])'
      <3>1. i + 1 \in 0..len
        BY <1>4
      <3>2. Sane(f[i + 1])
        BY <3>1, <1>0, <1>3 DEF Replay
      <3>3. QED
        BY <3>2, <2>2, <2>3
    <2>7. Meets(g[len - 1])'
      <3>1. PICK B : B = f[len]
        OBVIOUS
      <3>2. Meets(B)
        BY <3>1, <1>0, <1>3 DEF Replay
      <3>3. g[len - 1] = B
        BY <3>1, <2>2, <1>4
      <3>4. Meets(B)'
        BY <3>2, <1>1, <1>9, <1>10 DEF Meets
      <3>5. QED
        BY <3>3, <3>4
    <2>8. Replay(g)'
      BY <2>4, <2>5, <2>6, <2>7, <1>4 DEF Replay
    <2>9. QED
      BY <2>8 DEF Logged
  <1>16. QED
    BY <1>12, <1>13, <1>14, <1>15 DEF IInv

(* Nobody runs a handler, and the databases are those on disk. *)
Resting ==
    /\ nlink = disk.nlink /\ entry = disk.entry /\ log = <<>> /\ half = {}
    /\ disk \in [nlink : [Files -> Nat], entry : [Keys -> Files \cup {NoNode}]]
    /\ \A n \in Files : /\ n \notin torn => Off(nlink, entry, n) = 0
                        /\ Off(nlink, entry, n) \in -crashes..crashes
    /\ torn \subseteq Files /\ crashes \in 0..MaxCrashes
    /\ holder = [x \in Items |-> NoThread] /\ creating = NoThread
    /\ call = [t \in Threads |-> NoCall] /\ todo = [t \in Threads |-> <<>>]
    /\ cold = [t \in Threads |-> {}]

LEMMA AtRest == Resting => IInv
  <1> SUFFICES ASSUME Resting PROVE IInv
    OBVIOUS
  <1> USE DEF Resting
  <1>1. \A t \in Threads : At(t) = "idle" /\ call[t] = NoCall /\ todo[t] = <<>> /\ cold[t] = {}
    BY DEF At, AtOf
  <1>2. NoCall \in CallType /\ NoCall.op = "none" /\ ~NoCall.done /\ NoCall.node \notin Files
    BY NoNodeIsNoFile DEF NoCall, CallType
  <1>3. StepsFrom("idle", NoCall.op) = <<>>
    BY DEF StepsFrom
  <1>4. \A t \in Threads : Runs(t)
    BY <1>1, <1>2, <1>3 DEF Runs, Stages, Making, Ends
  <1>5. \A t \in Threads : /\ \A n : ~Has(t, n)
                           /\ \A p \in Ends : ~Committing(t, p)
    BY <1>1 DEF Has, Busy, Committing, Ends
  <1>6. \A n : ~Adding(n)
    BY <1>1 DEF Adding
  <1>7. Makers = {}
    BY <1>1 DEF Makers, Making
  <1>8. Last + Cardinality(Makers) <= MaxId
    <2>1. LastOf(nlink) \in Ids
      BY LastIs
    <2>2. Cardinality(Makers) = 0
      BY <1>7, FS_EmptySet
    <2>3. QED
      BY <2>1, <2>2, IdsAssumption DEF Last, LastOf, Ids
  <1>9. Rest
    <2>1. log \in Seq(RecordType) /\ Len(log) <= MaxLog
      BY BoundsAssumption
    <2>2. DOMAIN todo = Threads /\ DOMAIN cold = Threads /\ call \in [Threads -> CallType]
      BY <1>2
    <2>3. QED
      BY <2>1, <2>2, <1>4, <1>8 DEF Rest
  <1>10. Locks
    <2>1. \A t \in Threads : Owns(t)
      <3>1. \A t \in Threads, x \in Items : holder[x] # t
        BY ThreadsAssumption
      <3>2. \A t \in Threads : Guarded(t)
        BY <3>1, PagesOfIds DEF Guarded
      <3>3. QED
        BY <3>1, <3>2, <1>1, <1>5, ThreadsAssumption DEF Owns, Found
    <2>2. QED
      BY <2>1 DEF Locks
  <1>11. crashes \in Nat
    BY BoundsAssumption
  <1>12. nlink \in [Files -> Nat] /\ entry \in [Keys -> Files \cup {NoNode}]
    OBVIOUS
  <1>13. \A n \in Files : Off(nlink, entry, n) \in Int
    BY <1>12, CountNat DEF Off
  <1>14. Counts
    <2>1. \A n \in Files : Gap(n) = Off(nlink, entry, n)
      BY <1>6, <1>13 DEF Gap
    <2>2. QED
      BY <2>1, <1>6, <1>12 DEF Counts
  <1>15. Logged
    <2>1. PICK f : f = [i \in 0..0 |-> Start]
      OBVIOUS
    <2>2. f[0] = Start /\ Len(log) = 0 /\ 0 \in 0..0 /\ 1..0 = {} /\ 0..0 = {0}
      BY <2>1
    <2>3. Sane(Start)
      <3>1. /\ Start.nlink = nlink /\ Start.entry = entry /\ Start.half = {}
        BY DEF Start
      <3>2. ASSUME NEW n \in Files
            PROVE  LET most == (IF n \in torn THEN crashes ELSE 0) + (IF n \in Start.half THEN 1 ELSE 0)
                   IN  Off(Start.nlink, Start.entry, n) \in -most..most
        BY <3>1, <1>11
      <3>3. QED
        BY <3>1, <3>2, <1>12 DEF Sane
    <2>4. Meets(Start)
      <3>1. /\ Start.nlink = nlink /\ Start.entry = entry /\ Start.half = {}
        BY DEF Start
      <3>d. "directories" \in Ends /\ "nodes" \in Ends
        BY DEF Ends
      <3>2. QED
        BY <3>1, <3>d, <1>5, <1>6 DEF Meets
    <2>5. Replay(f)
      BY <2>2, <2>3, <2>4 DEF Replay
    <2>6. QED
      BY <2>5 DEF Logged
  <1>16. QED
    BY <1>9, <1>10, <1>14, <1>15 DEF IInv

LEMMA InitIs ==
    ASSUME Init
    PROVE  IInv
  <1>1. /\ nlink = [n \in Files |-> IF n \in Old THEN 1 ELSE 0]
        /\ entry \in [Keys -> Old \cup {NoNode}]
        /\ \A n \in Old : Cardinality(NamesOf(entry, n)) = 1
        /\ disk = [nlink |-> nlink, entry |-> entry]
        /\ half = {} /\ torn = {} /\ crashes = 0 /\ log = <<>>
        /\ holder = [x \in Items |-> NoThread] /\ creating = NoThread
        /\ call = [t \in Threads |-> NoCall] /\ todo = [t \in Threads |-> <<>>]
        /\ cold = [t \in Threads |-> {}]
    BY DEF Init
  <1>2. Old \subseteq Files
    BY DEF Old
  <1>3. nlink \in [Files -> Nat] /\ entry \in [Keys -> Files \cup {NoNode}]
    BY <1>1, <1>2
  <1>4. ASSUME NEW n \in Files PROVE Off(nlink, entry, n) = 0
    <2>1. CASE n \in Old
      BY <2>1, <1>1 DEF Off, Count
    <2>2. CASE n \notin Old
      <3>1. NamesOf(entry, n) = {}
        BY <2>2, <1>1, NoNodeIsNoFile DEF NamesOf
      <3>2. QED
        BY <3>1, <2>2, <1>1, FS_EmptySet DEF Off, Count
    <2>3. QED
      BY <2>1, <2>2
  <1>5. crashes \in 0..MaxCrashes
    BY <1>1, BoundsAssumption
  <1>6. disk \in [nlink : [Files -> Nat], entry : [Keys -> Files \cup {NoNode}]]
        /\ nlink = disk.nlink /\ entry = disk.entry
    BY <1>1, <1>3
  <1>7. \A n \in Files : /\ n \notin torn => Off(nlink, entry, n) = 0
                         /\ Off(nlink, entry, n) \in -crashes..crashes
    BY <1>1, <1>4
  <1>8. QED
    BY <1>1, <1>5, <1>6, <1>7, AtRest DEF Resting

(* After a crash each count differs from its names by one more at most. *)
LEMMA CrashKeeps ==
    ASSUME IInv, Crash
    PROVE  IInv'
  <1>1. /\ crashes < MaxCrashes /\ crashes' = crashes + 1
        /\ nlink' = disk'.nlink /\ entry' = disk'.entry /\ disk' = disk
        /\ log' = <<>> /\ torn' = torn \cup half /\ half' = {}
        /\ holder' = [x \in Items |-> NoThread] /\ creating' = NoThread
        /\ call' = [t \in Threads |-> NoCall] /\ todo' = [t \in Threads |-> <<>>]
        /\ cold' = [t \in Threads |-> {}]
    BY DEF Crash
  <1>2. Rest /\ Logged
    BY DEF IInv
  <1>3. PICK f : Replay(f)
    BY <1>2 DEF Logged
  <1>4. Len(log) \in Nat
    BY <1>2 DEF Rest
  <1>5. Sane(Start)
    BY <1>3, <1>4 DEF Replay
  <1>6. Start.nlink = disk.nlink /\ Start.entry = disk.entry /\ Start.half = half
    BY DEF Start
  <1>7. half \subseteq Files
    BY <1>5, <1>6 DEF Sane
  <1>8. crashes \in Nat
    BY <1>2, BoundsAssumption DEF Rest
  <1>9. ASSUME NEW n \in Files
        PROVE  LET off == Off(disk.nlink, disk.entry, n) IN
               /\ n \notin torn' => off = 0
               /\ off \in -(crashes + 1)..(crashes + 1)
    <2>1. LET most == (IF n \in torn THEN crashes ELSE 0) + (IF n \in half THEN 1 ELSE 0)
          IN  Off(disk.nlink, disk.entry, n) \in -most..most
      BY <1>5, <1>6 DEF Sane
    <2>2. QED
      BY <2>1, <1>1, <1>8
  <1>10. disk' \in [nlink : [Files -> Nat], entry : [Keys -> Files \cup {NoNode}]]
         /\ torn' \subseteq Files /\ crashes' \in 0..MaxCrashes
    BY <1>1, <1>2, <1>7, <1>8, BoundsAssumption DEF Rest
  <1>11. \A n \in Files : /\ n \notin torn' => Off(nlink', entry', n) = 0
                          /\ Off(nlink', entry', n) \in -crashes'..crashes'
    BY <1>1, <1>9
  <1>12. Resting'
    BY <1>1, <1>10, <1>11 DEF Resting, Off, Count, NamesOf
  <1>13. QED
    BY <1>12, AtRest, PTL

LEMMA NextKeeps ==
    ASSUME IInv, [Next]_vars
    PROVE  IInv'
  <1>1. ASSUME NEW t \in Threads, NEW k \in Keys, Mknod(t, k) PROVE IInv'
    BY <1>1, MknodKeeps
  <1>2. ASSUME NEW t \in Threads, NEW k \in Keys, Unlink(t, k) PROVE IInv'
    BY <1>2, UnlinkKeeps
  <1>3. ASSUME NEW t \in Threads, NEW k \in Keys, NEW j \in Keys, Link(t, j, k) PROVE IInv'
    BY <1>3, LinkKeeps
  <1>a. ASSUME NEW t \in Threads, NEW k \in Keys, Getattr(t, k) PROVE IInv'
    BY <1>a, GetattrKeeps
  <1>b. ASSUME NEW t \in Threads, NEW k \in Keys, Readdir(t, k) PROVE IInv'
    BY <1>b, ReaddirKeeps
  <1>c. ASSUME NEW t \in Threads, Lookup(t) PROVE IInv'
    BY <1>c, LookupKeeps
  <1>d. ASSUME NEW t \in Threads, Read(t) PROVE IInv'
    BY <1>d, ReadKeeps
  <1>4. ASSUME NEW t \in Threads, Parent(t) PROVE IInv'
    BY <1>4, ParentKeeps
  <1>5. ASSUME NEW t \in Threads, CreateLock(t) PROVE IInv'
    BY <1>5, CreateLockKeeps
  <1>6. ASSUME NEW t \in Threads, LastId(t) PROVE IInv'
    BY <1>6, LastIdKeeps
  <1>7. ASSUME NEW t \in Threads, Put(t) PROVE IInv'
    BY <1>7, PutKeeps
  <1>8. ASSUME NEW t \in Threads, FindNode(t) PROVE IInv'
    BY <1>8, FindNodeKeeps
  <1>9. ASSUME NEW t \in Threads, Addchild(t) PROVE IInv'
    BY <1>9, AddKeeps, NoAddKeeps
  <1>10. ASSUME NEW t \in Threads, NEW db \in {"nodes", "directories"}, Commit(t, db) PROVE IInv'
    <2>1. CASE ~call[t].done
      BY <1>10, <2>1, NoCommitKeeps DEF Ends
    <2>2. CASE call[t].done
      BY <1>10, <2>2, NameCommitKeeps, CountCommitKeeps
    <2>3. QED
      BY <2>1, <2>2
  <1>11. ASSUME NEW t \in Threads, Victim(t) PROVE IInv'
    BY <1>11, VictimKeeps
  <1>12. CASE WriteLog
    BY <1>12, WriteLogKeeps
  <1>13. CASE Crash
    BY <1>13, CrashKeeps
  <1>14. CASE UNCHANGED vars
    <2>1. UNCHANGED <<nlink, entry, holder, creating, call, todo, cold, log, disk, half, torn, crashes>>
      BY <1>14 DEF vars
    <2>2. Rest' = Rest
      BY <2>1 DEF Rest, Runs, At, Makers, Last, Way, Due, Dir
    <2>3. Locks' = Locks
      BY <2>1 DEF Locks, Owns, Guarded, Has, Busy, At, Dir, Last
    <2>4. Counts' = Counts
      BY <2>1 DEF Counts, Gap, Off, Adding, At
    <2>5. Logged' = Logged
      BY <2>1 DEF Logged, Replay, Start, Sane, Meets, Adding, Has, Busy, Committing, At
    <2>6. QED
      BY <2>2, <2>3, <2>4, <2>5 DEF IInv
  <1>15. QED
    BY <1>1, <1>2, <1>3, <1>a, <1>b, <1>c, <1>d, <1>4, <1>5, <1>6, <1>7, <1>8, <1>9, <1>10, <1>11, <1>12, <1>13, <1>14
       DEF Next

(* In every state of the program the handlers, the locks, the counts and the *)
(* log fit together: what the theorems below rest on.                        *)
THEOREM Invariance == Spec => []IInv
  <1>1. Init => IInv
    BY InitIs
  <1>2. IInv /\ [Next]_vars => IInv'
    BY NextKeeps
  <1>3. QED
    BY <1>1, <1>2, PTL DEF Spec

-----------------------------------------------------------------------------
(* The theorems. *)

LEMMA TypesFit == IInv => TypeOK
  <1> SUFFICES ASSUME IInv PROVE TypeOK
    OBVIOUS
  <1>1. Rest /\ Locks /\ Counts /\ Logged
    BY DEF IInv
  <1>2. \A x \in Items : holder[x] # NoThread => ~Idle(holder[x])
    <2>1. ASSUME NEW x \in Items, holder[x] # NoThread PROVE ~Idle(holder[x])
      <3>1. holder[x] \in Threads
        BY <2>1, <1>1 DEF Locks
      <3>2. At(holder[x]) # "idle"
        BY <3>1, <1>1 DEF Locks, Owns
      <3>3. QED
        BY <3>1, <3>2, <1>1, DueIsAt
    <2>2. QED
      BY <2>1
  <1>3. \A t \in Threads : creating = t <=> Due(t, "last") \/ Due(t, "put")
    <2>1. ASSUME NEW t \in Threads PROVE creating = t <=> Due(t, "last") \/ Due(t, "put")
      <3>1. creating = t <=> At(t) \in {"last", "put"}
        BY <1>1 DEF Locks, Owns
      <3>2. (Due(t, "last") <=> At(t) = "last") /\ (Due(t, "put") <=> At(t) = "put")
        BY DueIsAt DEF Stages, Making
      <3>3. QED
        BY <3>1, <3>2
    <2>2. QED
      BY <2>1
  <1>4. \A t \in Threads : Idle(t) <=> call[t] = NoCall
    BY <1>1, DueIsAt DEF Rest, Runs
  <1>5. half \subseteq Files
    <2>1. PICK f : Replay(f)
      BY <1>1 DEF Logged
    <2>2. Len(log) \in Nat
      BY <1>1 DEF Rest
    <2>3. Sane(Start)
      BY <2>1, <2>2 DEF Replay
    <2>4. QED
      BY <2>3 DEF Sane, Start
  <1>6. /\ disk \in [nlink : [Files -> Nat], entry : [Keys -> Files \cup {NoNode}]]
        /\ torn \subseteq Files /\ Len(log) <= MaxLog /\ crashes <= MaxCrashes
    BY <1>1, BoundsAssumption DEF Rest
  <1>7. /\ nlink \in [Files -> Nat] /\ entry \in [Keys -> Files \cup {NoNode}]
        /\ holder \in [Items -> Threads \cup {NoThread}]
        /\ creating \in Threads \cup {NoThread}
    BY <1>1 DEF Counts, Locks
  <1>8. \A t \in Threads : cold[t] # {} =>
           /\ Due(t, "parent") \/ Due(t, "node") \/ Due(t, "get")
           /\ cold[t] \subseteq DOMAIN Way(t)
    <2>1. ASSUME NEW t \in Threads, cold[t] # {}
          PROVE  /\ Due(t, "parent") \/ Due(t, "node") \/ Due(t, "get")
                 /\ cold[t] \subseteq DOMAIN Way(t)
      <3>1. At(t) \in Finding /\ cold[t] \subseteq DOMAIN Way(t)
        BY <2>1, <1>1 DEF Rest, Runs
      <3>2. QED
        BY <3>1, DueIsAt DEF Finding, Stages, Making
    <2>2. QED
      BY <2>1
  <1>9. QED
    BY <1>2, <1>3, <1>4, <1>5, <1>6, <1>7, <1>8 DEF TypeOK

(* The variables have their types, and a thread has locks only in a handler. *)
THEOREM Types == Spec => []TypeOK
  BY Invariance, TypesFit, PTL

LEMMA CountsFit == IInv => CountsAgree
  <1> SUFFICES ASSUME IInv, NEW n \in Files, Unlocked(n)
               PROVE  LET off == nlink[n] - Count(entry, n) IN
                      IF n \in torn THEN off \in -crashes..crashes ELSE off = 0
    BY DEF CountsAgree
  <1>1. Rest /\ Locks /\ Counts
    BY DEF IInv
  <1>2. ~Adding(n)
    <2>1. SUFFICES ASSUME NEW t \in Threads, At(t) = "addchild", call[t].node = n PROVE FALSE
      BY DEF Adding
    <2>2. holder[N(n)] = t
      BY <2>1, <1>1 DEF Locks, Owns, Has, Busy
    <2>3. QED
      BY <2>2, ThreadsAssumption DEF Unlocked
  <1>3. nlink[n] \in Nat /\ Count(entry, n) \in Nat
    BY <1>1, CountNat DEF Counts
  <1>4. Gap(n) = nlink[n] - Count(entry, n)
    BY <1>2, <1>3 DEF Gap, Off
  <1>5. (n \notin torn => Gap(n) = 0) /\ Gap(n) \in -crashes..crashes
    BY <1>1 DEF Counts
  <1>6. QED
    BY <1>4, <1>5

(* Whenever nobody has a file locked, its count is that of its names, except *)
(* for one more or one less with each crash that has torn its handler.       *)
THEOREM CountsStayTrue == Spec => []CountsAgree
  BY Invariance, CountsFit, PTL

(* A record of another node, or of its directory, leaves the names of n. *)
LEMMA NamesHeld ==
    ASSUME NEW B, Sane(B), NEW r, Fits(B, r), NEW n, n \in Files, n \in B.half,
           ~(r.db = "nodes" /\ r.node = n)
    PROVE  n \in Write(B, r).half /\ NamesOf(Write(B, r).entry, n) = NamesOf(B.entry, n)
  <1>1. CASE r.db = "nodes"
    <2>1. r.node # n
      BY <1>1
    <2>2. PICK E : E = Write(B, r)
      OBVIOUS
    <2>3. E.entry = B.entry /\ E.half = B.half \ {r.node}
      BY <1>1, <2>2 DEF Write
    <2>4. QED
      BY <2>1, <2>2, <2>3
  <1>2. CASE r.db # "nodes"
    <2>1. r.key \in Keys /\ r.node \notin B.half /\ Switches(B.entry, r.key, r.value, r.node)
          /\ r.node \in Files
      BY <1>2 DEF Fits
    <2>2. PICK E : E = Write(B, r)
      OBVIOUS
    <2>3. E.entry = [B.entry EXCEPT ![r.key] = r.value] /\ E.half = B.half \cup {r.node}
      BY <1>2, <2>2 DEF Write
    <2>4. B.entry \in [Keys -> Files \cup {NoNode}]
      BY DEF Sane
    <2>5. Renamed(E.entry, B.entry, r.key, r.value, r.node)
      BY <2>1, <2>3, <2>4 DEF Renamed
    <2>6. n # r.node
      BY <2>1
    <2>7. NamesOf(E.entry, n) = NamesOf(B.entry, n)
      BY <2>1, <2>5, <2>6, OtherNames
    <2>8. QED
      BY <2>2, <2>3, <2>7
  <1>3. QED
    BY <1>1, <1>2

(* As long as the log has no count of n, the names of n stay what they are. *)
LEMMA NamesHeldTo ==
    ASSUME Rest, NEW f, Replay(f), NEW n, n \in Files, n \in half, NEW q \in 0..Len(log),
           \A i \in 1..q : ~(log[i].db = "nodes" /\ log[i].node = n)
    PROVE  n \in f[q].half /\ NamesOf(f[q].entry, n) = NamesOf(disk.entry, n)
  <1>1. Len(log) \in Nat /\ q \in Nat /\ q <= Len(log)
    BY DEF Rest
  <1>2. PICK T : T = {i \in 0..q : n \in f[i].half /\ NamesOf(f[i].entry, n) = NamesOf(disk.entry, n)}
    OBVIOUS
  <1>3. 0 \in T
    <2>1. f[0] = Start
      BY DEF Replay
    <2>2. Start.half = half /\ Start.entry = disk.entry
      BY DEF Start
    <2>3. QED
      BY <2>1, <2>2, <1>1, <1>2
  <1>4. ASSUME NEW i \in 0..(q - 1), i \in T PROVE i + 1 \in T
    <2>1. i \in 0..Len(log) /\ i + 1 \in 1..Len(log) /\ i + 1 \in 1..q /\ (i + 1) - 1 = i
          /\ i + 1 \in 0..q
      BY <1>1
    <2>2. f[i + 1] = Write(f[i], log[i + 1]) /\ Fits(f[i], log[i + 1]) /\ Sane(f[i])
      BY <2>1 DEF Replay
    <2>3. n \in f[i].half /\ NamesOf(f[i].entry, n) = NamesOf(disk.entry, n)
      BY <1>2, <1>4
    <2>4. n \in f[i + 1].half /\ NamesOf(f[i + 1].entry, n) = NamesOf(f[i].entry, n)
      BY <2>1, <2>2, <2>3, NamesHeld
    <2>5. QED
      BY <2>1, <2>3, <2>4, <1>2
  <1>5. 0..q \subseteq T
    BY <1>1, <1>3, <1>4, SetInduction
  <1>6. QED
    BY <1>1, <1>2, <1>5

LEMMA DirectoriesFit == IInv => DirectoriesLead
  <1> SUFFICES ASSUME IInv, NEW n \in Files \ torn
               PROVE  LET records == {i \in DOMAIN log : log[i].db = "nodes" /\ log[i].node = n} IN
                      Count(disk.entry, n) =
                         IF n \notin half THEN disk.nlink[n]
                         ELSE IF records # {} THEN log[Min(records)].value
                         ELSE nlink[n]
    BY DEF DirectoriesLead
  <1>1. Rest /\ Locks /\ Counts /\ Logged
    BY DEF IInv
  <1>2. PICK f : Replay(f)
    BY <1>1 DEF Logged
  <1>3. Len(log) \in Nat /\ DOMAIN log = 1..Len(log) /\ crashes \in Nat
    BY <1>1, BoundsAssumption DEF Rest
  <1>4. ASSUME NEW i \in 0..Len(log), n \notin f[i].half
        PROVE  Count(f[i].entry, n) = f[i].nlink[n]
    <2>1. Sane(f[i])
      BY <1>2 DEF Replay
    <2>2. Off(f[i].nlink, f[i].entry, n) \in -0..0
      BY <2>1, <1>4 DEF Sane
    <2>3. f[i].nlink[n] \in Nat /\ Count(f[i].entry, n) \in Nat
      BY <2>1, CountNat DEF Sane
    <2>4. QED
      BY <2>2, <2>3 DEF Off
  <1>5. f[0] = Start /\ Start.nlink = disk.nlink /\ Start.entry = disk.entry /\ Start.half = half
    BY <1>2 DEF Replay, Start
  <1>6. CASE n \notin half
    BY <1>3, <1>4, <1>5, <1>6
  <1>7. CASE n \in half
    <2>1. PICK R : R = {i \in DOMAIN log : log[i].db = "nodes" /\ log[i].node = n}
      OBVIOUS
    <2>2. CASE R # {}
      <3>1. R \subseteq Nat
        BY <2>1, <1>3
      <3>2. PICK m \in R : \A j \in R : m <= j
        BY <2>2, <3>1, LeastNatural
      <3>3. Min(R) \in R /\ \A j \in R : Min(R) <= j
        BY <3>2 DEF Min
      <3>4. Min(R) = m
        <4>1. m \in Nat /\ Min(R) \in Nat
          BY <3>1, <3>2, <3>3
        <4>2. m <= Min(R) /\ Min(R) <= m
          BY <3>2, <3>3
        <4>3. QED
          BY <4>1, <4>2
      <3>5. m \in 1..Len(log) /\ log[m].db = "nodes" /\ log[m].node = n
        BY <2>1, <3>2, <1>3
      <3>6. m - 1 \in 0..Len(log) /\ m \in 0..Len(log)
        BY <3>5, <1>3
      <3>7. \A i \in 1..(m - 1) : ~(log[i].db = "nodes" /\ log[i].node = n)
        BY <2>1, <3>2, <3>5, <1>3
      <3>8. n \in f[m - 1].half /\ NamesOf(f[m - 1].entry, n) = NamesOf(disk.entry, n)
        BY <3>6, <3>7, <1>1, <1>2, <1>7, NamesHeldTo
      <3>9. f[m] = Write(f[m - 1], log[m]) /\ Sane(f[m - 1])
        BY <3>5, <3>6, <1>2 DEF Replay
      <3>10. /\ f[m].entry = f[m - 1].entry /\ n \notin f[m].half
             /\ f[m].nlink = [f[m - 1].nlink EXCEPT ![n] = log[m].value]
        BY <3>5, <3>9 DEF Write
      <3>11. f[m].nlink[n] = log[m].value
        BY <3>9, <3>10 DEF Sane
      <3>12. Count(f[m].entry, n) = log[m].value
        BY <3>6, <3>10, <3>11, <1>4
      <3>13. Count(disk.entry, n) = log[m].value
        BY <3>8, <3>10, <3>12 DEF Count
      <3>14. QED
        BY <2>1, <2>2, <3>4, <3>13, <1>7
    <2>3. CASE R = {}
      <3>1. PICK len : len = Len(log)
        OBVIOUS
      <3>2. \A i \in 1..len : ~(log[i].db = "nodes" /\ log[i].node = n)
        BY <2>1, <2>3, <3>1, <1>3
      <3>3. len \in 0..Len(log)
        BY <3>1, <1>3
      <3>4. n \in f[len].half /\ NamesOf(f[len].entry, n) = NamesOf(disk.entry, n)
        BY <3>1, <3>2, <3>3, <1>1, <1>2, <1>7, NamesHeldTo
      <3>5. Meets(f[len])
        BY <3>1, <1>2 DEF Replay
      <3>6. PICK t \in Threads : Committing(t, "nodes") /\ call[t].node = n
        BY <3>4, <3>5 DEF Meets
      <3>7. Has(t, n)
        BY <3>6 DEF Has, Busy, Committing, Ends
      <3>8. \A u \in Threads \ {t} : ~Has(u, n)
        <4>1. holder[N(n)] = t
          BY <3>7, <1>1 DEF Locks, Owns
        <4>2. QED
          BY <4>1, <1>1, OneHas
      <3>9. \A u \in Threads : Committing(u, "directories") => call[u].node # n
        <4>1. ~Committing(t, "directories")
          BY <3>6 DEF Committing
        <4>2. \A u \in Threads \ {t} : Committing(u, "directories") => call[u].node # n
          BY <3>8 DEF Committing, Has, Busy, Ends
        <4>3. QED
          BY <4>1, <4>2
      <3>10. NamesOf(f[len].entry, n) = NamesOf(entry, n)
        BY <3>5, <3>9, NamesLogged
      <3>11. ~Adding(n)
        <4>1. At(t) # "addchild"
          BY <3>6 DEF Committing
        <4>2. \A u \in Threads \ {t} : ~(At(u) = "addchild" /\ call[u].node = n)
          BY <3>8 DEF Has, Busy
        <4>3. QED
          BY <4>1, <4>2 DEF Adding
      <3>12. nlink[n] \in Nat /\ Count(entry, n) \in Nat
        BY <1>1, CountNat DEF Counts
      <3>13. Gap(n) = nlink[n] - Count(entry, n) /\ Gap(n) = 0
        BY <3>11, <3>12, <1>1 DEF Gap, Off, Counts
      <3>14. Count(disk.entry, n) = nlink[n]
        BY <3>4, <3>10, <3>12, <3>13 DEF Count
      <3>15. QED
        BY <2>1, <2>3, <3>14, <1>7
    <2>4. QED
      BY <2>2, <2>3
  <1>8. QED
    BY <1>6, <1>7

(* On disk the names are never behind the counts: a crash leaves no name of  *)
(* a file whose node is gone already.                                        *)
THEOREM DirectoriesFirst == Spec => []DirectoriesLead
  BY Invariance, DirectoriesFit, PTL

(* Somebody waits in the directories: for one who waits elsewhere and has a  *)
(* neighbouring directory, or else all of them are found.                    *)
LEMMA DirectoriesWait ==
    ASSUME IInv, NEW S \in SUBSET Threads, Stuck(S, WaitsFor),
           NEW w \in S, WaitsIn(w, "directories") # {}, \A t \in S : ~Detected(t)
    PROVE  \E t, u \in S : \E d, e \in Dirs :
              /\ d # e /\ D(d) = D(e) /\ holder[D(d)] = t /\ D(d) \in Asked(u)
              /\ holder[N(d)] = t /\ holder[N(e)] = u
              /\ WaitsIn(t, "directories") = {}
  <1> DEFINE Z == {u \in S : WaitsIn(u, "directories") # {}}
  <1>1. Rest /\ Locks
    BY DEF IInv
  <1>2. \A u \in S : WaitsIn(u, "directories") \subseteq S
    BY DEF Stuck, WaitsFor
  <1>3. PICK u \in Z : \E t \in WaitsIn(u, "directories") : t \notin Z
    <2>1. SUFFICES ASSUME \A u \in Z : WaitsIn(u, "directories") \subseteq Z PROVE FALSE
      OBVIOUS
    <2>2. Z # {} /\ w \in Z /\ Z \in SUBSET Threads
      OBVIOUS
    <2>3. \A u \in Z : WaitsIn(u, "directories") # {} /\ WaitsIn(u, "directories") \subseteq Z
      BY <2>1
    <2> HIDE DEF Z
    <2>4. Stuck(Z, LAMBDA u : WaitsIn(u, "directories"))
      BY <2>2, <2>3 DEF Stuck
    <2>5. Detected(w)
      BY <2>2, <2>4 DEF Detected
    <2>6. QED
      BY <2>5
  <1>a. PICK t \in WaitsIn(u, "directories") : t \notin Z
    BY <1>3
  <1>4. t \in S /\ u \in S /\ WaitsIn(t, "directories") = {} /\ t # u
    BY <1>2, <1>a
  <1>5. PICK x \in Asked(u) : x[1] = "directories" /\ holder[x] = t
    BY <1>a DEF WaitsIn
  <1>6. PICK e \in Dirs : x = D(e) /\ holder[N(e)] = u
    BY <1>1, <1>4, <1>5, AskedIs
  <1>7. PICK d \in Dirs : D(d) = D(e) /\ holder[N(d)] = t
    BY <1>1, <1>4, <1>5, <1>6 DEF Locks, Owns, Guarded
  <1>8. d # e
    BY <1>4, <1>6, <1>7
  <1>9. holder[D(d)] = t /\ D(d) \in Asked(u)
    BY <1>5, <1>6, <1>7
  <1>10. QED
    BY <1>4, <1>6, <1>7, <1>8, <1>9

LEMMA HangsFit == IInv => HangsNeedNeighbours
  <1> SUFFICES ASSUME IInv, NEW S \in SUBSET Threads, Stuck(S, WaitsFor),
                      \A t \in S : ~Detected(t),
                      ~\E t, u \in S : creating = t /\ Due(u, "createregister")
               PROVE  \E t, u \in S : \E d, e \in Dirs :
                         /\ d # e /\ D(d) = D(e) /\ holder[D(d)] = t /\ D(d) \in Asked(u)
                         /\ holder[N(d)] = t /\ holder[N(e)] = u
                         /\ WaitsIn(t, "directories") = {}
    BY DEF HangsNeedNeighbours
  <1>1. S # {} /\ \A u \in S : WaitsFor(u) # {} /\ WaitsFor(u) \subseteq S
    BY DEF Stuck
  <1>2. \E w \in S : WaitsIn(w, "directories") # {}
    <2>1. SUFFICES ASSUME \A u \in S : WaitsIn(u, "directories") = {} PROVE FALSE
      OBVIOUS
    <2>2. \A u \in S : WaitsToCreate(u) = {}
      <3>1. SUFFICES ASSUME NEW u \in S, NEW t \in WaitsToCreate(u) PROVE FALSE
        OBVIOUS
      <3>2. Due(u, "createregister") /\ t = creating
        BY DEF WaitsToCreate
      <3>3. t \in S
        BY <1>1 DEF WaitsFor
      <3>4. QED
        BY <3>2, <3>3
    <2>3. \A u \in S : WaitsIn(u, "nodes") # {} /\ WaitsIn(u, "nodes") \subseteq S
      BY <1>1, <2>1, <2>2 DEF WaitsFor
    <2>4. Stuck(S, LAMBDA u : WaitsIn(u, "nodes"))
      BY <1>1, <2>3 DEF Stuck
    <2>5. \A t \in S : Detected(t)
      BY <2>4 DEF Detected
    <2>6. QED
      BY <1>1, <2>5
  <1>3. QED
    BY <1>2, DirectoriesWait

(* A hang that the detector of deadlocks does not see needs the lock of      *)
(* createregister, or two directories on one page of the directories: the    *)
(* lookups of a path, and all other steps, lock the node of a directory      *)
(* before the page of its entries.                                           *)
THEOREM HangsOfNeighbours == Spec => []HangsNeedNeighbours
  BY Invariance, HangsFit, PTL
=============================================================================
