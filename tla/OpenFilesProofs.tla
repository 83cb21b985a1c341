--------------------------- MODULE OpenFilesProofs ---------------------------
(***************************************************************************)
(* The table of open files is shared without a common lock, and the sizes  *)
(* and times that its objects keep are flushed in any order: proofs that   *)
(* no place is shared and no size or time is lost, for every number of     *)
(* files, nodes and places, every size and every time.                     *)
(*                                                                         *)
(* The invariant says in addition what is known of a file between the two  *)
(* looks at a place (LocksPlace), and that an object that is ahead of its  *)
(* node in a way that matters is one that has not been flushed since it    *)
(* was written to (SizeHeld, TimeHeld): otherwise release() could throw    *)
(* the only trace of a write away.                                         *)
(***************************************************************************)
EXTENDS OpenFiles, TLAPS

LocksPlace == \A f \in Files : step[f] = "locking" => fh[f] \in Slots

SizeHeld ==
    \A n \in Nodes :
        \/ uncut[n]
        \/ length[n] <= size[n]
        \/ \E f \in Opened(n) : source[f].dirty /\ length[n] <= source[f].size

TimeHeld ==
    \A n \in Nodes :
        \/ wrote[n] <= mtime[n]
        \/ \E f \in Opened(n) : source[f].dirty /\ wrote[n] <= source[f].mtime

Table == TypeOK /\ LocksPlace /\ SlotsExclusive
IInv  == Table /\ SizeHeld /\ TimeHeld

-----------------------------------------------------------------------------

(* The places are the numbers below MaxSlots, as the loop of open() counts. *)
LEMMA SlotFacts ==
    /\ \A i \in 0..MaxSlots : i # MaxSlots => i \in Slots
    /\ \A i \in Slots : i + 1 \in 0..MaxSlots /\ i \in 0..MaxSlots
    /\ 0 \in 0..MaxSlots /\ 0 \in Sizes /\ 0 \in Times
  BY BoundsAssumption DEF Slots, Sizes, Times

(* The larger of two sizes or times, as flush() and write() compare them. *)
LEMMA LargerFacts ==
    ASSUME NEW M \in Nat, NEW a \in 0..M, NEW b \in 0..M
    PROVE  Larger(a, b) \in 0..M /\ a <= Larger(a, b) /\ b <= Larger(a, b)
  BY DEF Larger

LEMMA LargerInNat ==
    ASSUME NEW a \in Nat, NEW b \in Nat
    PROVE  Larger(a, b) \in Nat /\ a <= Larger(a, b) /\ b <= Larger(a, b)
  BY DEF Larger

(* What a handler that is given a number finds at its place. *)
LEMMA ServedObject ==
    ASSUME Table, NEW f \in Files, Served(f)
    PROVE  /\ fh[f] \in Slots /\ openFiles[fh[f]] = f /\ f # NoFile
           /\ source[f] \in [node : Nodes, size : Sizes, mtime : Times, dirty : BOOLEAN]
  <1>1. step[f] = "open"
    BY DEF Served
  <1>2. source[f] # NoSource /\ source[f] \in Sources
    BY <1>1 DEF Table, TypeOK
  <1> QED
    BY <1>1, <1>2, FilesAssumption DEF Table, SlotsExclusive, Sources

-----------------------------------------------------------------------------
(* The table. *)

LEMMA OpenKeepsTable ==
    ASSUME Table, NEW f \in Files, NEW n \in Nodes, Open(f, n)
    PROVE  Table'
  <1> USE DEF Open, Table
  <1>1. [node |-> n, size |-> size[n], mtime |-> 0, dirty |-> FALSE]
           \in [node : Nodes, size : Sizes, mtime : Times, dirty : BOOLEAN]
    BY SlotFacts DEF TypeOK
  <1>2. [node |-> n, size |-> size[n], mtime |-> 0, dirty |-> FALSE] # NoSource
    BY FilesAssumption DEF NoSource
  <1>3. TypeOK'
    BY <1>1, <1>2, SlotFacts DEF TypeOK, Sources, Steps, aux
  <1>4. LocksPlace'
    BY DEF LocksPlace, TypeOK
  <1>5. SlotsExclusive'
    BY DEF SlotsExclusive, TypeOK
  <1> QED
    BY <1>3, <1>4, <1>5

LEMMA LookKeepsTable ==
    ASSUME Table, NEW f \in Files, Look(f)
    PROVE  Table'
  <1> USE DEF Look, Table
  <1>1. TypeOK'
    BY SlotFacts DEF TypeOK, Sources, Steps, aux
  <1>2. LocksPlace'
    BY SlotFacts DEF LocksPlace, TypeOK
  <1>3. SlotsExclusive'
    BY DEF SlotsExclusive, TypeOK
  <1> QED
    BY <1>1, <1>2, <1>3

LEMMA TakeKeepsTable ==
    ASSUME Table, NEW f \in Files, Take(f)
    PROVE  Table'
  <1> USE DEF Take, Table
  <1>1. fh[f] \in Slots
    BY DEF LocksPlace
  <1>2. TypeOK'
    BY <1>1, SlotFacts DEF TypeOK, Steps, aux
  <1>3. LocksPlace'
    BY DEF LocksPlace, TypeOK
  <1>4. SlotsExclusive'
    BY <1>1, FilesAssumption DEF SlotsExclusive, TypeOK
  <1> QED
    BY <1>2, <1>3, <1>4

LEMMA WriteKeepsTable ==
    ASSUME Table, NEW f \in Files, NEW end \in Sizes, NEW got \in 0..end, Write(f, end, got)
    PROVE  Table'
  <1> USE DEF Write, Table
  <1>1. /\ fh[f] \in Slots /\ openFiles[fh[f]] = f
        /\ source[f] \in [node : Nodes, size : Sizes, mtime : Times, dirty : BOOLEAN]
    BY ServedObject
  <1> DEFINE n == source[f].node
             s == [node  |-> n,   size  |-> Larger(source[f].size, end),
                   mtime |-> now, dirty |-> TRUE]
  <1>2. /\ source' = [source EXCEPT ![f] = s]
        /\ length' = [length EXCEPT ![n] = Larger(@, got)]
        /\ wrote' = [wrote EXCEPT ![n] = now]
    BY <1>1
  <1>3. Larger(source[f].size, end) \in Sizes
    BY <1>1, LargerFacts, BoundsAssumption DEF Sizes
  <1>4. s \in [node : Nodes, size : Sizes, mtime : Times, dirty : BOOLEAN]
    BY <1>1, <1>3 DEF TypeOK
  <1>5. s # NoSource
    BY <1>1, FilesAssumption DEF NoSource
  <1>6. got \in Sizes
    BY BoundsAssumption DEF Sizes
  <1>7. Larger(length[n], got) \in Sizes
    BY <1>1, <1>6, LargerFacts, BoundsAssumption DEF Sizes, TypeOK
  <1> HIDE DEF s
  <1>8. step[f] = "open"
    BY DEF Served
  <1>9. TypeOK'
    <2>1. source' \in [Files -> Sources]
      <3>1. source \in [Files -> Sources] /\ s \in Sources
        BY <1>4 DEF TypeOK, Sources
      <3> HIDE DEF Write, Table
      <3> QED
        BY <1>2, <3>1
    <2>2. length' \in [Nodes -> Sizes] /\ wrote' \in [Nodes -> Times]
      BY <1>1, <1>2, <1>7 DEF TypeOK
    <2>3. \A g \in Files : source'[g] = NoSource <=> step'[g] \in {"closed", "deleted"}
      BY <1>2, <1>5, <1>8 DEF TypeOK
    <2> QED
      BY <2>1, <2>2, <2>3 DEF TypeOK
  <1>10. LocksPlace' /\ SlotsExclusive'
    BY DEF LocksPlace, SlotsExclusive
  <1> QED
    BY <1>9, <1>10

LEMMA FlushKeepsTable ==
    ASSUME Table, NEW f \in Files, Flush(f)
    PROVE  Table'
  <1> USE DEF Flush, Table
  <1>1. /\ openFiles[fh[f]] = f
        /\ source[f] \in [node : Nodes, size : Sizes, mtime : Times, dirty : BOOLEAN]
    BY ServedObject
  <1> DEFINE n == source[f].node
  <1>2. /\ size' = [size EXCEPT ![n] = Larger(@, source[f].size)]
        /\ mtime' = [mtime EXCEPT ![n] = Larger(@, source[f].mtime)]
        /\ source' = [source EXCEPT ![f].dirty = FALSE]
    BY <1>1
  <1>3. /\ Larger(size[n], source[f].size) \in Sizes
        /\ Larger(mtime[n], source[f].mtime) \in Times
    BY <1>1, LargerFacts, BoundsAssumption DEF Sizes, Times, TypeOK
  <1>4. /\ source'[f] \in [node : Nodes, size : Sizes, mtime : Times, dirty : BOOLEAN]
        /\ source' = [source EXCEPT ![f] = source'[f]]
    <2>1. source \in [Files -> Sources]
      BY DEF TypeOK
    <2> HIDE DEF Flush, Table
    <2>2. source' = [source EXCEPT ![f] = [source[f] EXCEPT !.dirty = FALSE]]
      BY <1>2
    <2>3. source'[f] = [source[f] EXCEPT !.dirty = FALSE]
      BY <2>1, <2>2
    <2>4. [source[f] EXCEPT !.dirty = FALSE]
             \in [node : Nodes, size : Sizes, mtime : Times, dirty : BOOLEAN]
      BY <1>1
    <2> QED
      BY <2>2, <2>3, <2>4
  <1>5. source'[f] # NoSource
    BY <1>4, FilesAssumption DEF NoSource
  <1>6. step[f] = "open"
    BY DEF Served
  <1>7. TypeOK'
    <2>1. source' \in [Files -> Sources]
      BY <1>4 DEF TypeOK, Sources
    <2>2. size' \in [Nodes -> Sizes] /\ mtime' \in [Nodes -> Times]
      BY <1>1, <1>2, <1>3 DEF TypeOK
    <2>3. \A g \in Files : source'[g] = NoSource <=> step'[g] \in {"closed", "deleted"}
      BY <1>4, <1>5, <1>6 DEF TypeOK
    <2> QED
      BY <2>1, <2>2, <2>3 DEF TypeOK, aux
  <1>8. LocksPlace' /\ SlotsExclusive'
    BY DEF LocksPlace, SlotsExclusive
  <1> QED
    BY <1>7, <1>8

LEMMA ReleaseKeepsTable ==
    ASSUME Table, NEW f \in Files, Release(f)
    PROVE  Table'
  <1> USE DEF Release, Table
  <1>1. openFiles[fh[f]] = f /\ fh[f] \in Slots
    BY ServedObject
  <1>2. step[f] = "open" /\ NoSource \in Sources
    BY DEF Served, Sources
  <1>3. TypeOK'
    BY <1>1, <1>2 DEF TypeOK, Steps, aux
  <1>4. LocksPlace'
    BY DEF LocksPlace, TypeOK
  <1>5. SlotsExclusive'
    BY <1>1, <1>2 DEF SlotsExclusive, TypeOK
  <1> QED
    BY <1>3, <1>4, <1>5

LEMMA ClearKeepsTable ==
    ASSUME Table, NEW f \in Files, Clear(f)
    PROVE  Table'
  <1> USE DEF Clear, Table
  <1>1. fh[f] \in Slots /\ openFiles[fh[f]] = f
    BY DEF SlotsExclusive
  <1>2. TypeOK'
    BY <1>1, SlotFacts DEF TypeOK, Steps, aux
  <1>3. LocksPlace'
    BY DEF LocksPlace, TypeOK
  <1>4. SlotsExclusive'
    BY <1>1, FilesAssumption DEF SlotsExclusive, TypeOK
  <1> QED
    BY <1>2, <1>3, <1>4

(* The handlers on a path, and the clock, leave the table alone. *)
LEMMA OthersKeepTable ==
    ASSUME Table,
           \/ \E n \in Changing, to \in Sizes, done \in BOOLEAN : Truncate(n, to, done)
           \/ \E n \in Changing, t \in Times : Utimens(n, t)
           \/ Tick
           \/ UNCHANGED vars
    PROVE  Table'
  <1>1. UNCHANGED <<openFiles, source, step, fh>>
    BY DEF Truncate, Utimens, Tick, vars
  <1>2. CASE \E n \in Changing, to \in Sizes, done \in BOOLEAN : Truncate(n, to, done)
    <2>1. PICK n \in Changing, to \in Sizes, done \in BOOLEAN : Truncate(n, to, done)
      BY <1>2
    <2>2. /\ size' \in [Nodes -> Sizes] /\ mtime' \in [Nodes -> Times]
          /\ length' \in [Nodes -> Sizes] /\ now' = now
          /\ wrote' \in [Nodes -> Times]
      BY <2>1, ChangingAssumption DEF Table, TypeOK, Truncate
    <2>3. uncut' \in [Nodes -> BOOLEAN] /\ above' \in [Nodes -> BOOLEAN]
      BY <2>1 DEF Table, TypeOK, Truncate
    <2>4. told' \in [Nodes -> Times \cup {Untold}]
      BY <2>1 DEF Table, TypeOK, Truncate, Told
    <2> QED
      BY <1>1, <2>2, <2>3, <2>4 DEF Table, TypeOK, LocksPlace, SlotsExclusive
  <1>3. CASE \E n \in Changing, t \in Times : Utimens(n, t)
    <2>1. PICK n \in Changing, t \in Times : Utimens(n, t)
      BY <1>3
    <2>2. /\ mtime' \in [Nodes -> Times] /\ wrote' \in [Nodes -> Times]
          /\ UNCHANGED <<size, length, now, uncut, above>>
      BY <2>1, ChangingAssumption, SlotFacts DEF Table, TypeOK, Utimens
    <2>3. told' \in [Nodes -> Times \cup {Untold}]
      BY <2>1 DEF Table, TypeOK, Utimens, Told
    <2> QED
      BY <1>1, <2>2, <2>3 DEF Table, TypeOK, LocksPlace, SlotsExclusive
  <1>4. CASE Tick
    BY <1>1, <1>4, BoundsAssumption
       DEF Table, TypeOK, LocksPlace, SlotsExclusive, Tick, Times, aux
  <1>5. CASE UNCHANGED vars
    BY <1>1, <1>5 DEF Table, TypeOK, LocksPlace, SlotsExclusive, vars, aux
  <1> QED
    BY <1>2, <1>3, <1>4, <1>5

-----------------------------------------------------------------------------
(* Sizes and times. *)

(* An object that nobody writes to, flushes or releases goes on to hold what *)
(* it held.                                                                  *)
LEMMA HeldByOthers ==
    ASSUME NEW f \in Files,
           UNCHANGED <<size, mtime, length, wrote, uncut>>,
           step[f] # "open",
           \A g \in Files \ {f} : step'[g] = step[g] /\ source'[g] = source[g],
           SizeHeld, TimeHeld
    PROVE  SizeHeld' /\ TimeHeld'
  BY DEF SizeHeld, TimeHeld, Opened

LEMMA WriteHolds ==
    ASSUME IInv, NEW f \in Files, NEW end \in Sizes, NEW got \in 0..end, Write(f, end, got)
    PROVE  SizeHeld' /\ TimeHeld'
  <1> USE DEF Write, IInv, Table
  <1>0. SizeHeld /\ TimeHeld /\ TypeOK
    OBVIOUS
  <1>1. PICK n \in Nodes :
           /\ openFiles[fh[f]] = f /\ source[f].node = n
           /\ source[f] \in [node : Nodes, size : Sizes, mtime : Times, dirty : BOOLEAN]
    BY ServedObject
  <1>2. /\ length' = [length EXCEPT ![n] = Larger(@, got)]
        /\ wrote' = [wrote EXCEPT ![n] = now]
        /\ UNCHANGED <<size, mtime, step, uncut>>
    BY <1>1 DEF aux
  <1>3. /\ source'[f] = [node  |-> n,   size  |-> Larger(source[f].size, end),
                         mtime |-> now, dirty |-> TRUE]
        /\ \A g \in Files \ {f} : source'[g] = source[g]
    BY <1>1 DEF TypeOK
  <1>4. f \in Opened(n)' /\ n \in Nodes
    BY <1>1, <1>2, <1>3 DEF Opened, Served
  <1>5. /\ source[f].size \in Nat /\ end \in Nat /\ got \in Nat /\ got <= end
        /\ \A m \in Nodes : size[m] \in Nat /\ length[m] \in Nat
        /\ now \in Nat
    BY <1>1, BoundsAssumption DEF TypeOK, Sizes, Times
  <1>6. \A m \in Nodes \ {n} : Opened(m)' = Opened(m) /\ f \notin Opened(m)
    BY <1>1, <1>2, <1>3 DEF Opened
  <1> HIDE DEF Write, IInv, Table
  <1>7. SizeHeld'
    <2>1. SUFFICES ASSUME NEW m \in Nodes
                   PROVE  \/ uncut'[m]
                          \/ length'[m] <= size'[m]
                          \/ \E g \in Opened(m)' :
                                source'[g].dirty /\ length'[m] <= source'[g].size
      BY DEF SizeHeld
    <2>2. CASE m # n
      <3>1. length'[m] = length[m] /\ size'[m] = size[m] /\ uncut'[m] = uncut[m]
        BY <1>0, <1>2, <2>2 DEF TypeOK
      <3>2. \A g \in Opened(m) : source'[g] = source[g]
        BY <1>3, <1>6, <2>2 DEF Opened
      <3> QED
        BY <1>0, <3>1, <3>2, <1>6, <2>2 DEF SizeHeld
    <2>3. CASE m = n
      <3>1. length'[n] = Larger(length[n], got) /\ size'[n] = size[n] /\ uncut'[n] = uncut[n]
        BY <1>0, <1>1, <1>2 DEF TypeOK
      <3>2. CASE length'[n] = got
        <4>1. got <= source'[f].size /\ source'[f].dirty
          BY <1>3, <1>5 DEF Larger
        <4> QED
          BY <4>1, <3>2, <1>4, <2>3
      <3>3. CASE length'[n] = length[n]
        <4>1. CASE uncut[n] \/ length[n] <= size[n]
          BY <4>1, <3>1, <3>3, <2>3
        <4>2. CASE \E g \in Opened(n) : source[g].dirty /\ length[n] <= source[g].size
          <5>1. PICK g \in Opened(n) : source[g].dirty /\ length[n] <= source[g].size
            BY <4>2
          <5>2. CASE g = f
            <6>1. length[n] <= source'[f].size /\ source'[f].dirty
              BY <1>3, <1>4, <1>5, <5>1, <5>2 DEF Larger
            <6> QED
              BY <6>1, <1>4, <3>3, <2>3
          <5>3. CASE g # f
            <6>1. g \in Opened(n)' /\ source'[g] = source[g]
              <7>1. g \in Files /\ step[g] = "open" /\ source[g].node = n
                BY <5>1 DEF Opened
              <7>2. source'[g] = source[g] /\ step'[g] = step[g] /\ source'[f].node = n
                BY <7>1, <1>2, <1>3, <5>3
              <7> QED
                BY <7>1, <7>2 DEF Opened
            <6> QED
              BY <6>1, <5>1, <3>3, <2>3
          <5> QED
            BY <5>2, <5>3
        <4> QED
          BY <4>1, <4>2, <1>0, <1>4 DEF SizeHeld
      <3> QED
        BY <3>1, <3>2, <3>3 DEF Larger
    <2> QED
      BY <2>2, <2>3
  <1>8. TimeHeld'
    <2>1. SUFFICES ASSUME NEW m \in Nodes
                   PROVE  \/ wrote'[m] <= mtime'[m]
                          \/ \E g \in Opened(m)' :
                                source'[g].dirty /\ wrote'[m] <= source'[g].mtime
      BY DEF TimeHeld
    <2>2. CASE m # n
      <3>1. wrote'[m] = wrote[m] /\ mtime'[m] = mtime[m]
        BY <1>0, <1>2, <2>2 DEF TypeOK
      <3>2. \A g \in Opened(m) : source'[g] = source[g]
        BY <1>3, <1>6, <2>2 DEF Opened
      <3> QED
        BY <1>0, <3>1, <3>2, <1>6, <2>2 DEF TimeHeld
    <2>3. CASE m = n
      <3>1. wrote'[n] = now
        BY <1>0, <1>1, <1>2 DEF TypeOK
      <3>2. source'[f].dirty /\ source'[f].mtime = now /\ now <= now
        BY <1>3, <1>5
      <3> QED
        BY <3>1, <3>2, <1>4, <2>3
    <2> QED
      BY <2>2, <2>3
  <1> QED
    BY <1>7, <1>8

LEMMA FlushHolds ==
    ASSUME IInv, NEW f \in Files, Flush(f)
    PROVE  SizeHeld' /\ TimeHeld'
  <1> USE DEF Flush, IInv, Table
  <1>0. SizeHeld /\ TimeHeld
    OBVIOUS
  <1>1. PICK n \in Nodes :
           /\ openFiles[fh[f]] = f /\ source[f].node = n
           /\ source[f] \in [node : Nodes, size : Sizes, mtime : Times, dirty : BOOLEAN]
    BY ServedObject
  <1>2. /\ size' = [size EXCEPT ![n] = Larger(@, source[f].size)]
        /\ mtime' = [mtime EXCEPT ![n] = Larger(@, source[f].mtime)]
        /\ UNCHANGED <<length, wrote, step, uncut>>
    BY <1>1 DEF aux
  <1>3. \A g \in Files \ {f} : source'[g] = source[g]
    BY <1>1 DEF TypeOK
  <1>4. /\ source[f].size \in Nat /\ source[f].mtime \in Nat /\ n \in Nodes
        /\ \A m \in Nodes : /\ size[m] \in Nat /\ length[m] \in Nat
                            /\ mtime[m] \in Nat /\ wrote[m] \in Nat
    BY <1>1, BoundsAssumption DEF TypeOK, Sizes, Times
  <1>5. /\ size'[n] = Larger(size[n], source[f].size)
        /\ mtime'[n] = Larger(mtime[n], source[f].mtime)
        /\ \A m \in Nodes \ {n} : size'[m] = size[m] /\ mtime'[m] = mtime[m]
    BY <1>2, <1>4 DEF TypeOK
  <1> HIDE DEF Flush, IInv, Table
  <1>6. /\ size[n] <= size'[n] /\ source[f].size <= size'[n]
        /\ mtime[n] <= mtime'[n] /\ source[f].mtime <= mtime'[n]
        /\ size'[n] \in Nat /\ mtime'[n] \in Nat
    <2>1. /\ size[n] \in Nat /\ mtime[n] \in Nat
          /\ source[f].size \in Nat /\ source[f].mtime \in Nat
      BY <1>4
    <2> QED
      BY <2>1, <1>5, LargerInNat
  <1>7. \A m \in Nodes : \A g \in Opened(m) \ {f} : g \in Opened(m)' /\ source'[g] = source[g]
    BY <1>2, <1>3 DEF Opened
  <1>8. SizeHeld'
    <2>1. SUFFICES ASSUME NEW m \in Nodes, ~uncut[m], ~(length[m] <= size'[m])
                   PROVE  \E g \in Opened(m)' :
                             source'[g].dirty /\ length[m] <= source'[g].size
      BY <1>2 DEF SizeHeld
    <2>2. ~(length[m] <= size[m])
      <3>1. CASE m = n
        BY <2>1, <3>1, <1>4, <1>6
      <3>2. CASE m # n
        BY <2>1, <3>2, <1>5
      <3> QED
        BY <3>1, <3>2
    <2>3. PICK g \in Opened(m) : source[g].dirty /\ length[m] <= source[g].size
      BY <1>0, <2>1, <2>2 DEF SizeHeld
    <2>4. g # f
      <3>1. SUFFICES ASSUME g = f PROVE FALSE
        OBVIOUS
      <3>2. m = n
        BY <3>1, <2>3, <1>1 DEF Opened
      <3> QED
        BY <3>1, <3>2, <2>1, <2>3, <1>4, <1>6
    <2> QED
      BY <2>3, <2>4, <1>7
  <1>9. TimeHeld'
    <2>1. SUFFICES ASSUME NEW m \in Nodes, ~(wrote[m] <= mtime'[m])
                   PROVE  \E g \in Opened(m)' :
                             source'[g].dirty /\ wrote[m] <= source'[g].mtime
      BY <1>2 DEF TimeHeld
    <2>2. ~(wrote[m] <= mtime[m])
      <3>1. CASE m = n
        BY <2>1, <3>1, <1>4, <1>6
      <3>2. CASE m # n
        BY <2>1, <3>2, <1>5
      <3> QED
        BY <3>1, <3>2
    <2>3. PICK g \in Opened(m) : source[g].dirty /\ wrote[m] <= source[g].mtime
      BY <1>0, <2>1, <2>2 DEF TimeHeld
    <2>4. g # f
      <3>1. SUFFICES ASSUME g = f PROVE FALSE
        OBVIOUS
      <3>2. m = n
        BY <3>1, <2>3, <1>1 DEF Opened
      <3> QED
        BY <3>1, <3>2, <2>1, <2>3, <1>4, <1>6
    <2> QED
      BY <2>3, <2>4, <1>7
  <1> QED
    BY <1>8, <1>9

(* The object that goes has been flushed since it was written to. *)
LEMMA ReleaseHolds ==
    ASSUME IInv, NEW f \in Files, Release(f)
    PROVE  SizeHeld' /\ TimeHeld'
  <1> USE DEF Release, IInv, Table
  <1>1. openFiles[fh[f]] = f /\ step[f] = "open"
    BY ServedObject DEF Served
  <1>2. /\ ~source[f].dirty
        /\ UNCHANGED <<size, mtime, length, wrote, uncut>>
    BY <1>1 DEF aux
  <1>3. \A g \in Files \ {f} : source'[g] = source[g] /\ step'[g] = step[g]
    BY <1>1 DEF TypeOK
  <1>4. \A n \in Nodes : \A g \in Opened(n) \ {f} :
           g \in Opened(n)' /\ source'[g] = source[g]
    BY <1>3 DEF Opened
  <1> QED
    BY <1>2, <1>4 DEF SizeHeld, TimeHeld

LEMMA TruncateHolds ==
    ASSUME IInv, NEW n \in Nodes, NEW to \in Sizes, NEW done \in BOOLEAN, Truncate(n, to, done)
    PROVE  SizeHeld' /\ TimeHeld'
  <1> USE DEF Truncate, IInv, Table, TypeOK
  <1>1. /\ \A m \in Nodes \ {n} : /\ size'[m] = size[m] /\ mtime'[m] = mtime[m]
                                  /\ length'[m] = length[m] /\ wrote'[m] = wrote[m]
                                  /\ uncut'[m] = uncut[m]
        /\ \A m \in Nodes : Opened(m)' = Opened(m)
        /\ source' = source
    BY DEF Opened
  <1>2. uncut'[n] \/ length'[n] <= size'[n]
    <2>1. to <= to
      BY BoundsAssumption DEF Sizes
    <2> QED
      BY <2>1
  <1>3. wrote'[n] <= mtime'[n]
    <2>1. now <= now
      BY BoundsAssumption DEF Times
    <2> QED
      BY <2>1
  <1> QED
    BY <1>1, <1>2, <1>3 DEF SizeHeld, TimeHeld

LEMMA UtimensHolds ==
    ASSUME IInv, NEW n \in Nodes, NEW t \in Times, Utimens(n, t)
    PROVE  SizeHeld' /\ TimeHeld'
  <1> USE DEF Utimens, IInv, Table, TypeOK
  <1>1. /\ \A m \in Nodes \ {n} : mtime'[m] = mtime[m] /\ wrote'[m] = wrote[m]
        /\ \A m \in Nodes : Opened(m)' = Opened(m)
        /\ UNCHANGED <<source, size, length, uncut>>
    BY DEF Opened
  <1>2. wrote'[n] <= mtime'[n]
    BY BoundsAssumption DEF Times
  <1> QED
    BY <1>1, <1>2 DEF SizeHeld, TimeHeld

-----------------------------------------------------------------------------

LEMMA NextKeeps ==
    ASSUME IInv, [Next]_vars
    PROVE  IInv'
  <1>1. CASE \E f \in Files, n \in Nodes : Open(f, n)
    <2>1. PICK f \in Files, n \in Nodes : Open(f, n)
      BY <1>1
    <2>2. /\ UNCHANGED <<size, mtime, length, wrote, uncut>> /\ step[f] # "open"
          /\ \A g \in Files \ {f} : step'[g] = step[g] /\ source'[g] = source[g]
      BY <2>1 DEF Open, aux, IInv, Table, TypeOK
    <2> QED
      BY <2>1, <2>2, OpenKeepsTable, HeldByOthers DEF IInv
  <1>2. CASE \E f \in Files : Look(f)
    <2>1. PICK f \in Files : Look(f)
      BY <1>2
    <2>2. /\ UNCHANGED <<size, mtime, length, wrote, uncut>> /\ step[f] # "open"
          /\ \A g \in Files \ {f} : step'[g] = step[g] /\ source'[g] = source[g]
      BY <2>1 DEF Look, aux, IInv, Table, TypeOK
    <2> QED
      BY <2>1, <2>2, LookKeepsTable, HeldByOthers DEF IInv
  <1>3. CASE \E f \in Files : Take(f)
    <2>1. PICK f \in Files : Take(f)
      BY <1>3
    <2>2. /\ UNCHANGED <<size, mtime, length, wrote, uncut>> /\ step[f] # "open"
          /\ \A g \in Files \ {f} : step'[g] = step[g] /\ source'[g] = source[g]
      BY <2>1 DEF Take, aux, IInv, Table, TypeOK
    <2> QED
      BY <2>1, <2>2, TakeKeepsTable, HeldByOthers DEF IInv
  <1>4. CASE \E f \in Files, end \in Sizes : \E got \in 0..end : Write(f, end, got)
    BY <1>4, WriteKeepsTable, WriteHolds DEF IInv
  <1>5. CASE \E f \in Files : Flush(f)
    BY <1>5, FlushKeepsTable, FlushHolds DEF IInv
  <1>6. CASE \E f \in Files : Release(f)
    BY <1>6, ReleaseKeepsTable, ReleaseHolds DEF IInv
  <1>7. CASE \E f \in Files : Clear(f)
    <2>1. PICK f \in Files : Clear(f)
      BY <1>7
    <2>2. /\ UNCHANGED <<size, mtime, length, wrote, uncut>> /\ step[f] # "open"
          /\ \A g \in Files \ {f} : step'[g] = step[g] /\ source'[g] = source[g]
      BY <2>1 DEF Clear, aux, IInv, Table, TypeOK
    <2> QED
      BY <2>1, <2>2, ClearKeepsTable, HeldByOthers DEF IInv
  <1>8. CASE \E n \in Changing, to \in Sizes, done \in BOOLEAN : Truncate(n, to, done)
    BY <1>8, OthersKeepTable, TruncateHolds, ChangingAssumption DEF IInv
  <1>9. CASE \E n \in Changing, t \in Times : Utimens(n, t)
    BY <1>9, OthersKeepTable, UtimensHolds, ChangingAssumption DEF IInv
  <1>10. CASE Tick \/ UNCHANGED vars
    <2>1. UNCHANGED <<size, mtime, length, wrote, uncut, step, source>>
      BY <1>10 DEF Tick, vars, aux
    <2> QED
      BY <1>10, <2>1, OthersKeepTable DEF IInv, SizeHeld, TimeHeld, Opened
  <1> QED
    BY <1>1, <1>2, <1>3, <1>4, <1>5, <1>6, <1>7, <1>8, <1>9, <1>10 DEF Next

(* Places, sizes and times of open files, for any number of each. *)
THEOREM Invariance == Spec => []IInv
  <1>1. Init => IInv
    <2>1. SUFFICES ASSUME Init PROVE IInv
      OBVIOUS
    <2>2. TypeOK
      BY <2>1, SlotFacts DEF Init, TypeOK, Steps, Sources
    <2>3. LocksPlace /\ SlotsExclusive
      BY <2>1 DEF Init, LocksPlace, SlotsExclusive
    <2>4. SizeHeld /\ TimeHeld
      BY <2>1 DEF Init, SizeHeld, TimeHeld
    <2> QED
      BY <2>2, <2>3, <2>4 DEF IInv, Table
  <1>2. IInv /\ [Next]_vars => IInv'
    BY NextKeeps
  <1> QED
    BY <1>1, <1>2, PTL DEF Spec

-----------------------------------------------------------------------------
(* What no object knows better: sizes within the file, and times that were   *)
(* set.                                                                      *)

TimesSet ==
    \A n \in Nodes :
        told[n] # Untold =>
            /\ mtime[n] = told[n]
            /\ \A f \in Files : source[f].node = n => source[f].mtime <= told[n]

Kept == SizeWithinFile /\ TimesSet

(* While no open() of it is underway all objects of a node are in the table. *)
LEMMA AllOpened ==
    ASSUME Table, NEW n \in Nodes, ~Locked(n), NEW f \in Files, source[f].node = n
    PROVE  f \in Opened(n)
  <1>1. source[f] # NoSource
    BY FilesAssumption DEF NoSource
  <1>2. step[f] \in {"looking", "locking", "open"}
    BY <1>1 DEF Table, TypeOK, Steps
  <1> QED
    BY <1>2 DEF Locked, Opened

(* An object that goes, or that a node's own values are copied to, disturbs  *)
(* nothing.                                                                  *)
LEMMA ObjectsKeep ==
    ASSUME Kept, UNCHANGED <<size, mtime, length, above, told>>,
           \A f \in Files :
               \/ source'[f] = source[f]
               \/ source'[f].node \notin Nodes
               \/ /\ source'[f].size = size[source'[f].node]
                  /\ \A n \in Nodes : told[n] # Untold => source'[f].mtime <= told[n]
    PROVE  Kept'
  <1>1. SizeWithinFile'
    BY DEF Kept, SizeWithinFile
  <1>2. TimesSet'
    BY DEF Kept, TimesSet
  <1> QED
    BY <1>1, <1>2 DEF Kept

LEMMA OpenKept ==
    ASSUME Table, Kept, NEW f \in Files, NEW n \in Nodes, Open(f, n)
    PROVE  Kept'
  <1>1. source' = [source EXCEPT ![f] =
                     [node |-> n, size |-> size[n], mtime |-> 0, dirty |-> FALSE]]
    BY DEF Open
  <1>2. source'[f].size = size[n] /\ source'[f].node = n /\ source'[f].mtime = 0
    BY <1>1 DEF Table, TypeOK
  <1>3. \A m \in Nodes : told[m] # Untold => 0 <= told[m]
    BY BoundsAssumption DEF Table, TypeOK, Times
  <1>4. \A g \in Files \ {f} : source'[g] = source[g]
    BY <1>1 DEF Table, TypeOK
  <1>5. UNCHANGED <<size, mtime, length, above, told>>
    BY DEF Open, aux
  <1> QED
    BY <1>2, <1>3, <1>4, <1>5, ObjectsKeep

LEMMA WriteKept ==
    ASSUME Table, Kept, NEW f \in Files, NEW end \in Sizes, NEW got \in 0..end,
           Write(f, end, got)
    PROVE  Kept'
  <1>1. /\ openFiles[fh[f]] = f
        /\ source[f] \in [node : Nodes, size : Sizes, mtime : Times, dirty : BOOLEAN]
    BY ServedObject DEF Write
  <1> DEFINE n == source[f].node
  <1>2. /\ length' = [length EXCEPT ![n] = Larger(@, got)]
        /\ above' = [above EXCEPT ![n] = @ \/ got # end]
        /\ told' = [told EXCEPT ![n] = Untold]
        /\ UNCHANGED <<size, mtime>>
    BY <1>1 DEF Write
  <1>3. /\ source'[f].node = n /\ source'[f].size = Larger(source[f].size, end)
        /\ \A g \in Files \ {f} : source'[g] = source[g]
    BY <1>1 DEF Write, Table, TypeOK
  <1>4. /\ n \in Nodes /\ length'[n] = Larger(length[n], got)
        /\ above'[n] = (above[n] \/ got # end) /\ told'[n] = Untold
        /\ \A m \in Nodes \ {n} :
              length'[m] = length[m] /\ above'[m] = above[m] /\ told'[m] = told[m]
    BY <1>1, <1>2 DEF Table, TypeOK
  <1>5. TimesSet'
    BY <1>2, <1>3, <1>4 DEF Kept, TimesSet
  <1>6. SizeWithinFile'
    <2>1. SUFFICES ASSUME NEW m \in Nodes, ~above'[m]
                   PROVE  /\ size[m] <= length'[m]
                          /\ \A g \in Files :
                                source'[g].node = m => source'[g].size <= length'[m]
      BY <1>2 DEF SizeWithinFile
    <2>2. CASE m # n
      BY <2>1, <2>2, <1>3, <1>4 DEF Kept, SizeWithinFile
    <2>3. CASE m = n
      <3>1. /\ ~above[n] /\ length'[n] = Larger(length[n], end)
        BY <2>1, <2>3, <1>4
      <3>2. /\ size[n] <= length[n]
            /\ \A g \in Files : source[g].node = n => source[g].size <= length[n]
        BY <3>1, <1>4 DEF Kept, SizeWithinFile
      <3>3. /\ size[n] \in Nat /\ length[n] \in Nat /\ end \in Nat
            /\ source[f].size \in Nat
        BY <1>1, BoundsAssumption DEF Table, TypeOK, Sizes
      <3>4. \A g \in Files : source[g].node = n => source[g].size \in Nat
        BY <1>4, FilesAssumption, BoundsAssumption DEF Table, TypeOK, Sources, NoSource, Sizes
      <3>5. size[n] <= length'[n] /\ source'[f].size <= length'[n]
        BY <3>1, <3>2, <3>3, <1>3 DEF Larger
      <3>6. length[n] <= length'[n] /\ length'[n] \in Nat
        BY <3>1, <3>3 DEF Larger
      <3>7. ASSUME NEW g \in Files, g # f, source'[g].node = n
            PROVE  source'[g].size <= length'[n]
        <4>1. source[g].node = n /\ source'[g].size = source[g].size
          BY <3>7, <1>3
        <4>2. source[g].size <= length[n] /\ source[g].size \in Nat
          BY <4>1, <3>2, <3>4
        <4> QED
          BY <4>1, <4>2, <3>3, <3>6
      <3> QED
        BY <2>3, <3>5, <3>7
    <2> QED
      BY <2>2, <2>3
  <1> QED
    BY <1>5, <1>6 DEF Kept

LEMMA FlushKept ==
    ASSUME Table, Kept, NEW f \in Files, Flush(f)
    PROVE  Kept'
  <1>1. /\ openFiles[fh[f]] = f
        /\ source[f] \in [node : Nodes, size : Sizes, mtime : Times, dirty : BOOLEAN]
    BY ServedObject DEF Flush
  <1> DEFINE n == source[f].node
  <1>2. /\ size' = [size EXCEPT ![n] = Larger(@, source[f].size)]
        /\ mtime' = [mtime EXCEPT ![n] = Larger(@, source[f].mtime)]
        /\ UNCHANGED <<length, above, told>>
    BY <1>1 DEF Flush, aux
  <1>3. \A g \in Files : /\ source'[g].node = source[g].node
                         /\ source'[g].size = source[g].size
                         /\ source'[g].mtime = source[g].mtime
    <2>1. source' = [source EXCEPT ![f].dirty = FALSE] /\ source \in [Files -> Sources]
      BY <1>1 DEF Flush, Table, TypeOK
    <2>2. source'[f] = [source[f] EXCEPT !.dirty = FALSE]
      BY <2>1
    <2>3. /\ source'[f].node = source[f].node /\ source'[f].size = source[f].size
          /\ source'[f].mtime = source[f].mtime
      BY <2>2, <1>1
    <2> QED
      BY <2>1, <2>3
  <1>4. /\ n \in Nodes /\ size'[n] = Larger(size[n], source[f].size)
        /\ mtime'[n] = Larger(mtime[n], source[f].mtime)
        /\ \A m \in Nodes \ {n} : size'[m] = size[m] /\ mtime'[m] = mtime[m]
    BY <1>1, <1>2 DEF Table, TypeOK
  <1>5. SizeWithinFile'
    <2>1. ~above[n] => size[n] <= length[n] /\ source[f].size <= length[n]
      BY <1>4 DEF Kept, SizeWithinFile
    <2>2. ~above[n] => size'[n] <= length[n]
      BY <2>1, <1>4 DEF Larger
    <2> QED
      BY <2>2, <1>2, <1>3, <1>4 DEF Kept, SizeWithinFile
  <1>6. TimesSet'
    <2>1. told[n] # Untold => mtime[n] = told[n] /\ source[f].mtime <= told[n]
      BY <1>4 DEF Kept, TimesSet
    <2>2. /\ source[f].mtime \in Nat /\ mtime[n] \in Nat
      BY <1>1, BoundsAssumption DEF Table, TypeOK, Times
    <2>3. told[n] # Untold => mtime'[n] = told[n]
      BY <2>1, <2>2, <1>4 DEF Larger
    <2> QED
      BY <2>3, <1>2, <1>3, <1>4 DEF Kept, TimesSet
  <1> QED
    BY <1>5, <1>6 DEF Kept

(* The time that utimens or truncate sets is the node's, and none that is    *)
(* remembered is later.                                                      *)
LEMMA ToldHolds ==
    ASSUME Table, Kept, NEW n \in Nodes, NEW t \in Times, ~Locked(n),
           mtime' = [mtime EXCEPT ![n] = t], told' = Told(n, t), source' = source
    PROVE  TimesSet'
  <1>1. /\ mtime'[n] = t
        /\ told'[n] = IF \E f \in Opened(n) : source[f].mtime > t THEN Untold ELSE t
        /\ \A m \in Nodes \ {n} : mtime'[m] = mtime[m] /\ told'[m] = told[m]
    BY DEF Told, Table, TypeOK
  <1>2. \A f \in Opened(n) : source[f].mtime \in Nat
    BY FilesAssumption, BoundsAssumption DEF Opened, Table, TypeOK, Sources, NoSource, Times
  <1>3. t \in Nat
    BY BoundsAssumption DEF Times
  <1>4. ASSUME told'[n] # Untold
        PROVE  told'[n] = t /\ \A f \in Opened(n) : source[f].mtime <= t
    BY <1>1, <1>2, <1>3, <1>4
  <1>5. \A f \in Files : source[f].node = n => f \in Opened(n)
    BY AllOpened
  <1> QED
    BY <1>1, <1>4, <1>5 DEF Kept, TimesSet

LEMMA TruncateKept ==
    ASSUME Table, Kept, NEW n \in Nodes, NEW to \in Sizes, NEW done \in BOOLEAN,
           Truncate(n, to, done)
    PROVE  Kept'
  <1>1. /\ size' = [size EXCEPT ![n] = to] /\ mtime' = [mtime EXCEPT ![n] = now]
        /\ length' = IF done THEN [length EXCEPT ![n] = to] ELSE length
        /\ above' = [above EXCEPT ![n] = ~done \/ \E f \in Opened(n) : source[f].size > to]
        /\ told' = Told(n, now) /\ source' = source /\ ~Locked(n)
    BY DEF Truncate
  <1>2. /\ size'[n] = to /\ mtime'[n] = now
        /\ \A m \in Nodes \ {n} : /\ size'[m] = size[m] /\ mtime'[m] = mtime[m]
                                  /\ length'[m] = length[m] /\ above'[m] = above[m]
    BY <1>1 DEF Table, TypeOK
  <1>3. SizeWithinFile'
    <2>1. SUFFICES ASSUME ~above'[n]
                   PROVE  /\ size'[n] <= length'[n]
                          /\ \A f \in Files :
                                source[f].node = n => source[f].size <= length'[n]
      BY <1>1, <1>2 DEF Kept, SizeWithinFile
    <2>2. done /\ \A f \in Opened(n) : ~(source[f].size > to)
      BY <2>1, <1>1 DEF Table, TypeOK
    <2>3. length'[n] = to /\ to \in Nat
      BY <2>2, <1>1, BoundsAssumption DEF Table, TypeOK, Sizes
    <2>4. \A f \in Opened(n) : source[f].size \in Nat
      BY FilesAssumption, BoundsAssumption
         DEF Opened, Table, TypeOK, Sources, NoSource, Sizes
    <2>5. ASSUME NEW f \in Files, source[f].node = n
          PROVE  source[f].size <= to
      BY <2>2, <2>3, <2>4, <2>5, <1>1, AllOpened
    <2> QED
      BY <1>2, <2>3, <2>5
  <1>4. TimesSet'
    BY <1>1, <1>2, ToldHolds DEF Table, TypeOK
  <1> QED
    BY <1>3, <1>4 DEF Kept

LEMMA UtimensKept ==
    ASSUME Table, Kept, NEW n \in Nodes, NEW t \in Times, Utimens(n, t)
    PROVE  Kept'
  <1>1. /\ UNCHANGED <<size, length, above, source>> /\ ~Locked(n)
        /\ mtime' = [mtime EXCEPT ![n] = t] /\ told' = Told(n, t)
    BY DEF Utimens
  <1>2. SizeWithinFile'
    BY <1>1 DEF Kept, SizeWithinFile
  <1>3. TimesSet'
    BY <1>1, ToldHolds
  <1> QED
    BY <1>2, <1>3 DEF Kept

LEMMA NextKept ==
    ASSUME IInv, Kept, [Next]_vars
    PROVE  Kept'
  <1> USE DEF IInv
  <1>1. CASE \E f \in Files, n \in Nodes : Open(f, n)
    BY <1>1, OpenKept
  <1>2. CASE \E f \in Files : Look(f) \/ Release(f)
    <2>1. PICK f \in Files : Look(f) \/ Release(f)
      BY <1>2
    <2>2. Release(f) => openFiles[fh[f]] = f
      BY ServedObject DEF Release
    <2>3. /\ \A g \in Files : source'[g] = source[g] \/ source'[g] = NoSource
          /\ UNCHANGED <<size, mtime, length, above, told>>
      BY <2>1, <2>2 DEF Look, Release, aux, Table, TypeOK
    <2>4. NoSource.node \notin Nodes
      BY FilesAssumption DEF NoSource
    <2> QED
      BY <2>3, <2>4, ObjectsKeep
  <1>3. CASE (\E f \in Files : Take(f) \/ Clear(f)) \/ Tick \/ UNCHANGED vars
    <2>1. UNCHANGED <<size, mtime, length, above, told, source>>
      BY <1>3 DEF Take, Clear, Tick, vars, aux
    <2> QED
      BY <2>1, ObjectsKeep
  <1>4. CASE \E f \in Files, end \in Sizes : \E got \in 0..end : Write(f, end, got)
    BY <1>4, WriteKept
  <1>5. CASE \E f \in Files : Flush(f)
    BY <1>5, FlushKept
  <1>6. CASE \E n \in Changing, to \in Sizes, done \in BOOLEAN : Truncate(n, to, done)
    BY <1>6, TruncateKept, ChangingAssumption
  <1>7. CASE \E n \in Changing, t \in Times : Utimens(n, t)
    BY <1>7, UtimensKept, ChangingAssumption
  <1> QED
    BY <1>1, <1>2, <1>3, <1>4, <1>5, <1>6, <1>7 DEF Next

(* Besides, what utimens has set, and the size of the file.                  *)
THEOREM KeptInvariance == Spec => [](IInv /\ Kept)
  <1>1. Init => Kept
    <2>1. SUFFICES ASSUME Init PROVE Kept
      OBVIOUS
    <2>2. SizeWithinFile
      <3>1. \A n \in Nodes : size[n] = 0 /\ length[n] = 0
        BY <2>1 DEF Init
      <3>2. \A n \in Nodes, f \in Files : source[f].node # n
        BY <2>1, FilesAssumption DEF Init, NoSource
      <3>3. 0 <= 0
        OBVIOUS
      <3> QED
        BY <3>1, <3>2, <3>3 DEF SizeWithinFile
    <2>3. TimesSet
      BY <2>1, FilesAssumption DEF Init, TimesSet, NoSource
    <2> QED
      BY <2>2, <2>3 DEF Kept
  <1>2. IInv /\ Kept /\ [Next]_vars => Kept'
    BY NextKept
  <1> QED
    BY <1>1, <1>2, Invariance, PTL DEF Spec

(* Every variable keeps its type, and open() leaves no object behind when it *)
(* answers ENFILE.                                                           *)
THEOREM TypeCorrect == Spec => []TypeOK
  <1>1. IInv => TypeOK
    BY DEF IInv, Table
  <1> QED
    BY <1>1, Invariance, PTL

(* open() and release() never give one place of the table to two files.      *)
THEOREM PlacesExclusive == Spec => []SlotsExclusive
  <1>1. IInv => SlotsExclusive
    BY DEF IInv, Table
  <1> QED
    BY <1>1, Invariance, PTL

(* No order of writes, flushes and closes leaves bytes beyond the size.      *)
THEOREM SizesCover == Spec => []SizeCoversFile
  <1>1. IInv => SizeCoversFile
    BY DEF IInv, SizeHeld, SizeCoversFile
  <1> QED
    BY <1>1, Invariance, PTL

(* Nor a modification time before the last write that utimens has not hidden. *)
THEOREM TimesCover == Spec => []TimeCoversWrites
  <1>1. IInv => TimeCoversWrites
    BY DEF IInv, TimeHeld, TimeCoversWrites
  <1> QED
    BY <1>1, Invariance, PTL

(* The size of a node is beyond its file only after a refused call, or when  *)
(* a truncation met an object with a larger size: whatever else open files   *)
(* write and flush, in whatever order.                                       *)
THEOREM SizesWithin == Spec => []SizeWithinFile
  <1>1. Kept => SizeWithinFile
    BY DEF Kept
  <1> QED
    BY <1>1, KeptInvariance, PTL

(* The modification time that utimens sets is lost only to a later write, or *)
(* to the flush of an object that was written to at a later time than that.  *)
THEOREM UtimensKeeps == Spec => []UtimensStays
  <1>1. Kept => UtimensStays
    BY DEF Kept, TimesSet, UtimensStays
  <1> QED
    BY <1>1, KeptInvariance, PTL

=============================================================================
