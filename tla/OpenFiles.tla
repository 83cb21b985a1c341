------------------------------ MODULE OpenFiles ------------------------------
(***************************************************************************)
(* Open files: FS::open, write, flush, release, truncate and utimens on    *)
(* the table openFiles of Source objects, one for each open file.          *)
(*                                                                         *)
(* A Source_single keeps the size and the modification time of its file to *)
(* itself from open() on: write() moves them ahead, flush() brings the     *)
(* node's attributes up to them.  read() is left out (the access time goes *)
(* the way of the modification time), and so is the content of files: of   *)
(* the file on the medium only its length is kept.                         *)
(*                                                                         *)
(* FUSE serves each request in a thread of its own.  open() holds the      *)
(* write lock of the node's register from getsource() to its return, while *)
(* it looks for a free place in the table; the mutex of the table is held  *)
(* only around the second look at a place.  A handler on the same node     *)
(* waits for that lock; the others are one step each.                      *)
(*                                                                         *)
(* EXTERNAL.  The kernel calls write, flush and release only between the   *)
(* return of open and release, serialises the writes and truncations of a  *)
(* file, and flushes after the last write before it releases.              *)
(***************************************************************************)
EXTENDS Integers

CONSTANTS
    Nodes,      \* the nodes of regular files
    Files,      \* open files of the kernel, each open once at a time
    NoFile,     \* the null pointer of the table
    NoNode,     \* the node of a file that is not open
    MaxSlots,   \* MAX_OPEN_FILES
    MaxSize,    \* BOUND: size of a file
    MaxTime,    \* BOUND: seconds on the clock
    Changing,   \* BOUND: the nodes that are written, truncated and given times
    Opening,    \* BOUND: the nodes that a file is opened of
    Refused     \* BOUND: the calls, "write" or "truncate", the medium may refuse

Slots == 0..MaxSlots - 1
Sizes == 0..MaxSize
Times == 0..MaxTime
Steps == {"closed", "looking", "locking", "open", "deleted"}

ASSUME BoundsAssumption ==
    MaxSlots \in Nat \ {0} /\ MaxSize \in Nat /\ MaxTime \in Nat
ASSUME FilesAssumption == NoFile \notin Files /\ NoNode \notin Nodes
ASSUME ChangingAssumption == Changing \subseteq Nodes
ASSUME RefusedAssumption == Refused \subseteq {"write", "truncate"}

VARIABLES
    size,       \* attribute "offlinefs.size" of a node
    mtime,      \* attribute "offlinefs.mtime"
    length,     \* length of the file on the medium
    openFiles,  \* FS::openFiles: whose Source object is at that place
    source,     \* the Source object that open() made for a file
    step,       \* where open() or release() of a file is
    fh,         \* i of the loop in open(), then fi->fh
    now,        \* time(NULL)
    wrote,      \* auxiliary: time of the last write or truncation since utimens
    uncut,      \* auxiliary: was the last truncation refused by the medium?
    above,      \* auxiliary: has a call been refused since, or did the last
                \* truncation meet an object with a larger size?
    told        \* auxiliary: the time that utimens or truncate has set, unless
                \* something was written since, or by an object open meanwhile

aux  == <<wrote, uncut, above, told>>
vars == <<size, mtime, length, openFiles, source, step, fh, now, aux>>

NoSource == [node |-> NoNode, size |-> 0, mtime |-> 0, dirty |-> FALSE]
Sources  == [node : Nodes, size : Sizes, mtime : Times, dirty : BOOLEAN]
                \cup {NoSource}

Untold == -1

Larger(a, b) == IF a > b THEN a ELSE b

Init ==
    /\ size = [n \in Nodes |-> 0]
    /\ mtime = [n \in Nodes |-> 0]
    /\ length = [n \in Nodes |-> 0]
    /\ openFiles = [i \in Slots |-> NoFile]
    /\ source = [f \in Files |-> NoSource]
    /\ step = [f \in Files |-> "closed"]
    /\ fh = [f \in Files |-> 0]
    /\ now = 0
    /\ wrote = [n \in Nodes |-> 0]
    /\ uncut = [n \in Nodes |-> FALSE]
    /\ above = [n \in Nodes |-> FALSE]
    /\ told = [n \in Nodes |-> 0]

-----------------------------------------------------------------------------
(* open *)

(* The register of the node is locked by an open() that has not returned. *)
Locked(n) ==
    \E f \in Files : step[f] \in {"looking", "locking"} /\ source[f].node = n

(* getsource and the constructor of Source_single. *)
Open(f, n) ==
    /\ step[f] = "closed" /\ n \in Opening[f] /\ ~Locked(n)
    /\ source' = [source EXCEPT ![f] =
                    [node |-> n, size |-> size[n], mtime |-> 0, dirty |-> FALSE]]
    /\ step' = [step EXCEPT ![f] = "looking"]
    /\ fh' = [fh EXCEPT ![f] = 0]
    /\ UNCHANGED <<size, mtime, length, openFiles, now, aux>>

(* A place that is taken is passed by; behind the last one is ENFILE. *)
Look_Bug(f) ==               \* ENFILE leaves the object behind
    /\ step[f] = "looking"
    /\ \/ /\ fh[f] = MaxSlots
          /\ step' = [step EXCEPT ![f] = "closed"]
          /\ fh' = [fh EXCEPT ![f] = 0]
       \/ /\ fh[f] # MaxSlots
          /\ IF openFiles[fh[f]] = NoFile
             THEN step' = [step EXCEPT ![f] = "locking"] /\ UNCHANGED fh
             ELSE fh' = [fh EXCEPT ![f] = @ + 1] /\ UNCHANGED step
    /\ UNCHANGED <<size, mtime, length, openFiles, source, now, aux>>

Look(f) ==
    /\ step[f] = "looking"
    /\ \/ /\ fh[f] = MaxSlots
          /\ source' = [source EXCEPT ![f] = NoSource]
          /\ step' = [step EXCEPT ![f] = "closed"]
          /\ fh' = [fh EXCEPT ![f] = 0]
       \/ /\ fh[f] # MaxSlots
          /\ IF openFiles[fh[f]] = NoFile
             THEN step' = [step EXCEPT ![f] = "locking"] /\ UNCHANGED fh
             ELSE fh' = [fh EXCEPT ![f] = @ + 1] /\ UNCHANGED step
          /\ UNCHANGED source
    /\ UNCHANGED <<size, mtime, length, openFiles, now, aux>>

(* With the mutex: the place is looked at again, and taken. *)
Take_Bug(f) ==               \* no second look
    /\ step[f] = "locking"
    /\ openFiles' = [openFiles EXCEPT ![fh[f]] = f]
    /\ step' = [step EXCEPT ![f] = "open"]
    /\ UNCHANGED <<size, mtime, length, source, fh, now, aux>>

Take_LoopBug(f) ==           \* a place that was lost is tried for ever
    /\ step[f] = "locking"
    /\ openFiles[fh[f]] = NoFile
    /\ openFiles' = [openFiles EXCEPT ![fh[f]] = f]
    /\ step' = [step EXCEPT ![f] = "open"]
    /\ UNCHANGED <<size, mtime, length, source, fh, now, aux>>

Take(f) ==
    /\ step[f] = "locking"
    /\ IF openFiles[fh[f]] = NoFile
       THEN /\ openFiles' = [openFiles EXCEPT ![fh[f]] = f]
            /\ step' = [step EXCEPT ![f] = "open"]
            /\ UNCHANGED fh
       ELSE /\ step' = [step EXCEPT ![f] = "looking"]
            /\ fh' = [fh EXCEPT ![f] = @ + 1]
            /\ UNCHANGED openFiles
    /\ UNCHANGED <<size, mtime, length, source, now, aux>>

-----------------------------------------------------------------------------
(* Handlers on an open file.  o is the object at the place fi->fh. *)

(* The number of the file is that of an object: else EBADF. *)
Served(f) == step[f] = "open" /\ openFiles[fh[f]] # NoFile

(* The file on the medium has the bytes up to "end" and "got" of them are     *)
(* stored; the object counts them all, before it asks the medium.             *)
Write(f, end, got) ==
    LET o == openFiles[fh[f]]
        n == source[o].node
    IN  /\ Served(f)
        /\ n \in Changing
        /\ got = end \/ "write" \in Refused
        /\ source' = [source EXCEPT ![o] =
                        [node  |-> n,   size  |-> Larger(source[o].size, end),
                         mtime |-> now, dirty |-> TRUE]]
        /\ length' = [length EXCEPT ![n] = Larger(@, got)]
        /\ wrote' = [wrote EXCEPT ![n] = now]
        /\ above' = [above EXCEPT ![n] = @ \/ got # end]
        /\ told' = [told EXCEPT ![n] = Untold]
        /\ UNCHANGED <<size, mtime, openFiles, step, fh, now, uncut>>

(* The attributes follow the object where it is ahead.  Also fsync. *)
Flush_Bug(f) ==              \* whether the object is ahead or not
    LET o == openFiles[fh[f]]
        n == source[o].node
    IN  /\ Served(f) /\ ~Locked(n)
        /\ size' = [size EXCEPT ![n] = source[o].size]
        /\ mtime' = [mtime EXCEPT ![n] = source[o].mtime]
        /\ source' = [source EXCEPT ![o].dirty = FALSE]
        /\ UNCHANGED <<length, openFiles, step, fh, now, aux>>

Flush(f) ==
    LET o == openFiles[fh[f]]
        n == source[o].node
    IN  /\ Served(f) /\ ~Locked(n)
        /\ size' = [size EXCEPT ![n] = Larger(@, source[o].size)]
        /\ mtime' = [mtime EXCEPT ![n] = Larger(@, source[o].mtime)]
        /\ source' = [source EXCEPT ![o].dirty = FALSE]
        /\ UNCHANGED <<length, openFiles, step, fh, now, aux>>

(* release deletes the object, then clears its place, without the mutex. *)
Release(f) ==
    LET o == openFiles[fh[f]] IN
    /\ Served(f) /\ ~source[o].dirty
    /\ source' = [source EXCEPT ![o] = NoSource]
    /\ step' = [step EXCEPT ![f] = "deleted"]
    /\ UNCHANGED <<size, mtime, length, openFiles, fh, now, aux>>

Clear(f) ==
    /\ step[f] = "deleted"
    /\ openFiles' = [openFiles EXCEPT ![fh[f]] = NoFile]
    /\ step' = [step EXCEPT ![f] = "closed"]
    /\ fh' = [fh EXCEPT ![f] = 0]
    /\ UNCHANGED <<size, mtime, length, source, now, aux>>

-----------------------------------------------------------------------------
(* Handlers on a path. *)

(* The objects of node n in the table. *)
Opened(n) == {f \in Files : step[f] = "open" /\ source[f].node = n}

(* A time that is set is lost if an object remembers a later one. *)
Told(n, t) ==
    [told EXCEPT ![n] = IF \E f \in Opened(n) : source[f].mtime > t THEN Untold ELSE t]

(* truncate works on a Source of its own; those of open files keep what they *)
(* hold.  What the medium answers is not passed on.                          *)
Truncate_Bug(n, to, done) ==     \* the length in the node is left to flush()
    /\ ~Locked(n)
    /\ done \/ "truncate" \in Refused
    /\ mtime' = [mtime EXCEPT ![n] = now]
    /\ length' = IF done THEN [length EXCEPT ![n] = to] ELSE length
    /\ wrote' = [wrote EXCEPT ![n] = now]
    /\ uncut' = [uncut EXCEPT ![n] = ~done]
    /\ above' = [above EXCEPT ![n] = ~done \/ \E f \in Opened(n) : source[f].size > to]
    /\ told' = Told(n, now)
    /\ UNCHANGED <<size, openFiles, source, step, fh, now>>

Truncate(n, to, done) ==
    /\ ~Locked(n)
    /\ done \/ "truncate" \in Refused
    /\ size' = [size EXCEPT ![n] = to]
    /\ mtime' = [mtime EXCEPT ![n] = now]
    /\ length' = IF done THEN [length EXCEPT ![n] = to] ELSE length
    /\ wrote' = [wrote EXCEPT ![n] = now]
    /\ uncut' = [uncut EXCEPT ![n] = ~done]
    /\ above' = [above EXCEPT ![n] = ~done \/ \E f \in Opened(n) : source[f].size > to]
    /\ told' = Told(n, now)
    /\ UNCHANGED <<openFiles, source, step, fh, now>>

Utimens(n, t) ==
    /\ ~Locked(n)
    /\ mtime' = [mtime EXCEPT ![n] = t]
    /\ wrote' = [wrote EXCEPT ![n] = 0]
    /\ told' = Told(n, t)
    /\ UNCHANGED <<size, length, openFiles, source, step, fh, now, uncut, above>>

Tick ==
    /\ now < MaxTime
    /\ now' = now + 1
    /\ UNCHANGED <<size, mtime, length, openFiles, source, step, fh, aux>>

-----------------------------------------------------------------------------

Next ==
    \/ \E f \in Files :
          \/ \E n \in Nodes : Open(f, n)
          \/ Look(f)
          \/ Take(f)
          \/ \E end \in Sizes : \E got \in 0..end : Write(f, end, got)
          \/ Flush(f)
          \/ Release(f)
          \/ Clear(f)
    \/ \E n \in Changing :
          \/ \E to \in Sizes, done \in BOOLEAN : Truncate(n, to, done)
          \/ \E t \in Times : Utimens(n, t)
    \/ Tick

(* The thread that serves an open() runs on: it waits for nothing but the    *)
(* mutex, which is held for one step at a time.                              *)
Fairness == \A f \in Files : WF_vars(Look(f)) /\ WF_vars(Take(f))

Spec == Init /\ [][Next]_vars /\ Fairness

-----------------------------------------------------------------------------
(* Properties. *)

(* Each variable has its type, and a file has a Source object from open() to *)
(* release(), also when the table is full and open() has to give it back.    *)
TypeOK ==
    /\ size \in [Nodes -> Sizes] /\ mtime \in [Nodes -> Times]
    /\ length \in [Nodes -> Sizes]
    /\ openFiles \in [Slots -> Files \cup {NoFile}]
    /\ source \in [Files -> Sources]
    /\ step \in [Files -> Steps] /\ fh \in [Files -> 0..MaxSlots]
    /\ \A f \in Files : source[f] = NoSource <=> step[f] \in {"closed", "deleted"}
    /\ now \in Times /\ wrote \in [Nodes -> Times]
    /\ uncut \in [Nodes -> BOOLEAN] /\ above \in [Nodes -> BOOLEAN]
    /\ told \in [Nodes -> Times \cup {Untold}]

(* FS::open and FS::release share the table without a common lock, yet a     *)
(* place in use holds the object of the one file that was told its number,   *)
(* and every other place is free: no object is shared, lost or left behind.  *)
SlotsExclusive ==
    /\ \A f \in Files :
          step[f] \in {"open", "deleted"} => fh[f] \in Slots /\ openFiles[fh[f]] = f
    /\ \A i \in Slots :
          openFiles[i] # NoFile =>
            step[openFiles[i]] \in {"open", "deleted"} /\ fh[openFiles[i]] = i

(* Every byte on the medium stays within the size that the node has, or will *)
(* have when the objects that know better are flushed: whatever open files   *)
(* write, flush and close in whatever order, flush() of one never loses what *)
(* another wrote.  Only a truncation that the medium refuses leaves more.     *)
SizeCoversFile ==
    \A n \in Nodes :
        \/ uncut[n]
        \/ length[n] <= size[n]
        \/ \E f \in Opened(n) : length[n] <= source[f].size

(* Nor does the modification time fall behind the last write or truncation,  *)
(* once the objects that know of it are flushed, unless utimens set it.      *)
TimeCoversWrites ==
    \A n \in Nodes :
        \/ wrote[n] <= mtime[n]
        \/ \E f \in Opened(n) : wrote[n] <= source[f].mtime

(* open() returns, with a place or with ENFILE, whatever other threads take  *)
(* and clear meanwhile.                                                      *)
OpenReturns ==
    \A f \in Files : step[f] = "looking" ~> step[f] \in {"open", "closed"}

(* source.hxx:41 says of the methods "Analogous to the standard unix calls".  *)
(* For the size this holds of all but two cases: a call that the medium       *)
(* refuses, and a truncation while an open file has a larger size to itself,  *)
(* which its flush() brings back.  Otherwise no size is beyond the file.      *)
SizeWithinFile ==
    \A n \in Nodes :
        \/ above[n]
        \/ /\ size[n] <= length[n]
           /\ \A f \in Files : source[f].node = n => source[f].size <= length[n]

(* A time that is set stays set until something is written: unless an object   *)
(* is open that was written to at a later time than the one that is set, for  *)
(* flush() takes that as news, also of a write long flushed.                  *)
UtimensStays ==
    \A n \in Nodes : told[n] # Untold => mtime[n] = told[n]

=============================================================================
