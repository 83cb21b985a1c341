-------------------------------- MODULE FsTree --------------------------------
(***************************************************************************)
(* What the name space promises its callers: a tree of directories whose   *)
(* edges are names, and other nodes that hang from one or more of them.    *)
(* There are no link counts, no "." and no "..": a node exists because it  *)
(* is named (the root always does), and its kind is all there is to it.    *)
(***************************************************************************)
EXTENDS Integers, FiniteSets

CONSTANTS
    Names,    \* names of the entries of a directory
    Ids,      \* identities of nodes
    Root,     \* the root directory
    NoNode    \* what a free name maps to

VARIABLES
    type,     \* Ids -> "dir", another kind of node, or "free" when not in use
    entry     \* <<directory, name>> -> Ids \cup {NoNode}

vars == <<type, entry>>

Init ==
    /\ type = [n \in Ids |-> IF n = Root THEN "dir" ELSE "free"]
    /\ entry = [k \in Ids \X Names |-> NoNode]

-----------------------------------------------------------------------------

NamesOf(e, n) == {k \in DOMAIN e : e[k] = n}
Free(d, m)    == entry[<<d, m>>] = NoNode
Empty(d)      == \A m \in Names : Free(d, m)

(* d and the directories that contain it, step by step. *)
Above(d) ==
    LET upto[i \in 0..Cardinality(Ids)] ==
          IF i = 0 THEN {d}
          ELSE LET s == upto[i - 1]
               IN  s \cup {k[1] : k \in {k \in DOMAIN entry : entry[k] \in s}}
    IN  upto[Cardinality(Ids)]

(* The entries become e, and exactly what e names still exists. *)
Becomes(e, t) ==
    /\ entry' = e
    /\ type' = [n \in Ids |->
                  IF n = Root \/ NamesOf(e, n) # {} THEN t[n] ELSE "free"]

-----------------------------------------------------------------------------

Create(d, m, n, t) ==
    /\ type[d] = "dir" /\ Free(d, m)
    /\ type[n] = "free"
    /\ Becomes([entry EXCEPT ![<<d, m>>] = n], [type EXCEPT ![n] = t])

AddName(d, m, n) ==
    /\ type[d] = "dir" /\ Free(d, m)
    /\ type[n] \notin {"free", "dir"}
    /\ Becomes([entry EXCEPT ![<<d, m>>] = n], type)

(* Only an empty directory can lose its name. *)
RemoveName(d, m) ==
    /\ ~Free(d, m)
    /\ Empty(entry[<<d, m>>])
    /\ Becomes([entry EXCEPT ![<<d, m>>] = NoNode], type)

(* The node moves to its new name in one step.  It replaces a node of its    *)
(* own sort, an empty directory if it is one, and never goes below itself.   *)
Move(d1, m1, d2, m2) ==
    LET src == entry[<<d1, m1>>]
        dst == entry[<<d2, m2>>]
    IN  /\ type[d2] = "dir"
        /\ ~Free(d1, m1)
        /\ type[src] = "dir" => src \notin Above(d2)
        /\ dst # NoNode => /\ (type[src] = "dir") = (type[dst] = "dir")
                           /\ Empty(dst)
        /\ Becomes([entry EXCEPT ![<<d2, m2>>] = src, ![<<d1, m1>>] = NoNode], type)

Next ==
    \E d \in Ids, m \in Names :
        \/ \E n \in Ids, t \in {"dir", "reg", "lnk"} : Create(d, m, n, t)
        \/ \E n \in Ids : AddName(d, m, n)
        \/ RemoveName(d, m)
        \/ \E d2 \in Ids, m2 \in Names : Move(d, m, d2, m2)

Spec == Init /\ [][Next]_vars

=============================================================================
