------------------------------- MODULE MCFsTxn -------------------------------
(* FsTxn with four directories, /, /3, /3/1 and /2, and names in the last  *)
(* two.  Two directories are on a page; the last of them shares a page of  *)
(* the nodes with the first file.                                          *)
EXTENDS FsTxn, TLC

Names     == {<<1, "a">>, <<2, "a">>}
Paths     == [d \in Dirs |-> CASE d = 0 -> <<0>> [] d = 1 -> <<0, 3, 1>> [] OTHER -> <<0, d>>]
NodePages == [i \in Ids |-> IF i = 4 THEN 3 ELSE i]
TwoOnPage == [d \in Dirs |-> d \div 2]

Symmetric == Permutations(Threads)

(* BOUND: a lookup finds up to one prefix missing, and some only while the  *)
(* last id is free, when the log is written, and before a crash.            *)
FewMissing ==
    \A t \in Threads :
        \/ cold'[t] \subseteq cold[t]
        \/ /\ Cardinality(cold'[t]) <= 1
           /\ Last < MaxId /\ log = <<>> /\ crashes = 0
=============================================================================
