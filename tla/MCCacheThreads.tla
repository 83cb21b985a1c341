--------------------------- MODULE MCCacheThreads ---------------------------
(* A directory, a file in it, and as many threads as a circle needs.  Each *)
(* node has a page of its own; both directories are on the first page of   *)
(* the other database, and the file's directory goes on on the second.     *)
EXTENDS CacheThreads, TLC

OwnPages   == [i \in Nodes |-> i]
TwoPages   == [i \in Nodes |-> IF i = 0 THEN {0} ELSE IF i = 1 THEN {0, 1} ELSE {}]
SharedPage == [i \in 1..Depth |-> 0]

ThreadSymmetry == Permutations(Threads)

=============================================================================
