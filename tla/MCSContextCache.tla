--------------------------- MODULE MCSContextCache ---------------------------
(* SContextCache on a small instance; the constants are in the cfg. *)
EXTENDS SContextCache, TLC

Symmetric == Permutations(Threads) \cup Permutations(Users)
=============================================================================
