------------------------------ MODULE MCPathFs ------------------------------
(* Small trees under a cache that is smaller than the tree. *)
EXTENDS PathFs, TLC

NameSymmetry == Permutations(Names)

-----------------------------------------------------------------------------
(* What it takes to act through a stale path: three nested directories, just *)
(* made, that are looked up and moved until one handler has done so.         *)

Made(s, d, m, id) == AddChild(PathCreate(s, d, m, id, "dir"), id, "..", d)

MovesInit ==
    /\ \E m \in Names :
          LET s == Made(Made(Made(Rebuilt, 0, m, 1), 1, m, 2), 2, m, 3) IN
          /\ kind = [n \in Ids |-> s.kind[n]]
          /\ nlink = [n \in Ids |-> s.nlink[n]]
          /\ directories = [k \in Keys |-> s.dirs[k]]
    /\ search = [n \in Ids |-> TRUE]
    /\ cache = <<>>
    /\ suspect = {}

Finds(u, p) == Cache!GetNode(cache, FsState, u, p).node # NoNode

MovesNext ==
    /\ suspect # {<<>>} /\ Cardinality(suspect) <= 2
    /\ \E u \in Writers :
          \/ \E p \in Paths : Len(p) < MaxDepth /\ Finds(u, p) /\ Stat(u, p)
          \/ Moving(u)

MovesSpec == MovesInit /\ [][MovesNext]_pathVars

=============================================================================
