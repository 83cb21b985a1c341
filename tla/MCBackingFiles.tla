--------------------------- MODULE MCBackingFiles ---------------------------
(* Two nodes beside the root, on a medium that removes files. *)
EXTENDS BackingFiles, TLC

NameSymmetry == Permutations(Names)

=============================================================================
