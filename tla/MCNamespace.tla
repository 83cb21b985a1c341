---------------------------- MODULE MCNamespace ----------------------------
(* Two names and four ids: a directory in a directory, a node with two      *)
(* names, an empty directory to replace, and ids that are given again.      *)
EXTENDS Namespace, TLC

NameSymmetry == Permutations(Names)

=============================================================================
