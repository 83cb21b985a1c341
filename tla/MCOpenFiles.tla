---------------------------- MODULE MCOpenFiles ----------------------------
(* One open file more than the table has places; it is of the node that is  *)
(* not changed.                                                             *)
EXTENDS OpenFiles

CONSTANTS n2, f3

BothButF3 == [f \in Files |-> IF f = f3 THEN {n2} ELSE Nodes]

=============================================================================
