------------------------------- MODULE MCMedia -------------------------------
(* Two ids, each on a page of its own, and up to one more medium than ids; *)
(* the files are on one page.                                              *)
EXTENDS Media, TLC

OwnPages == [i \in Ids |-> i]
OnePage  == [n \in Nodes |-> Nodes]

(* BOUND: only the last id is one of media without a volume to insert, and *)
(* only the first one of media without a label.                            *)
FewKinds ==
    \A i \in DOMAIN media' :
        /\ media'[i].type = "directory" => i = MaxId
        /\ media'[i].label = NoLabel => i = 0
=============================================================================
