--------------------------- MODULE MCSubjectSync ---------------------------
(***************************************************************************)
(* The entries of the run of SubjectSync: a user, whose namespace the      *)
(* conversion drops, and an entry of a kind it leaves out.                 *)
(***************************************************************************)
EXTENDS SubjectSync

Ann == [kind |-> "User", name |-> "ann", namespace |-> "x"]
Odd == [kind |-> "Robot", name |-> "odd", namespace |-> ""]

AnnAndOdd == {Ann, Odd}
=============================================================================
