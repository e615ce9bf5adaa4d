-------------------------------- MODULE MCDta --------------------------------
(***************************************************************************)
(* Dta with two DTAs, three files and patterns that overlap.               *)
(***************************************************************************)
EXTENDS Dta, SequencesExt

Sorted == [S \in SUBSET {1, 2, 3} |-> SetToSortSeq(S, <)]

Overlapping == {{1, 2, 3}, {2, 3}, {1}}
=============================================================================
