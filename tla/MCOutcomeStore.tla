--------------------------- MODULE MCOutcomeStore ---------------------------
(* An instance of OutcomeStore for TLC: one data task (tasks share no      *)
(* file), executed up to three times with outcomes of two blocks and of    *)
(* one, and a download.                                                    *)
EXTENDS OutcomeStore, TLC

CONSTANTS d1, e1, e2, e3, r1

MCDataOf == (e1 :> d1) @@ (e2 :> d1) @@ (e3 :> d1)
MCBlocks == (e1 :> 2) @@ (e2 :> 1) @@ (e3 :> 2)
MCReadsFrom == r1 :> d1

=============================================================================
