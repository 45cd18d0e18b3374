-------------------------------- MODULE Lists --------------------------------
(***************************************************************************)
(* Array.filter of the client, and the list comprehensions of the server   *)
(* with an "if".                                                           *)
(***************************************************************************)
EXTENDS Integers, Sequences, FiniteSets, SequencesExt

(* The members of the list s that are in the set S, in order.  It is       *)
(* SelectSeq with a set in the place of the test, as a fold, which the     *)
(* provers know how to expand.                                             *)
Keep(s, S) == FoldLeft(LAMBDA kept, x : IF x \in S THEN Append(kept, x) ELSE kept, <<>>, s)

(* The list, and then those of xs that are not in it, each once: an insert *)
(* that keeps what is there, and Array.from(new Set(xs)) when the list is  *)
(* empty.                                                                  *)
AppendNew(list, xs) ==
  FoldLeft(LAMBDA l, x : IF Contains(l, x) THEN l ELSE Append(l, x), list, xs)

=============================================================================
