----------------------------- MODULE PairTable -----------------------------
(***************************************************************************)
(* What the comparison list of a visualization tab promises: whatever is   *)
(* imported, removed or moved, there is one setting for every two layers,  *)
(* in list order, and a setting chosen by the user is forgotten only when  *)
(* one of its layers leaves or the two change places.                      *)
(***************************************************************************)
EXTENDS Integers, Sequences

CONSTANTS
  Id,        \* layer ids
  Setting,   \* what can be chosen for a pair
  Default    \* what a new pair gets

VARIABLES
  order,     \* the layer ids, from top to bottom
  setting    \* the setting of every pair

pairVars == <<order, setting>>

PairsOf(s) ==
  {p \in {s[n] : n \in DOMAIN s} \X {s[n] : n \in DOMAIN s} :
     \E i, j \in DOMAIN s : i < j /\ p = <<s[i], s[j]>>}

Init ==
  /\ order \in Seq(Id)
  /\ setting = [p \in PairsOf(order) |-> Default]

(* Layers come, go or move: the pairs that remain keep their settings.     *)
Arrange ==
  /\ order' \in Seq(Id)
  /\ setting' = [p \in PairsOf(order') |->
       IF p \in DOMAIN setting THEN setting[p] ELSE Default]

(* The user changes the setting of one pair.                               *)
Change ==
  /\ UNCHANGED order
  /\ DOMAIN setting' = DOMAIN setting
  /\ \E p \in DOMAIN setting :
       /\ setting'[p] \in Setting
       /\ \A q \in DOMAIN setting \ {p} : setting'[q] = setting[q]

Next == Arrange \/ Change

Spec == Init /\ [][Next]_pairVars

=============================================================================
