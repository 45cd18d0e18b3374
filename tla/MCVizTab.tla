----------------------------- MODULE MCVizTab -----------------------------
(* An instance of VizTab for TLC.                                          *)
EXTENDS VizTab

CONSTANTS grid, diagonal, line, zero, nan, neginf, null

RowOf(noise, key, lepr) == [noise |-> noise, key |-> key, lepr |-> lepr]

(* The points of a sweep over p, q and r, r running fastest.               *)
Point(n) == [p |-> 1 + (n \div 4), q |-> 1 + ((n \div 2) % 2), r |-> 1 + (n % 2)]

(* A full sweep of two circuits; a sweep of one circuit whose r is given   *)
(* by p, so that the values of each axis agree and the points do not; and  *)
(* a sweep of another axis.                                                *)
Rates == <<4, 1, zero, 7, 2, 9, 5, 3>>
MCRowsOf ==
  (grid :> ([n \in 1..8 |-> RowOf(Point(n - 1), <<3, 3>>, Rates[n])]
            \o [n \in 1..8 |-> RowOf(Point(n - 1), <<5, 5>>, n * n)]))
  @@ (diagonal :> [n \in 1..4 |-> RowOf(Point(<<0, 2, 5, 7>>[n]), <<3>>, n + 3)])
  @@ (line :> [n \in 1..2 |-> RowOf([r |-> n], <<3>>, n)])

MCAxisOrder == <<"p", "q", "r">>

(* The sweeps list no point twice, as some theorems ask.                   *)
ASSUME NoPointTwice == RowsDiffer

=============================================================================
