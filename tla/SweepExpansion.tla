--------------------------- MODULE SweepExpansion ---------------------------
(***************************************************************************)
(* How core/experiment.py turns the parameters of an experiment's config   *)
(* into points: _parse_sweep_value, _expand_params, and the _first of      *)
(* validate_compatibility.                                                 *)
(*                                                                         *)
(* The params of an adapter are a sequence of entries, in the order of the *)
(* JSON object: a key, what kind of value it has, and                      *)
(*   "num"    a number            items = <<the number>>                   *)
(*   "list"   a list              items = its members                      *)
(*   "space"  "linspace(a,b,n)"   items = the n values it stands for       *)
(*   "str"    any other string    items = <<the string>>                   *)
(* Numbers and strings are both atoms here; a key is never a number.  So   *)
(* are the members of a list that stand for several values themselves: a   *)
(* sweep string, or a list (which is neither empty nor a list of lists).   *)
(***************************************************************************)
EXTENDS Lists

CONSTANTS
  Number,   \* numbers that values are written with
  Text,     \* strings: keys, names, formulas
  Sweep,    \* sweep strings and lists, as the members of a list
  FirstOf   \* FirstOf[s]: the first value s stands for, or s when it has none

Atom == Number \cup Text \cup Sweep

ASSUME AtomAssumption ==
  /\ Number \cap Text = {}
  /\ Sweep \cap (Number \cup Text) = {}
  /\ FirstOf \in [Sweep -> Atom]

Entry ==
  [key : Text, kind : {"num"}, items : {<<v>> : v \in Number}] \cup
  [key : Text, kind : {"str"}, items : {<<v>> : v \in Text}] \cup
  [key : Text, kind : {"list"}, items : Seq(Atom)] \cup
  [key : Text, kind : {"space"}, items : Seq(Number)]

(* The keys of a JSON object are distinct.                                 *)
Params ==
  {params \in Seq(Entry) :
     \A n, m \in 1..Len(params) : params[n].key = params[m].key => n = m}

EmptyPoint == <<>>

Put(p, k, v) == [x \in DOMAIN p \cup {k} |-> IF x = k THEN v ELSE p[x]]

IsFormula(e) == e.kind = "str"
Formulas(params) == Keep(params, {e \in ToSet(params) : IsFormula(e)})
IsAxis(e) == ~IsFormula(e)
Axes(params) == Keep(params, {e \in ToSet(params) : IsAxis(e)})

(* Every point with every value of the axis.                               *)
AddAxis(points, e) ==
  FlattenSeq([n \in 1..Len(points) |->
    [m \in 1..Len(e.items) |-> Put(points[n], e.key, e.items[m])]])

(* itertools.product over the axes, the last one fastest.                  *)
ProductOf(axes) == FoldLeft(AddAxis, <<EmptyPoint>>, axes)

(* A formula that names a key already in the point takes its value, any    *)
(* other stays a string.                                                   *)
Resolve(p, e) == Put(p, e.key, IF e.items[1] \in DOMAIN p THEN p[e.items[1]] ELSE e.items[1])

(* The formulas in the order of the config.                                *)
WithFormulas(point, formulas) == FoldLeft(Resolve, point, formulas)

ExpandParams(params) ==
  LET product == ProductOf(Axes(params))
      expanded == [n \in 1..Len(product) |-> WithFormulas(product[n], Formulas(params))]
  IN IF expanded = <<>> THEN <<EmptyPoint>> ELSE expanded

(* _first indexes into every list: an empty one raises IndexError.         *)
FirstRaises(params) ==
  \E n \in 1..Len(params) : params[n].kind = "list" /\ params[n].items = <<>>

(* The first member of a list, parsed once more, so that it gives its own  *)
(* first value, or what a key met before has.  A "space" of no values      *)
(* stays the string it is.                                                 *)
TakeFirst(p, e) ==
  LET v == IF e.items = <<>> THEN "space" ELSE e.items[1] IN
  Put(p, e.key, IF v \in Sweep THEN FirstOf[v]
                ELSE IF e.kind # "space" /\ v \in DOMAIN p THEN p[v] ELSE v)

(* The value itself may name a key, by now all of them.                    *)
LookAgain(p, e) == Put(p, e.key, IF p[e.key] \in DOMAIN p THEN p[p[e.key]] ELSE p[e.key])

(* Mutant of FirstPoint: one pass, so only keys met before are resolved.   *)
FirstPointOnePass(params) == FoldLeft(TakeFirst, EmptyPoint, params)

(* The one point validate_compatibility builds the adapters with: the      *)
(* second pass resolves, in the same order, what the first one could not.  *)
FirstPoint(params) == FoldLeft(LookAgain, FoldLeft(TakeFirst, EmptyPoint, params), params)

-----------------------------------------------------------------------------
(* What the docstrings promise, without the loops.                         *)

Keys(params) == {params[n].key : n \in 1..Len(params)}
AxisKeys(params) == {e.key : e \in ToSet(Axes(params))}
Atoms(params) == UNION {ToSet(params[n].items) : n \in 1..Len(params)}

(* The keys a formula at position n may refer to: the sweep axes, and the  *)
(* formulas before it.                                                     *)
Visible(params, n) == AxisKeys(params) \cup {params[m].key : m \in 1..(n - 1)}

(* The number of combinations of the values of the axes.                   *)
Size(axes) == FoldLeft(LAMBDA n, e : n * Len(e.items), 1, axes)

(* The full cartesian product, with the formulas resolved.                 *)
ReferencePoints(params) ==
  {p \in [Keys(params) -> Atoms(params)] :
     \A n \in 1..Len(params) :
       LET e == params[n] IN
       IF IsAxis(e) THEN p[e.key] \in ToSet(e.items)
       ELSE p[e.key] = IF e.items[1] \in Visible(params, n) THEN p[e.items[1]] ELSE e.items[1]}

(* Params in which no formula names a formula, no member of a list names a *)
(* key, and no axis is empty.                                              *)
Direct(params) ==
  /\ \A e \in ToSet(Axes(params)) :
       e.items # <<>> /\ ToSet(e.items) \cap Keys(params) = {}
  /\ \A e, f \in ToSet(Formulas(params)) : e.items[1] # f.key

(* Params in which no member of a list is a sweep string or a list.        *)
Flat(params) == \A e \in ToSet(Axes(params)) : ToSet(e.items) \cap Sweep = {}

AsDict(params) ==
  [k \in Keys(params) |->
     LET e == CHOOSE e \in ToSet(params) : e.key = k IN [kind |-> e.kind, items |-> e.items]]

=============================================================================
