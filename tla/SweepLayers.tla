---------------------------- MODULE SweepLayers ----------------------------
(***************************************************************************)
(* From the rows of an exported sweep to the picture of the visualization  *)
(* tab: axes and their signature (normalization.ts), layers, slices, grids *)
(* and ratios of grids (math.ts), and the choices PlotEngine makes.        *)
(*                                                                         *)
(* A row is [noise, key, lepr]: the noise columns, the tuple of circuit_   *)
(* and decoder_ columns that names its layer, and the logical error rate   *)
(* of the row.  Rates enter only through ratios, so a rate is its order    *)
(* of magnitude, an integer, or Zero when no error was counted, and a      *)
(* ratio is its logarithm: an integer, NegInf, or NaN.  The values of an   *)
(* axis are numbers above Undefined, what params[name] is for a name the   *)
(* layer does not have.                                                    *)
(***************************************************************************)
EXTENDS Lists

CONSTANTS
  SweepTask,   \* experiments whose export can be imported
  AxisOrder,   \* every axis name, in alphabetical order
  Column,      \* what a circuit_ or decoder_ column holds
  RowsOf,      \* RowsOf[t]: the rows of the export of t, in file order
  Zero,        \* the rate of a row without errors
  NaN,         \* not a number
  NegInf       \* the logarithm of 0

Axis == ToSet(AxisOrder)
NoAxis == ""
Undefined == 0
Value == Nat \ {Undefined}
Row(A) == [noise : [A -> Value], key : Seq(Column), lepr : Int \cup {Zero}]

KeysOf(rows) == {rows[n].key : n \in DOMAIN rows}

(* A layer is named by the sweep it is from and the key of its rows.       *)
LayerId == UNION {{t} \X KeysOf(RowsOf[t]) : t \in SweepTask}

(* The rows of a file have the same columns.                               *)
ASSUME RowAssumption ==
  /\ AxisOrder \in Seq(Axis)
  /\ NoAxis \notin Axis
  /\ \A t \in SweepTask : \E A \in SUBSET Axis : RowsOf[t] \in Seq(Row(A))
  /\ {Zero, NaN, NegInf} \cap Int = {}
  /\ Cardinality({Zero, NaN, NegInf}) = 3

(* No file lists a point twice: its rows differ in their layer or in a     *)
(* noise column.  True of a sweep that repeats no value; the server does   *)
(* not check that, so it is a hypothesis where it is needed and not an     *)
(* assumption.                                                             *)
RowsDiffer ==
  \A t \in SweepTask : \A i, j \in 1..Len(RowsOf[t]) :
    i # j => RowsOf[t][i].key # RowsOf[t][j].key \/ RowsOf[t][i].noise # RowsOf[t][j].noise

(* The n-th value has n - 1 values below it.                               *)
Ascending(S) ==
  [n \in 1..Cardinality(S) |-> CHOOSE v \in S : Cardinality({w \in S : w < v}) = n - 1]

-----------------------------------------------------------------------------
(* normalization.ts                                                        *)

(* extractAxes: the noise columns of the first row, and for each the       *)
(* values that occur.                                                      *)
ExtractAxes(rows) ==
  LET names == IF rows = <<>> THEN <<>>
               ELSE Keep(AxisOrder, DOMAIN rows[1].noise) IN
  [names |-> names,
   values |-> [a \in ToSet(names) |-> Ascending({rows[n].noise[a] : n \in DOMAIN rows})]]

(* getAxisSignature; the hash of an axis, its values joined by commas,     *)
(* stands for the values.                                                  *)
AxisSignature(axes) ==
  [axisNames |-> axes.names,
   axisValues |-> axes.values,
   axisValueHashes |-> [n \in DOMAIN axes.names |-> axes.values[axes.names[n]]]]

SignatureOf == [task \in SweepTask |-> AxisSignature(ExtractAxes(RowsOf[task]))]

(* isCompatible: the same names with the same values, axis by axis.        *)
IsCompatible(sig1, sig2) ==
  /\ sig1.axisNames = sig2.axisNames
  /\ sig1.axisValueHashes = sig2.axisValueHashes

(* A key of one column that holds a whole number reads as an index.        *)
IsIndex(key) == Len(key) = 1 /\ key[1] \in Nat

(* The keys of the groups in the order of Object.keys: indices ascending,  *)
(* and then the others as they first occur.                                *)
GroupKeys(rows) ==
  LET indices == Ascending({k[1] : k \in {k \in KeysOf(rows) : IsIndex(k)}})
      others == Keep([n \in DOMAIN rows |-> rows[n].key], {k \in KeysOf(rows) : ~IsIndex(k)})
  IN [n \in DOMAIN indices |-> <<indices[n]>>] \o AppendNew(<<>>, others)

(* normalizeSweepToLayers: a layer for each group of rows that agree in    *)
(* the circuit_ and decoder_ columns.  The data points of a layer never    *)
(* change, so a layer carries its id only and DataOf looks them up.        *)
NormalizeSweep(task) ==
  LET keys == GroupKeys(RowsOf[task]) IN
  [n \in DOMAIN keys |-> [id |-> <<task, keys[n]>>, visible |-> TRUE]]

SourceTask(id) == id[1]

DataOf ==
  [id \in LayerId |->
     LET rows == Keep(RowsOf[id[1]], {r \in ToSet(RowsOf[id[1]]) : r.key = id[2]}) IN
     [n \in DOMAIN rows |-> [params |-> rows[n].noise, lepr |-> rows[n].lepr]]]

-----------------------------------------------------------------------------
(* math.ts                                                                 *)

Param(d, a) == IF a \in DOMAIN d.params THEN d.params[a] ELSE Undefined

(* filterLayerData: every axis that is sliced, and is neither x nor y, has *)
(* the value of its slice.                                                 *)
FilterLayerData(data, slices, x, y) ==
  Keep(data, {d \in ToSet(data) : \A a \in DOMAIN slices \ {x, y} : Param(d, a) = slices[a]})

(* layerToGrid: a cell for each pair of values; the last point of a cell   *)
(* wins, and a cell without a point is NaN.                                *)
LayerToGrid(data, x, y) ==
  LET xs == Ascending({Param(data[n], x) : n \in DOMAIN data})
      ys == Ascending({Param(data[n], y) : n \in DOMAIN data})
      At(vx, vy) ==
        LET last == SelectLastInSeq(data, LAMBDA d : Param(d, x) = vx /\ Param(d, y) = vy)
        IN IF last = 0 THEN NaN ELSE data[last].lepr
  IN [x |-> xs, y |-> ys, z |-> [i \in DOMAIN ys |-> [j \in DOMAIN xs |-> At(xs[j], ys[i])]]]

LogRatio(a, b) ==
  IF a = NaN \/ b \in {NaN, Zero} THEN NaN ELSE IF a = Zero THEN NegInf ELSE a - b

(* Mutant of RatioGrid: rows and columns of the second grid are swapped.   *)
RatioGridTransposed(gridA, gridB) ==
  [gridA EXCEPT !.z = [i \in DOMAIN gridA.z |-> [j \in DOMAIN gridA.z[i] |->
     IF j \in DOMAIN gridB.z /\ i \in DOMAIN gridB.z[j]
     THEN LogRatio(gridA.z[i][j], gridB.z[j][i]) ELSE NaN]]]

(* computeRatioGrid goes through the cells of the first grid and takes the *)
(* cell at the same position of the second, which is undefined, and then   *)
(* NaN, when its row is too short; a missing row throws (see Comparable).  *)
RatioGrid(gridA, gridB) ==
  [gridA EXCEPT !.z = [i \in DOMAIN gridA.z |-> [j \in DOMAIN gridA.z[i] |->
     IF j \in DOMAIN gridB.z[i] THEN LogRatio(gridA.z[i][j], gridB.z[i][j]) ELSE NaN]]]

Comparable(gridA, gridB) == Len(gridA.z) <= Len(gridB.z)

IsFinite(v) == v \notin {NaN, NegInf}

Finite(s) == {v \in ToSet(s) : IsFinite(v)}

(* nanMin: the least finite value.                                         *)
NanMin(s) == IF Finite(s) = {} THEN NaN ELSE Min(Finite(s))

(* Mutant of NanMax: the last value is not looked at.                      *)
NanMaxButLast(s) ==
  LET finite == Finite(SubSeq(s, 1, Len(s) - 1)) IN IF finite = {} THEN NaN ELSE Max(finite)

(* nanMax: the greatest value that is a number, NegInf when there is no    *)
(* other.                                                                  *)
NanMax(s) ==
  IF Finite(s) # {} THEN Max(Finite(s)) ELSE IF Contains(s, NegInf) THEN NegInf ELSE NaN

-----------------------------------------------------------------------------
(* PlotEngine: the two-layer heatmap.                                      *)

Flat(z) == FlattenSeq(z)

(* Zclean: a ratio of 0 is drawn at the bottom of the colour scale.        *)
Clean(z, zmin) ==
  [i \in DOMAIN z |-> [j \in DOMAIN z[i] |-> IF z[i][j] = NegInf THEN zmin ELSE z[i][j]]]

Heatmap(ratio) ==
  LET zmin == NanMin(Flat(ratio.z)) IN
  [zmin |-> zmin, zmax |-> NanMax(Flat(ratio.z)), z |-> Clean(ratio.z, zmin)]

=============================================================================
