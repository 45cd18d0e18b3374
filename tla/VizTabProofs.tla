---------------------------- MODULE VizTabProofs ----------------------------
(***************************************************************************)
(* Proofs about VizTab: the types of its state, the flag of its imports,   *)
(* and what its layers, axes and slices have in common, whatever sweeps    *)
(* are imported and in whatever order imports, edits, mounts and reloads   *)
(* come.                                                                   *)
(***************************************************************************)
EXTENDS VizTab, FoldProofs, FiniteSetTheorems

-----------------------------------------------------------------------------
(* Sorting                                                                 *)

Below(S, v) == {w \in S : w < v}

(* A member has as many members below it as its place says.                *)
LEMMA RankGrows ==
  ASSUME NEW S \in SUBSET Int, IsFiniteSet(S), NEW v \in S, NEW u \in Int, v < u
  PROVE  /\ Cardinality(Below(S, v)) \in Nat
         /\ Cardinality(Below(S, u)) \in Nat
         /\ Cardinality(Below(S, v)) < Cardinality(Below(S, u))
<1>1. /\ Below(S, v) \in SUBSET S /\ Below(S, u) \in SUBSET S
      /\ Below(S, v) \in SUBSET Below(S, u)
      /\ v \in Below(S, u) /\ v \notin Below(S, v)
  <2>1. \A w \in S : w \in Int /\ (w < v => w < u) /\ ~(v < v)
    OBVIOUS
  <2>2. QED
    BY <2>1, Zenon DEF Below
<1>2. IsFiniteSet(Below(S, v)) /\ IsFiniteSet(Below(S, u))
  BY <1>1, FS_Subset
<1>3. Cardinality(Below(S, v)) \in Nat /\ Cardinality(Below(S, u)) \in Nat
  BY <1>2, FS_CardinalityType
<1>4. /\ Cardinality(Below(S, v)) <= Cardinality(Below(S, u))
      /\ Cardinality(Below(S, v)) = Cardinality(Below(S, u)) => Below(S, u) = Below(S, v)
  BY <1>1, <1>2, FS_Subset
<1>5. QED
  BY <1>1, <1>3, <1>4

LEMMA RankIsPlace ==
  ASSUME NEW S \in SUBSET Int, IsFiniteSet(S), NEW v \in S
  PROVE  Cardinality(Below(S, v)) \in 0..(Cardinality(S) - 1)
<1>1. Below(S, v) \in SUBSET S /\ v \notin Below(S, v)
  BY DEF Below
<1>2. IsFiniteSet(Below(S, v))
  BY <1>1, FS_Subset
<1>3. Cardinality(Below(S, v)) \in Nat /\ Cardinality(S) \in Nat
  BY <1>2, FS_CardinalityType
<1>4. /\ Cardinality(Below(S, v)) <= Cardinality(S)
      /\ Cardinality(Below(S, v)) = Cardinality(S) => S = Below(S, v)
  BY <1>1, FS_Subset
<1>5. QED
  BY <1>1, <1>3, <1>4

(* Every place has a member.                                               *)
LEMMA PlaceHasMember ==
  ASSUME NEW S \in SUBSET Int, IsFiniteSet(S), NEW k \in 0..(Cardinality(S) - 1)
  PROVE  \E v \in S : Cardinality(Below(S, v)) = k
<1> DEFINE P == 0..(Cardinality(S) - 1)
           f == [v \in S |-> Cardinality(Below(S, v))]
<1>1. PICK m \in Nat : m = Cardinality(S)
  BY FS_CardinalityType
<1>2. IsFiniteSet(P) /\ Cardinality(P) = m
  BY <1>1, FS_Interval
<1>3. f \in [S -> P]
  BY RankIsPlace
<1>4. \A u, v \in S : f[u] = f[v] => u = v
  <2> SUFFICES ASSUME NEW u \in S, NEW v \in S, u # v
               PROVE  Cardinality(Below(S, u)) # Cardinality(Below(S, v))
    OBVIOUS
  <2>1. u \in Int /\ v \in Int /\ (u < v \/ v < u)
    OBVIOUS
  <2>2. CASE u < v
    BY <2>1, <2>2, RankGrows
  <2>3. CASE v < u
    BY <2>1, <2>3, RankGrows
  <2>4. QED
    BY <2>1, <2>2, <2>3
<1> HIDE DEF f
<1>5. f \in Injection(S, P)
  BY <1>3, <1>4 DEF Injection, IsInjective
<1>6. f \in Surjection(S, P)
  BY <1>1, <1>2, <1>5, FS_Injection
<1>7. PICK v \in S : f[v] = k
  BY <1>6 DEF Surjection
<1>8. QED
  BY <1>7 DEF f

IsAscending(s) == \A i, j \in 1..Len(s) : i < j => s[i] < s[j]

(* Ascending lists the members of a finite set, each once, in order.       *)
LEMMA AscendingIs ==
  ASSUME NEW S \in SUBSET Int, IsFiniteSet(S)
  PROVE  /\ Ascending(S) \in Seq(S)
         /\ Len(Ascending(S)) = Cardinality(S)
         /\ ToSet(Ascending(S)) = S
         /\ IsAscending(Ascending(S))
<1>1. PICK m \in Nat : m = Cardinality(S)
  BY FS_CardinalityType
<1>2. PICK s : s = Ascending(S)
  OBVIOUS
<1> DEFINE At(i) == CHOOSE v \in S : Cardinality({w \in S : w < v}) = i - 1
<1>3. s = [i \in 1..m |-> At(i)]
  BY <1>1, <1>2, Zenon DEF Ascending
<1>4. ASSUME NEW i \in 1..m
      PROVE  s[i] \in S /\ Cardinality(Below(S, s[i])) = i - 1
  <2>1. i - 1 \in 0..(m - 1)
    OBVIOUS
  <2>2. \E v \in S : Cardinality(Below(S, v)) = i - 1
    BY <1>1, <2>1, PlaceHasMember
  <2>3. \E v \in S : Cardinality({w \in S : w < v}) = i - 1
    BY <2>2, Zenon DEF Below
  <2>4. At(i) \in S /\ Cardinality({w \in S : w < At(i)}) = i - 1
    BY <2>3, Zenon
  <2>5. s[i] = At(i)
    BY <1>3
  <2>6. QED
    BY <2>4, <2>5, Zenon DEF Below
<1> HIDE DEF At
<1>5. s \in Seq(S) /\ Len(s) = m /\ DOMAIN s = 1..m
  <2>1. s \in [1..m -> S]
    BY <1>3, <1>4
  <2>2. QED
    BY <2>1
<1>6. ASSUME NEW v \in S PROVE \E i \in 1..m : s[i] = v
  <2>1. PICK k \in 0..(m - 1) : k = Cardinality(Below(S, v))
    BY <1>1, RankIsPlace
  <2>2. \A q \in 0..(m - 1) : q + 1 \in 1..m /\ (q + 1) - 1 = q
    OBVIOUS
  <2>3. PICK i \in 1..m : i - 1 = k
    BY <2>2
  <2>4. s[i] \in S /\ Cardinality(Below(S, s[i])) = Cardinality(Below(S, v))
    BY <1>4, <2>1, <2>3
  <2>5. s[i] = v
    <3>1. s[i] \in Int /\ v \in Int /\ (s[i] < v \/ v < s[i] \/ s[i] = v)
      <4>1. PICK u \in Int : u = s[i]
        BY <2>4, Zenon
      <4>2. v \in Int /\ (u < v \/ v < u \/ u = v)
        OBVIOUS
      <4>3. QED
        BY <4>1, <4>2, Zenon
    <3>2. ~(s[i] < v)
      BY <2>4, <3>1, RankGrows
    <3>3. ~(v < s[i])
      BY <2>4, <3>1, RankGrows
    <3>4. QED
      BY <3>1, <3>2, <3>3
  <2>6. QED
    BY <2>5
<1>7. ASSUME NEW i \in 1..m, NEW j \in 1..m, i < j PROVE s[i] < s[j]
  <2>1. /\ s[i] \in S /\ Cardinality(Below(S, s[i])) = i - 1
        /\ s[j] \in S /\ Cardinality(Below(S, s[j])) = j - 1
    BY <1>4
  <2>2. s[i] \in Int /\ s[j] \in Int /\ (s[i] < s[j] \/ s[i] = s[j] \/ s[j] < s[i])
    <3>1. PICK u \in Int, w \in Int : u = s[i] /\ w = s[j]
      BY <2>1, Zenon
    <3>2. u < w \/ u = w \/ w < u
      OBVIOUS
    <3>3. QED
      BY <3>1, <3>2, Zenon
  <2>3. s[i] # s[j]
    BY <1>7, <2>1
  <2>4. s[j] < s[i] => j - 1 < i - 1
    BY <2>1, <2>2, RankGrows
  <2>5. QED
    BY <1>7, <2>2, <2>3, <2>4
<1>8. ToSet(s) = S
  BY <1>4, <1>5, <1>6 DEF ToSet
<1>9. IsAscending(s)
  BY <1>5, <1>7 DEF IsAscending
<1>10. QED
  BY <1>1, <1>2, <1>5, <1>8, <1>9

(* A function on 1..n is a list.                                         *)
LEMMA FunctionIsList ==
  ASSUME NEW X, NEW n \in Nat, NEW f \in [1..n -> X]
  PROVE  f \in Seq(X)
OBVIOUS

(* What occurs in a list is finite.                                        *)
LEMMA ListIsFinite ==
  ASSUME NEW X, NEW s \in Seq(X)
  PROVE  IsFiniteSet(ToSet(s)) /\ ToSet(s) \in SUBSET X
<1>1. PICK n \in Nat : n = Len(s) /\ DOMAIN s = 1..n /\ s \in [1..n -> X]
  BY LenProperties
<1>2. s \in Surjection(1..n, ToSet(s))
  BY <1>1 DEF Surjection, ToSet
<1>3. IsFiniteSet(1..n)
  BY FS_Interval
<1>4. QED
  BY <1>1, <1>2, <1>3, FS_Surjection DEF ToSet

(* The values on axis a, as they occur.                                    *)
ValuesOn(rows, a) == {rows[n].noise[a] : n \in DOMAIN rows}

LEMMA ValuesOnAxis ==
  ASSUME NEW A, NEW rows \in Seq(Row(A)), NEW a \in A
  PROVE  /\ ValuesOn(rows, a) \in SUBSET Value
         /\ IsFiniteSet(ValuesOn(rows, a))
         /\ rows # <<>> => ValuesOn(rows, a) # {}
<1>1. PICK n \in Nat : n = Len(rows) /\ DOMAIN rows = 1..n /\ \A i \in 1..n : rows[i] \in Row(A)
  BY LenProperties, ElementOfSeq
<1> DEFINE f == [i \in 1..n |-> rows[i].noise[a]]
<1>2. \A i \in 1..n : rows[i].noise[a] \in Value
  BY <1>1 DEF Row
<1>3. f \in Seq(Value) /\ DOMAIN f = 1..n
  BY <1>2
<1>4. ToSet(f) = ValuesOn(rows, a)
  BY <1>1, <1>3 DEF ToSet, ValuesOn
<1> HIDE DEF f
<1>5. IsFiniteSet(ValuesOn(rows, a)) /\ ValuesOn(rows, a) \in SUBSET Value
  BY <1>3, <1>4, ListIsFinite
<1>6. rows # <<>> => 1 \in 1..n
  BY <1>1, EmptySeq
<1>7. rows # <<>> => ValuesOn(rows, a) # {}
  BY <1>1, <1>6 DEF ValuesOn
<1>8. QED
  BY <1>5, <1>7

LEMMA SortedValues ==
  ASSUME NEW A, NEW rows \in Seq(Row(A)), NEW a \in A
  PROVE  /\ Ascending(ValuesOn(rows, a)) \in Seq(Value)
         /\ ToSet(Ascending(ValuesOn(rows, a))) = ValuesOn(rows, a)
         /\ rows # <<>> => Ascending(ValuesOn(rows, a)) # <<>>
<1>1. PICK S : S = ValuesOn(rows, a)
  OBVIOUS
<1>2. S \in SUBSET Value /\ IsFiniteSet(S) /\ (rows # <<>> => S # {})
  BY <1>1, ValuesOnAxis
<1>3. S \in SUBSET Int
  BY <1>2 DEF Value
<1>4. Ascending(S) \in Seq(S) /\ ToSet(Ascending(S)) = S
  BY <1>2, <1>3, AscendingIs
<1>5. Ascending(S) \in Seq(Value)
  BY <1>2, <1>4
<1>6. ToSet(<<>>) = {}
  BY DEF ToSet
<1>7. QED
  BY <1>1, <1>2, <1>4, <1>5, <1>6

-----------------------------------------------------------------------------
(* The signature of a sweep                                                *)

(* sig describes the axes of rows.                                         *)
IsSweepSignature(sig, rows) ==
  /\ sig = [axisNames |-> sig.axisNames, axisValues |-> sig.axisValues,
            axisValueHashes |-> sig.axisValueHashes]
  /\ sig.axisNames \in Seq(Axis)
  /\ ToSet(sig.axisNames) = IF rows = <<>> THEN {} ELSE DOMAIN rows[1].noise
  /\ sig.axisValues \in [ToSet(sig.axisNames) -> Seq(Value)]
  /\ \A a \in ToSet(sig.axisNames) :
       sig.axisValues[a] # <<>> /\ sig.axisValues[a] = Ascending(ValuesOn(rows, a))
  /\ sig.axisValueHashes = [n \in DOMAIN sig.axisNames |-> sig.axisValues[sig.axisNames[n]]]
  /\ sig.axisValueHashes \in Seq(Seq(Value))

LEMMA AxesAreOfRows ==
  ASSUME NEW A \in SUBSET Axis, NEW rows \in Seq(Row(A))
  PROVE  IsSweepSignature(AxisSignature(ExtractAxes(rows)), rows)
<1> DEFINE names == IF rows = <<>> THEN <<>> ELSE Keep(AxisOrder, DOMAIN rows[1].noise)
           values == [a \in ToSet(names) |-> Ascending(ValuesOn(rows, a))]
           hashes == [n \in DOMAIN names |-> values[names[n]]]
           sig == AxisSignature(ExtractAxes(rows))
<1>1. sig = [axisNames |-> names, axisValues |-> values, axisValueHashes |-> hashes]
  <2>1. ExtractAxes(rows) = [names |-> names, values |-> values]
    BY Zenon DEF ExtractAxes, ValuesOn
  <2>2. PICK axes : axes = ExtractAxes(rows)
    OBVIOUS
  <2>3. axes.names = names /\ axes.values = values
    <3>1. \A N, V : axes = [names |-> N, values |-> V] => axes.names = N /\ axes.values = V
      OBVIOUS
    <3>2. QED
      BY <2>1, <2>2, <3>1, Zenon
  <2>4. AxisSignature(axes) =
          [axisNames |-> axes.names, axisValues |-> axes.values,
           axisValueHashes |-> [n \in DOMAIN axes.names |-> axes.values[axes.names[n]]]]
    BY Zenon DEF AxisSignature
  <2>5. QED
    BY <2>2, <2>3, <2>4, Zenon
<1>2. rows # <<>> => rows[1] \in Row(A) /\ DOMAIN rows[1].noise = A
  <2>1. rows # <<>> => rows[1] \in Row(A)
    <3>1. PICK n \in Nat : n = Len(rows) /\ \A i \in 1..n : rows[i] \in Row(A)
      BY LenProperties, ElementOfSeq
    <3>2. rows # <<>> => 1 \in 1..n
      BY <3>1, EmptySeq
    <3>3. QED
      BY <3>1, <3>2
  <2>2. QED
    BY <2>1 DEF Row
<1>3. names \in Seq(Axis) /\ ToSet(names) = (IF rows = <<>> THEN {} ELSE A)
  <2>1. CASE rows = <<>>
    BY <2>1, EmptySeq DEF ToSet
  <2>2. CASE rows # <<>>
    <3>1. AxisOrder \in Seq(Axis) /\ ToSet(AxisOrder) = Axis
      BY RowAssumption DEF Axis
    <3>2. names = Keep(AxisOrder, A)
      BY <1>2, <2>2
    <3>3. Keep(AxisOrder, A) \in Seq(Axis) /\ ToSet(Keep(AxisOrder, A)) = Axis \cap A
      BY <3>1, KeepSet
    <3>4. Axis \cap A = A
      OBVIOUS
    <3>5. QED
      BY <2>2, <3>2, <3>3, <3>4, Zenon
  <2>3. QED
    BY <2>1, <2>2
<1> HIDE DEF names
<1>4. \A a \in ToSet(names) : rows # <<>> /\ a \in A
  BY <1>3
<1>5. \A a \in ToSet(names) :
        Ascending(ValuesOn(rows, a)) \in Seq(Value) /\ Ascending(ValuesOn(rows, a)) # <<>>
  BY <1>4, SortedValues, Zenon
<1>6. /\ values \in [ToSet(names) -> Seq(Value)]
      /\ \A a \in ToSet(names) : values[a] # <<>> /\ values[a] = Ascending(ValuesOn(rows, a))
  BY <1>5
<1> HIDE DEF values
<1>7. hashes \in Seq(Seq(Value))
  <2>1. PICK n \in Nat : n = Len(names) /\ DOMAIN names = 1..n /\ \A i \in 1..n : names[i] \in ToSet(names)
    BY <1>3, LenProperties DEF ToSet
  <2>2. hashes \in [1..n -> Seq(Value)]
    BY <1>6, <2>1
  <2>3. QED
    BY <2>2
<1> HIDE DEF hashes
<1>8. sig.axisNames = names /\ sig.axisValues = values /\ sig.axisValueHashes = hashes
  BY <1>1
<1>9. hashes = [n \in DOMAIN names |-> values[names[n]]]
  BY DEF hashes
<1>10. ToSet(names) = IF rows = <<>> THEN {} ELSE DOMAIN rows[1].noise
  BY <1>2, <1>3
<1> HIDE DEF sig
<1>11. IsSweepSignature(sig, rows)
  BY <1>1, <1>3, <1>6, <1>7, <1>8, <1>9, <1>10, Zenon DEF IsSweepSignature
<1>12. QED
  BY <1>11 DEF sig

(* The members of a list, each once.                                       *)
LEMMA AppendNewSet ==
  ASSUME NEW X, NEW xs \in Seq(X)
  PROVE  AppendNew(<<>>, xs) \in Seq(X) /\ ToSet(AppendNew(<<>>, xs)) = ToSet(xs)
<1>1. <<>> \in Seq(X) /\ Len(<<>>) = 0
  BY EmptySeq
<1>2. PICK r \in Seq(X) : r = AppendNew(<<>>, xs) /\ IsExtension(r, <<>>, xs, Len(xs))
  BY <1>1, AppendNewIs
<1>3. PICK n \in Nat, m \in Nat :
        n = Len(r) /\ DOMAIN r = 1..n /\ m = Len(xs) /\ DOMAIN xs = 1..m
  BY LenProperties
<1>4. /\ \A i \in 1..n : \E k \in 1..m : r[i] = xs[k]
      /\ \A k \in 1..m : \E i \in 1..n : r[i] = xs[k]
  BY <1>1, <1>2, <1>3 DEF IsExtension
<1>5. ToSet(r) = ToSet(xs)
  <2>1. ToSet(r) = {r[i] : i \in 1..n} /\ ToSet(xs) = {xs[k] : k \in 1..m}
    BY <1>3 DEF ToSet
  <2>2. ASSUME NEW i \in 1..n PROVE r[i] \in {xs[k] : k \in 1..m}
    <3>1. PICK k \in 1..m : r[i] = xs[k]
      BY <1>4
    <3>2. QED
      BY <3>1
  <2>3. ASSUME NEW k \in 1..m PROVE xs[k] \in {r[i] : i \in 1..n}
    <3>1. PICK i \in 1..n : r[i] = xs[k]
      BY <1>4
    <3>2. QED
      BY <3>1
  <2>4. QED
    BY <2>1, <2>2, <2>3
<1>6. QED
  BY <1>2, <1>5

LEMMA EmptySet == ToSet(<<>>) = {}
  BY DEF ToSet

(* A list with a member is not empty.                                      *)
LEMMA NotEmpty ==
  ASSUME NEW X, NEW s \in Seq(X)
  PROVE  s # <<>> <=> ToSet(s) # {}
<1>1. PICK n \in Nat : n = Len(s) /\ DOMAIN s = 1..n
  BY LenProperties
<1>2. s # <<>> => 1 \in 1..n
  BY <1>1, EmptySeq
<1>3. s # <<>> => ToSet(s) # {}
  BY <1>1, <1>2 DEF ToSet
<1>4. QED
  BY <1>3, EmptySet

-----------------------------------------------------------------------------
(* The layers of a sweep                                                   *)

LEMMA KeysAre ==
  ASSUME NEW A, NEW rows \in Seq(Row(A))
  PROVE  /\ [n \in DOMAIN rows |-> rows[n].key] \in Seq(KeysOf(rows))
         /\ ToSet([n \in DOMAIN rows |-> rows[n].key]) = KeysOf(rows)
         /\ KeysOf(rows) \in SUBSET Seq(Column)
         /\ IsFiniteSet(KeysOf(rows))
<1> DEFINE ks == [n \in DOMAIN rows |-> rows[n].key]
<1>1. PICK n \in Nat : n = Len(rows) /\ DOMAIN rows = 1..n /\ \A i \in 1..n : rows[i] \in Row(A)
  BY LenProperties, ElementOfSeq
<1>2. KeysOf(rows) \in SUBSET Seq(Column)
  BY <1>1 DEF Row, KeysOf
<1>3. ks \in Seq(KeysOf(rows)) /\ ToSet(ks) = KeysOf(rows)
  <2>1. \A i \in 1..n : rows[i].key \in KeysOf(rows)
    BY <1>1 DEF KeysOf
  <2>2. ks \in [1..n -> KeysOf(rows)]
    BY <1>1, <2>1
  <2>3. ks \in Seq(KeysOf(rows)) /\ DOMAIN ks = 1..n
    BY <2>2
  <2>4. ToSet(ks) = KeysOf(rows)
    BY <1>1, <2>3, Zenon DEF ToSet, KeysOf
  <2>5. QED
    BY <2>3, <2>4
<1> HIDE DEF ks
<1>4. IsFiniteSet(KeysOf(rows))
  BY <1>3, ListIsFinite
<1>5. QED
  BY <1>2, <1>3, <1>4 DEF ks

LEMMA GroupKeysAre ==
  ASSUME NEW A, NEW rows \in Seq(Row(A))
  PROVE  /\ GroupKeys(rows) \in Seq(KeysOf(rows))
         /\ ToSet(GroupKeys(rows)) = KeysOf(rows)
<1>1. PICK K : K = KeysOf(rows)
  OBVIOUS
<1>2. PICK ks : ks = [n \in DOMAIN rows |-> rows[n].key]
  OBVIOUS
<1>3. ks \in Seq(K) /\ ToSet(ks) = K /\ K \in SUBSET Seq(Column) /\ IsFiniteSet(K)
  BY <1>1, <1>2, KeysAre, Zenon
<1> DEFINE I == {k \in K : IsIndex(k)}
           O == {k \in K : ~IsIndex(k)}
           S == {k[1] : k \in I}
<1>4. \A k \in I : k[1] \in Nat /\ k = <<k[1]>>
  BY <1>3 DEF IsIndex
<1>5. S \in SUBSET Int /\ IsFiniteSet(S)
  <2> DEFINE f == [k \in I |-> k[1]]
  <2>1. IsFiniteSet(I)
    <3>1. I \in SUBSET K
      OBVIOUS
    <3>2. QED
      BY <1>3, <3>1, FS_Subset
  <2>2. f \in Surjection(I, S)
    BY Zenon DEF Surjection
  <2> HIDE DEF f
  <2>3. IsFiniteSet(S)
    BY <2>1, <2>2, FS_Surjection
  <2>4. S \in SUBSET Int
    BY <1>4
  <2>5. QED
    BY <2>3, <2>4
<1>6. PICK r : r = Ascending(S)
  OBVIOUS
<1>7. r \in Seq(S) /\ ToSet(r) = S
  BY <1>5, <1>6, AscendingIs
<1>8. PICK m \in Nat : m = Len(r) /\ DOMAIN r = 1..m /\ \A i \in 1..m : r[i] \in S
  BY <1>7, LenProperties, ElementOfSeq
<1>9. PICK firsts : firsts = [n \in DOMAIN r |-> <<r[n]>>]
  OBVIOUS
<1>10. firsts \in Seq(K) /\ ToSet(firsts) = I
  <2>1. \A v \in S : <<v>> \in I
    BY <1>4, Zenon
  <2>2. \A i \in 1..m : <<r[i]>> \in I
    BY <1>8, <2>1
  <2>3. DOMAIN firsts = 1..m /\ \A i \in 1..m : firsts[i] = <<r[i]>>
    BY <1>8, <1>9
  <2>4. firsts \in Seq(K)
    <3>1. firsts \in [1..m -> K]
      BY <1>8, <1>9, <2>2
    <3>2. QED
      BY <3>1
  <2>5. \A k \in I : \E i \in 1..m : firsts[i] = k
    <3>1. SUFFICES ASSUME NEW k \in I PROVE \E i \in 1..m : firsts[i] = k
      OBVIOUS
    <3>2. k[1] \in ToSet(r)
      BY <1>7
    <3>3. PICK i \in 1..m : r[i] = k[1]
      BY <1>8, <3>2 DEF ToSet
    <3>4. firsts[i] = k
      BY <1>4, <2>3, <3>3
    <3>5. QED
      BY <3>4
  <2>6. ToSet(firsts) = I
    <3>1. ToSet(firsts) = {firsts[i] : i \in 1..m}
      BY <2>3, Zenon DEF ToSet
    <3>2. \A i \in 1..m : firsts[i] \in I
      BY <2>2, <2>3, Zenon
    <3>3. QED
      BY <2>5, <3>1, <3>2, Zenon
  <2>7. QED
    BY <2>4, <2>6
<1> HIDE DEF I, O, S
<1>11. PICK rest : rest = AppendNew(<<>>, Keep(ks, O))
  OBVIOUS
<1>12. rest \in Seq(K) /\ ToSet(rest) = O
  <2>1. Keep(ks, O) \in Seq(K) /\ ToSet(Keep(ks, O)) = K \cap O
    BY <1>3, KeepSet
  <2>2. K \cap O = O
    BY DEF O
  <2>3. QED
    BY <1>11, <2>1, <2>2, AppendNewSet
<1>13. GroupKeys(rows) = firsts \o rest
  BY <1>1, <1>2, <1>6, <1>9, <1>11, Zenon DEF GroupKeys, I, O, S
<1>14. I \cup O = K
  BY DEF I, O
<1>15. firsts \o rest \in Seq(K) /\ ToSet(firsts \o rest) = K
  <2>1. ToSet(firsts \o rest) = ToSet(firsts) \cup ToSet(rest)
    BY <1>10, <1>12, ConcatSet
  <2>2. firsts \o rest \in Seq(K)
    BY <1>10, <1>12, ConcatProperties
  <2>3. QED
    BY <1>10, <1>12, <1>14, <2>1, <2>2, Zenon
<1>16. QED
  BY <1>1, <1>13, <1>15

(* A layer for every key, all visible.                                     *)
LEMMA NormalizeIs ==
  ASSUME NEW t \in SweepTask
  PROVE  /\ NormalizeSweep(t) \in Seq(Layer)
         /\ \A n \in DOMAIN NormalizeSweep(t) : SourceTask(NormalizeSweep(t)[n].id) = t
         /\ RowsOf[t] # <<>> => NormalizeSweep(t) # <<>>
<1>1. PICK A \in SUBSET Axis : RowsOf[t] \in Seq(Row(A))
  BY RowAssumption
<1>2. PICK K : K = KeysOf(RowsOf[t])
  OBVIOUS
<1>3. PICK ks : ks = GroupKeys(RowsOf[t])
  OBVIOUS
<1>4. ks \in Seq(K) /\ ToSet(ks) = K
  BY <1>1, <1>2, <1>3, GroupKeysAre
<1>5. PICK n \in Nat : n = Len(ks) /\ DOMAIN ks = 1..n /\ \A i \in 1..n : ks[i] \in K
  BY <1>4, LenProperties, ElementOfSeq
<1>6. PICK new : new = NormalizeSweep(t)
  OBVIOUS
<1>7. new = [i \in 1..n |-> [id |-> <<t, ks[i]>>, visible |-> TRUE]]
  BY <1>3, <1>5, <1>6, Zenon DEF NormalizeSweep
<1>8. \A k \in K : <<t, k>> \in LayerId
  <2>1. \A k \in K : <<t, k>> \in {t} \X KeysOf(RowsOf[t])
    BY <1>2
  <2>2. {t} \X KeysOf(RowsOf[t]) \subseteq LayerId
    BY Zenon DEF LayerId
  <2>3. QED
    BY <2>1, <2>2, Zenon
<1>9. \A i \in 1..n : [id |-> <<t, ks[i]>>, visible |-> TRUE] \in Layer
  BY <1>5, <1>8 DEF Layer
<1>10. new \in Seq(Layer) /\ DOMAIN new = 1..n /\ Len(new) = n
  <2>1. new \in [1..n -> Layer]
    BY <1>7, <1>9
  <2>2. QED
    BY <2>1
<1>11. \A i \in 1..n : SourceTask(new[i].id) = t
  BY <1>7 DEF SourceTask
<1>12. RowsOf[t] # <<>> => K # {}
  <2>1. [i \in DOMAIN RowsOf[t] |-> RowsOf[t][i].key] \in Seq(K)
    BY <1>1, <1>2, KeysAre
  <2>2. PICK m \in Nat : m = Len(RowsOf[t]) /\ DOMAIN RowsOf[t] = 1..m
    BY <1>1, LenProperties
  <2>3. RowsOf[t] # <<>> => 1 \in 1..m
    BY <1>1, <2>2, EmptySeq
  <2>4. QED
    BY <1>2, <2>2, <2>3 DEF KeysOf
<1>13. K # {} => new # <<>>
  <2>1. K # {} => ks # <<>>
    BY <1>4, NotEmpty
  <2>2. ks # <<>> => n # 0
    BY <1>4, <1>5, EmptySeq
  <2>3. Len(<<>>) = 0
    BY EmptySeq
  <2>4. n # 0 => new # <<>>
    BY <1>10, <2>3, Zenon
  <2>5. QED
    BY <2>1, <2>2, <2>4
<1>14. QED
  BY <1>6, <1>10, <1>11, <1>12, <1>13

(* The layers of a tab are of sweeps with rows.                            *)
LEMMA LayerHasRows ==
  ASSUME NEW id \in LayerId
  PROVE  SourceTask(id) \in SweepTask /\ RowsOf[SourceTask(id)] # <<>>
<1>1. PICK t \in SweepTask : id \in {t} \X KeysOf(RowsOf[t])
  BY Zenon DEF LayerId
<1>2. SourceTask(id) = t /\ KeysOf(RowsOf[t]) # {}
  BY <1>1 DEF SourceTask
<1>3. DOMAIN <<>> = {}
  OBVIOUS
<1>4. RowsOf[t] # <<>>
  BY <1>2, <1>3 DEF KeysOf
<1>5. QED
  BY <1>2, <1>4

-----------------------------------------------------------------------------
(* Comparisons                                                             *)

(* The first entry of s with an id, 0 when there is none.                  *)
FirstAt(s, id) == SelectInSeq(s, LAMBDA e : e.id = id)

LEMMA FirstAtIs ==
  ASSUME NEW X, NEW s \in Seq(X), NEW id
  PROVE  /\ FirstAt(s, id) \in 0..Len(s)
         /\ FirstAt(s, id) > 0 <=> \E i \in 1..Len(s) : s[i].id = id
         /\ FirstAt(s, id) > 0 =>
              /\ s[FirstAt(s, id)].id = id
              /\ \A i \in 1..Len(s) : i < FirstAt(s, id) => s[i].id # id
<1>1. PICK n \in Nat : n = Len(s)
  BY LenProperties
<1>2. PICK I : I = {i \in 1..n : s[i].id = id}
  OBVIOUS
<1>3. FirstAt(s, id) = IF I # {} THEN Min(I) ELSE 0
  BY <1>1, <1>2, Zenon DEF FirstAt, SelectInSeq
<1>4. I \in SUBSET Nat /\ I \in SUBSET Int
  BY <1>2
<1>5. CASE I = {}
  BY <1>1, <1>2, <1>3, <1>5
<1>6. CASE I # {}
  <2>1. PICK m \in I : \A i \in I : m <= i
    BY <1>4, <1>6, Least
  <2>2. FirstAt(s, id) = m
    BY <1>3, <1>4, <1>6, <2>1, MinIs
  <2>3. m \in 1..n /\ s[m].id = id
    BY <1>2, <2>1
  <2>4. \A i \in 1..n : i < m => s[i].id # id
    BY <1>2, <2>1, <2>3
  <2>5. QED
    BY <1>1, <2>2, <2>3, <2>4
<1>7. QED
  BY <1>5, <1>6

(* ps are the pairs of one of n places and a later one.                    *)
ArePairs(ps, n) == \A p : p \in ToSet(ps) <=> \E i, j \in 1..n : i < j /\ p = <<i, j>>

LEMMA PairsAre ==
  ASSUME NEW X, NEW layers \in Seq(X), NEW n \in Nat, n = Len(layers)
  PROVE  /\ Pairs(layers) \in Seq((1..n) \X (1..n))
         /\ ArePairs(Pairs(layers), n)
<1> DEFINE P == (1..n) \X (1..n)
           From(i) == [k \in 1..(n - i) |-> <<i, i + k>>]
<1>1. PICK ss : ss = [i \in 1..n |-> From(i)]
  OBVIOUS
<1>2. Pairs(layers) = FlattenSeq(ss)
  BY <1>1, Zenon DEF Pairs
<1>3. ASSUME NEW i \in 1..n
      PROVE  From(i) \in Seq(P) /\ DOMAIN From(i) = 1..(n - i)
  <2>1. n - i \in Nat
    OBVIOUS
  <2>2. \A k \in 1..(n - i) : i + k \in 1..n
    OBVIOUS
  <2>3. From(i) \in [1..(n - i) -> P]
    BY <2>2
  <2>4. QED
    BY <2>1, <2>3
<1>4. ss \in Seq(Seq(P)) /\ Len(ss) = n /\ DOMAIN ss = 1..n /\ \A i \in 1..n : ss[i] = From(i)
  <2>1. ss \in [1..n -> Seq(P)]
    BY <1>1, <1>3
  <2>2. QED
    BY <1>1, <2>1
<1>5. FlattenSeq(ss) \in Seq(P) /\ IsUnion(FlattenSeq(ss), ss)
  BY <1>4, FlattenIsUnion
<1>6. ToSet(FlattenSeq(ss)) = UNION {ToSet(ss[i]) : i \in 1..n}
  BY <1>4, <1>5, Zenon DEF IsUnion
<1>7. ASSUME NEW p, p \in ToSet(FlattenSeq(ss)) PROVE \E i, j \in 1..n : i < j /\ p = <<i, j>>
  <2>1. PICK i \in 1..n : p \in ToSet(ss[i])
    BY <1>6, <1>7
  <2>2. p \in ToSet(From(i))
    BY <1>4, <2>1
  <2>3. PICK k \in 1..(n - i) : p = <<i, i + k>>
    BY <1>3, <2>2, Zenon DEF ToSet
  <2>4. i + k \in 1..n /\ i < i + k
    OBVIOUS
  <2>5. QED
    BY <2>3, <2>4
<1>8. ASSUME NEW i \in 1..n, NEW j \in 1..n, i < j PROVE <<i, j>> \in ToSet(FlattenSeq(ss))
  <2>1. j - i \in 1..(n - i) /\ i + (j - i) = j
    BY <1>8
  <2>2. From(i)[j - i] = <<i, j>>
    BY <2>1
  <2>3. <<i, j>> \in ToSet(From(i))
    BY <1>3, <2>1, <2>2, Zenon DEF ToSet
  <2>4. QED
    BY <1>4, <1>6, <2>3
<1> HIDE DEF From
<1>9. ArePairs(FlattenSeq(ss), n)
  BY <1>7, <1>8 DEF ArePairs
<1>10. QED
  BY <1>2, <1>5, <1>9

(* The ids of the pairs of a list of layers.                               *)
PairsIn(layers) ==
  {p \in LayerId \X LayerId :
     \E i, j \in 1..Len(layers) : i < j /\ p = <<layers[i].id, layers[j].id>>}

LEMMA PairIdsAre ==
  ASSUME NEW layers \in Seq(Layer)
  PROVE  {<<layers[p[1]].id, layers[p[2]].id>> : p \in ToSet(Pairs(layers))} = PairsIn(layers)
<1>1. PICK n \in Nat : n = Len(layers) /\ \A i \in 1..n : layers[i] \in Layer
  BY LenProperties, ElementOfSeq
<1>2. \A p : p \in ToSet(Pairs(layers)) <=> \E i, j \in 1..n : i < j /\ p = <<i, j>>
  <2>1. ArePairs(Pairs(layers), n)
    BY <1>1, PairsAre
  <2>2. QED
    BY <2>1 DEF ArePairs
<1>3. \A i \in 1..n : layers[i].id \in LayerId
  BY <1>1 DEF Layer
<1>4. ASSUME NEW p \in ToSet(Pairs(layers)) PROVE <<layers[p[1]].id, layers[p[2]].id>> \in PairsIn(layers)
  <2>1. PICK i \in 1..n, j \in 1..n : i < j /\ p = <<i, j>>
    BY <1>2
  <2>2. p[1] = i /\ p[2] = j
    BY <2>1
  <2>3. QED
    BY <1>1, <1>3, <2>1, <2>2 DEF PairsIn
<1>5. ASSUME NEW q \in PairsIn(layers)
      PROVE  q \in {<<layers[p[1]].id, layers[p[2]].id>> : p \in ToSet(Pairs(layers))}
  <2>1. PICK i \in 1..n, j \in 1..n : i < j /\ q = <<layers[i].id, layers[j].id>>
    BY <1>1, <1>5 DEF PairsIn
  <2>2. <<i, j>> \in ToSet(Pairs(layers))
    BY <1>2, <2>1
  <2>3. PICK p : p = <<i, j>>
    OBVIOUS
  <2>4. p \in ToSet(Pairs(layers)) /\ q = <<layers[p[1]].id, layers[p[2]].id>>
    BY <2>1, <2>2, <2>3
  <2>5. QED
    BY <2>4
<1>6. QED
  BY <1>4, <1>5

(* The setting the list cs has for a pair of layers.                       *)
SettingIn(cs, p) == SettingOf(cs[FirstAt(cs, p)])
Has(cs, p) == \E n \in 1..Len(cs) : cs[n].id = p

(* r is a comparison list for the pairs of these layers, with the settings *)
(* of the list existing where that has any.                                *)
IsSync(r, layers, existing) ==
  /\ r \in Seq(Comparison)
  /\ \A p : Has(r, p) <=> p \in PairsIn(layers)
  /\ \A p \in PairsIn(layers) :
       SettingIn(r, p) = IF Has(existing, p) THEN SettingIn(existing, p) ELSE DefaultSetting

(* What the comparison of the n-th pair is.                                *)
Synced(layers, existing, p) ==
  IF FirstAt(existing, p) > 0 THEN existing[FirstAt(existing, p)] ELSE DefaultComparison(p)

LEMMA SyncedIs ==
  ASSUME NEW layers \in Seq(Layer), NEW existing \in Seq(Comparison), NEW p \in LayerId \X LayerId
  PROVE  /\ Synced(layers, existing, p) \in Comparison
         /\ Synced(layers, existing, p).id = p
         /\ SettingOf(Synced(layers, existing, p)) =
              IF Has(existing, p) THEN SettingIn(existing, p) ELSE DefaultSetting
<1>1. PICK m \in Nat : m = Len(existing) /\ \A i \in 1..m : existing[i] \in Comparison
  BY LenProperties, ElementOfSeq
<1>2. PICK f \in 0..m : f = FirstAt(existing, p)
  BY <1>1, FirstAtIs
<1>3. (f > 0 <=> Has(existing, p)) /\ (f > 0 => existing[f].id = p)
  BY <1>2, FirstAtIs DEF Has
<1>4. CASE f > 0
  <2>1. f \in 1..m
    BY <1>4
  <2>2. Synced(layers, existing, p) = existing[f]
    BY <1>2, <1>4, Zenon DEF Synced
  <2>3. QED
    BY <1>1, <1>2, <1>3, <1>4, <2>1, <2>2 DEF SettingIn
<1>5. CASE ~(f > 0)
  <2>1. Synced(layers, existing, p) = [id |-> p, thresholds |-> <<1>>, visible |-> TRUE]
    BY <1>2, <1>5, Zenon DEF Synced, DefaultComparison
  <2>2. <<1>> \in Seq(Threshold)
    BY TabAssumption
  <2>3. [id |-> p, thresholds |-> <<1>>, visible |-> TRUE] \in Comparison
    BY <2>2 DEF Comparison
  <2>4. QED
    BY <1>3, <1>5, <2>1, <2>3 DEF SettingOf, DefaultSetting
<1>6. QED
  BY <1>4, <1>5

LEMMA SyncIs ==
  ASSUME NEW layers \in Seq(Layer), NEW existing \in Seq(Comparison)
  PROVE  IsSync(SyncComparisons(layers, existing), layers, existing)
<1>1. PICK n \in Nat : n = Len(layers) /\ \A i \in 1..n : layers[i] \in Layer
  BY LenProperties, ElementOfSeq
<1>2. PICK pairs \in Seq((1..n) \X (1..n)) : pairs = Pairs(layers)
  BY <1>1, PairsAre
<1>3. PICK l \in Nat : l = Len(pairs) /\ DOMAIN pairs = 1..l /\ \A k \in 1..l : pairs[k] \in (1..n) \X (1..n)
  BY LenProperties, ElementOfSeq
<1> DEFINE Id(k) == <<layers[pairs[k][1]].id, layers[pairs[k][2]].id>>
<1>4. \A k \in 1..l : Id(k) \in LayerId \X LayerId
  BY <1>1, <1>3 DEF Layer
<1>5. PICK r : r = SyncComparisons(layers, existing)
  OBVIOUS
<1>6. r = [k \in 1..l |-> Synced(layers, existing, Id(k))]
  <2>1. r = [k \in DOMAIN pairs |-> Synced(layers, existing, Id(k))]
    BY <1>2, <1>5, Zenon DEF SyncComparisons, Synced, FirstAt, SelectInSeq
  <2>2. QED
    BY <1>3, <2>1, Zenon
<1>7. PairsIn(layers) = {Id(k) : k \in 1..l}
  <2>1. {<<layers[p[1]].id, layers[p[2]].id>> : p \in ToSet(pairs)} = PairsIn(layers)
    BY <1>2, PairIdsAre, Zenon
  <2>2. ToSet(pairs) = {pairs[k] : k \in 1..l}
    BY <1>3, Zenon DEF ToSet
  <2>3. QED
    BY <2>1, <2>2
<1> HIDE DEF Id
<1>8. \A k \in 1..l :
        /\ r[k] = Synced(layers, existing, Id(k))
        /\ r[k] \in Comparison
        /\ r[k].id = Id(k)
        /\ SettingOf(r[k]) = IF Has(existing, Id(k)) THEN SettingIn(existing, Id(k)) ELSE DefaultSetting
  BY <1>4, <1>6, SyncedIs
<1>9. r \in Seq(Comparison) /\ Len(r) = l
  <2>1. r \in [1..l -> Comparison]
    BY <1>6, <1>8
  <2>2. QED
    BY <2>1
<1>10. \A p : Has(r, p) <=> p \in PairsIn(layers)
  BY <1>7, <1>8, <1>9 DEF Has
<1>11. ASSUME NEW p \in PairsIn(layers)
       PROVE  SettingIn(r, p) = IF Has(existing, p) THEN SettingIn(existing, p) ELSE DefaultSetting
  <2>1. PICK f \in 1..l : f = FirstAt(r, p) /\ r[f].id = p
    <3>1. Has(r, p)
      BY <1>10, <1>11
    <3>2. FirstAt(r, p) \in 0..l /\ FirstAt(r, p) > 0 /\ r[FirstAt(r, p)].id = p
      BY <1>9, <3>1, FirstAtIs DEF Has
    <3>3. QED
      BY <3>2
  <2>2. Id(f) = p
    BY <1>8, <2>1
  <2>3. SettingOf(r[f]) = IF Has(existing, p) THEN SettingIn(existing, p) ELSE DefaultSetting
    BY <1>8, <2>2
  <2>4. QED
    BY <2>1, <2>3, Zenon DEF SettingIn
<1>12. QED
  BY <1>5, <1>9, <1>10, <1>11, Zenon DEF IsSync

-----------------------------------------------------------------------------
(* Data and slices                                                         *)

AxesOf(task) == SignatureOf[task].axisNames

LEMMA SignatureIs ==
  ASSUME NEW t \in SweepTask
  PROVE  /\ IsSweepSignature(SignatureOf[t], RowsOf[t])
         /\ SignatureOf[t] \in Signature(ToSet(AxesOf(t)))
         /\ ToSet(AxesOf(t)) \in SUBSET Axis
<1>1. PICK A \in SUBSET Axis : RowsOf[t] \in Seq(Row(A))
  BY RowAssumption
<1>2. PICK sig : sig = SignatureOf[t]
  OBVIOUS
<1>3. SignatureOf[t] = AxisSignature(ExtractAxes(RowsOf[t]))
  BY Zenon DEF SignatureOf
<1>4. IsSweepSignature(sig, RowsOf[t])
  BY <1>1, <1>2, <1>3, AxesAreOfRows
<1>5. /\ sig = [axisNames |-> sig.axisNames, axisValues |-> sig.axisValues,
                axisValueHashes |-> sig.axisValueHashes]
      /\ sig.axisNames \in Seq(Axis)
      /\ sig.axisValues \in [ToSet(sig.axisNames) -> Seq(Value)]
      /\ sig.axisValueHashes \in Seq(Seq(Value))
  BY <1>4, Zenon DEF IsSweepSignature
<1>6. sig \in Signature(ToSet(sig.axisNames))
  BY <1>5 DEF Signature
<1>7. ToSet(sig.axisNames) \in SUBSET Axis
  BY <1>5, ListIsFinite
<1>8. sig.axisNames = AxesOf(t)
  BY <1>2, Zenon DEF AxesOf
<1>9. QED
  BY <1>2, <1>4, <1>6, <1>7, <1>8, Zenon

(* A sweep with rows has the axes of each of its rows.                     *)
LEMMA AxesOfRows ==
  ASSUME NEW t \in SweepTask, RowsOf[t] # <<>>
  PROVE  RowsOf[t] \in Seq(Row(ToSet(AxesOf(t))))
<1>1. PICK A \in SUBSET Axis : RowsOf[t] \in Seq(Row(A))
  BY RowAssumption
<1>2. PICK n \in Nat : n = Len(RowsOf[t]) /\ \A i \in 1..n : RowsOf[t][i] \in Row(A)
  BY <1>1, LenProperties, ElementOfSeq
<1>3. 1 \in 1..n
  BY <1>1, <1>2, EmptySeq
<1>4. DOMAIN RowsOf[t][1].noise = A
  BY <1>2, <1>3 DEF Row
<1>5. ToSet(AxesOf(t)) = DOMAIN RowsOf[t][1].noise
  <2>1. IsSweepSignature(SignatureOf[t], RowsOf[t])
    BY SignatureIs
  <2>2. QED
    BY <2>1, Zenon DEF IsSweepSignature, AxesOf
<1>6. QED
  BY <1>1, <1>4, <1>5

Datum(A) == [params : [A -> Value], lepr : Int \cup {Zero}]

(* The rows of a layer.                                                    *)
LayerRows(id) == Keep(RowsOf[id[1]], {r \in ToSet(RowsOf[id[1]]) : r.key = id[2]})

LEMMA LayerRowsAre ==
  ASSUME NEW id \in LayerId
  PROVE  /\ LayerRows(id) \in Seq(Row(ToSet(AxesOf(SourceTask(id)))))
         /\ LayerRows(id) # <<>>
<1>1. PICK t \in SweepTask : id \in {t} \X KeysOf(RowsOf[t])
  BY Zenon DEF LayerId
<1>2. id[1] = t /\ id[2] \in KeysOf(RowsOf[t]) /\ SourceTask(id) = t
  BY <1>1 DEF SourceTask
<1>3. PICK A : A = ToSet(AxesOf(t)) /\ RowsOf[t] \in Seq(Row(A))
  BY <1>2, AxesOfRows, LayerHasRows
<1>4. PICK i \in DOMAIN RowsOf[t] : RowsOf[t][i].key = id[2]
  BY <1>2 DEF KeysOf
<1>5. RowsOf[t][i] \in ToSet(RowsOf[t])
  BY <1>4 DEF ToSet
<1>6. PICK S : S = {r \in ToSet(RowsOf[t]) : r.key = id[2]}
  OBVIOUS
<1>7. RowsOf[t][i] \in ToSet(RowsOf[t]) \cap S
  BY <1>4, <1>5, <1>6
<1>8. Keep(RowsOf[t], S) \in Seq(Row(A)) /\ ToSet(Keep(RowsOf[t], S)) = ToSet(RowsOf[t]) \cap S
  BY <1>3, KeepSet
<1>9. LayerRows(id) = Keep(RowsOf[t], S)
  BY <1>2, <1>6, Zenon DEF LayerRows
<1>10. Keep(RowsOf[t], S) # <<>>
  BY <1>7, <1>8, NotEmpty
<1>11. QED
  BY <1>2, <1>3, <1>8, <1>9, <1>10

LEMMA DataIs ==
  ASSUME NEW id \in LayerId
  PROVE  /\ DataOf[id] \in Seq(Datum(ToSet(AxesOf(SourceTask(id)))))
         /\ DataOf[id] # <<>>
         /\ DataOf[id] = [n \in DOMAIN LayerRows(id) |->
                            [params |-> LayerRows(id)[n].noise, lepr |-> LayerRows(id)[n].lepr]]
<1>1. PICK A : A = ToSet(AxesOf(SourceTask(id)))
  OBVIOUS
<1>2. PICK rows : rows = LayerRows(id) /\ rows \in Seq(Row(A)) /\ rows # <<>>
  BY <1>1, LayerRowsAre
<1>3. DataOf[id] = [n \in DOMAIN rows |-> [params |-> rows[n].noise, lepr |-> rows[n].lepr]]
  BY <1>2, Zenon DEF DataOf, LayerRows
<1>4. PICK n \in Nat : n = Len(rows) /\ DOMAIN rows = 1..n /\ \A i \in 1..n : rows[i] \in Row(A)
  BY <1>2, LenProperties, ElementOfSeq
<1>5. \A i \in 1..n : [params |-> rows[i].noise, lepr |-> rows[i].lepr] \in Datum(A)
  BY <1>4 DEF Row, Datum
<1>6. DataOf[id] \in Seq(Datum(A)) /\ Len(DataOf[id]) = n
  <2>1. DataOf[id] \in [1..n -> Datum(A)]
    BY <1>3, <1>4, <1>5
  <2>2. QED
    BY <2>1
<1>7. n # 0 /\ Len(<<>>) = 0
  BY <1>2, <1>4, EmptySeq
<1>8. DataOf[id] # <<>>
  BY <1>6, <1>7, Zenon
<1>9. QED
  BY <1>1, <1>2, <1>3, <1>6, <1>8

IsSlices(f) == \E B \in SUBSET Axis : f \in [B -> Value]
IsSignature(sig) == \E A \in SUBSET Axis : sig \in Signature(A)

LEMMA OverIs ==
  ASSUME NEW f, NEW g, IsSlices(f), IsSlices(g)
  PROVE  IsSlices(Over(f, g)) /\ DOMAIN Over(f, g) = DOMAIN f \cup DOMAIN g
<1>1. PICK A \in SUBSET Axis : f \in [A -> Value]
  BY DEF IsSlices
<1>2. PICK B \in SUBSET Axis : g \in [B -> Value]
  BY DEF IsSlices
<1>3. Over(f, g) \in [A \cup B -> Value]
  BY <1>1, <1>2 DEF Over
<1>4. A \cup B \in SUBSET Axis
  OBVIOUS
<1>5. QED
  BY <1>1, <1>2, <1>3, <1>4 DEF IsSlices

LEMMA FirstValuesAre ==
  ASSUME NEW t \in SweepTask
  PROVE  /\ IsSlices(FirstValues(SignatureOf[t]))
         /\ DOMAIN FirstValues(SignatureOf[t]) = ToSet(AxesOf(t))
<1>1. PICK sig : sig = SignatureOf[t]
  OBVIOUS
<1>2. sig.axisNames = AxesOf(t) /\ IsSweepSignature(sig, RowsOf[t]) /\ ToSet(AxesOf(t)) \in SUBSET Axis
  BY <1>1, SignatureIs DEF AxesOf
<1>3. PICK A \in SUBSET Axis : A = ToSet(sig.axisNames)
  BY <1>2
<1>4. /\ sig.axisValues \in [A -> Seq(Value)]
      /\ \A a \in A : sig.axisValues[a] # <<>>
  BY <1>2, <1>3, Zenon DEF IsSweepSignature
<1>5. \A a \in A : sig.axisValues[a][1] \in Value
  BY <1>4, EmptySeq, ElementOfSeq
<1>6. FirstValues(sig) = [a \in A |-> sig.axisValues[a][1]]
  BY <1>3, Zenon DEF FirstValues
<1>7. FirstValues(sig) \in [A -> Value] /\ DOMAIN FirstValues(sig) = A
  BY <1>5, <1>6
<1>8. QED
  BY <1>1, <1>2, <1>3, <1>7 DEF IsSlices

LEMMA DefaultAxes ==
  ASSUME NEW sig, IsSignature(sig)
  PROVE  /\ MultiValueAxes(sig) \in Seq(Axis)
         /\ DefaultX(sig) \in Axis \cup {NoAxis}
         /\ DefaultY(sig) \in Axis \cup {NoAxis}
<1>1. sig.axisNames \in Seq(Axis)
  BY DEF IsSignature, Signature
<1>2. PICK multi : multi = MultiValueAxes(sig)
  OBVIOUS
<1>3. multi \in Seq(Axis)
  BY <1>1, <1>2, KeepSet DEF MultiValueAxes
<1>4. PICK axes : axes = multi \o sig.axisNames
  OBVIOUS
<1>5. axes \in Seq(Axis)
  BY <1>1, <1>3, <1>4, ConcatProperties
<1>6. axes # <<>> => axes[1] \in Axis
  BY <1>5, EmptySeq, ElementOfSeq
<1>7. Len(multi) > 1 => multi[2] \in Axis
  BY <1>3, ElementOfSeq
<1>8. DefaultX(sig) \in Axis \cup {NoAxis}
  BY <1>2, <1>4, <1>6 DEF DefaultX
<1>9. DefaultY(sig) \in Axis \cup {NoAxis}
  BY <1>2, <1>7 DEF DefaultY
<1>10. QED
  BY <1>2, <1>3, <1>8, <1>9

-----------------------------------------------------------------------------
(* What every tab of the store has                                         *)

IsTab(t) ==
  /\ t = [importedSweepTaskIds |-> t.importedSweepTaskIds, axisSignature |-> t.axisSignature,
          xAxisName |-> t.xAxisName, yAxisName |-> t.yAxisName, sliceValues |-> t.sliceValues,
          layers |-> t.layers, comparisons |-> t.comparisons]
  /\ t.importedSweepTaskIds \in Seq(SweepTask)
  /\ t.axisSignature = Null \/ IsSignature(t.axisSignature)
  /\ t.xAxisName \in Axis \cup {NoAxis} /\ t.yAxisName \in Axis \cup {NoAxis}
  /\ IsSlices(t.sliceValues)
  /\ t.layers \in Seq(Layer)
  /\ t.comparisons \in Seq(Comparison)

LEMMA TabIsTyped ==
  ASSUME NEW t
  PROVE  IsTab(t) <=> \E A, B \in SUBSET Axis : t \in Tab(A, B)
<1>1. ASSUME IsTab(t) PROVE \E A, B \in SUBSET Axis : t \in Tab(A, B)
  <2>1. PICK B \in SUBSET Axis : t.sliceValues \in [B -> Value]
    BY <1>1 DEF IsTab, IsSlices
  <2>2. PICK A \in SUBSET Axis : t.axisSignature \in Signature(A) \cup {Null}
    BY <1>1 DEF IsTab, IsSignature
  <2>3. t \in Tab(A, B)
    BY <1>1, <2>1, <2>2 DEF IsTab, Tab
  <2>4. QED
    BY <2>3
<1>2. ASSUME NEW A \in SUBSET Axis, NEW B \in SUBSET Axis, t \in Tab(A, B) PROVE IsTab(t)
  <2>1. IsSlices(t.sliceValues)
    BY <1>2 DEF Tab, IsSlices
  <2>2. t.axisSignature = Null \/ IsSignature(t.axisSignature)
    BY <1>2 DEF Tab, IsSignature
  <2>3. QED
    BY <1>2, <2>1, <2>2 DEF Tab, IsTab
<1>3. QED
  BY <1>1, <1>2

NullIsNoSignature == \A sig : IsSignature(sig) => sig # Null

LEMMA SignatureNotNull == NullIsNoSignature
  BY NullAssumption DEF IsSignature, NullIsNoSignature

LEMMA TabNotNull == \A t : IsTab(t) => t # Null
<1>1. \A t : IsTab(t) => \E A, B \in SUBSET Axis : t \in Tab(A, B)
  BY TabIsTyped
<1>2. QED
  BY <1>1, NullAssumption

TasksOf(layers) == {SourceTask(l.id) : l \in ToSet(layers)}

(* The repair of an old entry is not to come, or there are no layers.      *)
HasValues(t) == t.axisSignature # Null /\ t.axisSignature.axisValues # NoValues

SlicesCover(slices, layers) ==
  \A l \in ToSet(layers) : ToSet(AxesOf(SourceTask(l.id))) \subseteq DOMAIN slices

(* The layers of an entry to be repaired have the names of its signature.  *)
OldAxes(t) ==
  t.axisSignature # Null /\ ~HasValues(t) /\ t.axisSignature.axisNames # <<>> =>
    \A l \in ToSet(t.layers) : AxesOf(SourceTask(l.id)) = t.axisSignature.axisNames

CoversPairs(t) ==
  t.comparisons = <<>> \/ \A p : Has(t.comparisons, p) <=> p \in PairsIn(t.layers)

GoodTab(t) ==
  /\ IsTab(t)
  /\ t.axisSignature = Null <=> t.layers = <<>>
  /\ ToSet(t.importedSweepTaskIds) = TasksOf(t.layers)
  /\ CoversPairs(t)
  /\ HasValues(t) => SlicesCover(t.sliceValues, t.layers)
  /\ OldAxes(t)

(* The layers of a tab and its signature: all of one sweep's axes.         *)
SharesAxes(t) ==
  \A l \in ToSet(t.layers) : IsCompatible(t.axisSignature, SignatureOf[SourceTask(l.id)])

LEMMA TasksOfLayers ==
  ASSUME NEW layers \in Seq(Layer)
  PROVE  /\ TasksOf(layers) = {SourceTask(id) : id \in ToSet(ToIds(layers))}
         /\ TasksOf(layers) \in SUBSET SweepTask
<1>1. PICK n \in Nat : n = Len(layers) /\ DOMAIN layers = 1..n /\ \A i \in 1..n : layers[i] \in Layer
  BY LenProperties, ElementOfSeq
<1>2. ToSet(layers) = {layers[i] : i \in 1..n}
  BY <1>1, Zenon DEF ToSet
<1>3. ToSet(ToIds(layers)) = {layers[i].id : i \in 1..n}
  <2>1. DOMAIN ToIds(layers) = 1..n /\ \A i \in 1..n : ToIds(layers)[i] = layers[i].id
    BY <1>1 DEF ToIds
  <2>2. QED
    BY <2>1 DEF ToSet
<1>4. \A i \in 1..n : SourceTask(layers[i].id) \in SweepTask
  BY <1>1, LayerHasRows DEF Layer
<1>5. QED
  BY <1>2, <1>3, <1>4 DEF TasksOf

(* addTab makes a good tab, and so was an entry of an older version.       *)
LEMMA EmptyListIs == Len(<<>>) = 0 /\ DOMAIN <<>> = {} /\ 1..0 = {}
  OBVIOUS

LEMMA NoLayers == PairsIn(<<>>) = {} /\ TasksOf(<<>>) = {}
  BY EmptyListIs, EmptySet DEF PairsIn, TasksOf

LEMMA NoSlices == IsSlices(NoValues) /\ DOMAIN NoValues = {}
<1>1. NoValues \in [{} -> Value] /\ DOMAIN NoValues = {}
  BY DEF NoValues
<1>2. {} \in SUBSET Axis
  OBVIOUS
<1>3. QED
  BY <1>1, <1>2 DEF IsSlices

LEMMA FreshIsGood == GoodTab(FreshTab)
<1>1. PICK t : t = FreshTab
  OBVIOUS
<1>2. t = [importedSweepTaskIds |-> <<>>, axisSignature |-> Null,
           xAxisName |-> NoAxis, yAxisName |-> NoAxis, sliceValues |-> NoValues,
           layers |-> <<>>, comparisons |-> <<>>]
  BY <1>1 DEF FreshTab
<1>3. /\ t.importedSweepTaskIds = <<>> /\ t.axisSignature = Null
      /\ t.xAxisName = NoAxis /\ t.yAxisName = NoAxis /\ t.sliceValues = NoValues
      /\ t.layers = <<>> /\ t.comparisons = <<>>
  BY <1>2
<1>4. <<>> \in Seq(SweepTask) /\ <<>> \in Seq(Layer) /\ <<>> \in Seq(Comparison)
  BY EmptySeq
<1>5. IsTab(t)
  BY <1>2, <1>3, <1>4, NoSlices, Zenon DEF IsTab
<1>6. ToSet(t.importedSweepTaskIds) = TasksOf(t.layers)
  BY <1>3, EmptySet, NoLayers
<1>7. GoodTab(t)
  BY <1>3, <1>5, <1>6 DEF GoodTab, CoversPairs, HasValues, OldAxes
<1>8. QED
  BY <1>1, <1>7

(* An entry with the layers of one sweep and a signature of its axes.      *)
LEMMA LegacyIs ==
  /\ GoodTab(LegacyTab)
  /\ SharesAxes(LegacyTab)
<1>1. PICK full : full = SignatureOf[LegacyTask]
  OBVIOUS
<1>2. PICK t : t = LegacyTab
  OBVIOUS
<1>3. PICK sig : sig = [full EXCEPT !.axisValues = NoValues]
  OBVIOUS
<1>4. t = [importedSweepTaskIds |-> <<LegacyTask>>, axisSignature |-> sig,
           xAxisName |-> DefaultX(full), yAxisName |-> DefaultY(full), sliceValues |-> NoValues,
           layers |-> NormalizeSweep(LegacyTask), comparisons |-> <<>>]
  BY <1>1, <1>2, <1>3, Zenon DEF LegacyTab
<1>5. /\ t.importedSweepTaskIds = <<LegacyTask>> /\ t.axisSignature = sig
      /\ t.xAxisName = DefaultX(full) /\ t.yAxisName = DefaultY(full) /\ t.sliceValues = NoValues
      /\ t.layers = NormalizeSweep(LegacyTask) /\ t.comparisons = <<>>
  BY <1>4
<1>6. LegacyTask \in SweepTask /\ RowsOf[LegacyTask] # <<>>
  BY TabAssumption
<1>7. full \in Signature(ToSet(AxesOf(LegacyTask))) /\ ToSet(AxesOf(LegacyTask)) \in SUBSET Axis
  BY <1>1, <1>6, SignatureIs
<1>8. sig.axisNames = full.axisNames /\ sig.axisValues = NoValues /\ sig.axisValueHashes = full.axisValueHashes
  BY <1>3, <1>7 DEF Signature
<1>9. IsSignature(full) /\ IsSignature(sig)
  <2>1. IsSignature(full)
    BY <1>7, Zenon DEF IsSignature
  <2>2. NoValues \in [{} -> Seq(Value)]
    BY DEF NoValues
  <2>3. sig \in Signature({})
    BY <1>3, <1>7, <2>2 DEF Signature
  <2>4. {} \in SUBSET Axis
    OBVIOUS
  <2>5. QED
    BY <2>1, <2>3, <2>4, Zenon DEF IsSignature
<1>10. /\ t.layers \in Seq(Layer)
       /\ \A n \in DOMAIN t.layers : SourceTask(t.layers[n].id) = LegacyTask
       /\ t.layers # <<>>
  BY <1>5, <1>6, NormalizeIs
<1>11. <<LegacyTask>> \in Seq(SweepTask) /\ <<>> \in Seq(Comparison) /\ DOMAIN <<LegacyTask>> = {1}
  BY <1>6, EmptySeq
<1>12. IsTab(t)
  BY <1>4, <1>5, <1>9, <1>10, <1>11, DefaultAxes, NoSlices, Zenon DEF IsTab
<1>13. ToSet(t.layers) # {} /\ \A l \in ToSet(t.layers) : SourceTask(l.id) = LegacyTask
  <2>1. ToSet(t.layers) # {}
    BY <1>10, NotEmpty
  <2>2. QED
    BY <1>10, <2>1 DEF ToSet
<1>14. TasksOf(t.layers) = {LegacyTask}
  BY <1>13 DEF TasksOf
<1>15. ToSet(t.importedSweepTaskIds) = {LegacyTask}
  <2>1. <<LegacyTask>>[1] = LegacyTask
    OBVIOUS
  <2>2. QED
    BY <1>5, <1>11, <2>1, Zenon DEF ToSet
<1>16. ~HasValues(t)
  BY <1>5, <1>8 DEF HasValues
<1>17. sig.axisNames = AxesOf(LegacyTask)
  BY <1>1, <1>8 DEF AxesOf
<1>18. OldAxes(t)
  BY <1>5, <1>13, <1>17 DEF OldAxes
<1>19. t.axisSignature # Null
  BY <1>5, <1>9, SignatureNotNull DEF NullIsNoSignature
<1>20. GoodTab(t)
  BY <1>5, <1>10, <1>12, <1>14, <1>15, <1>16, <1>18, <1>19 DEF GoodTab, CoversPairs
<1>21. SharesAxes(t)
  BY <1>1, <1>5, <1>8, <1>13 DEF SharesAxes, IsCompatible
<1>22. QED
  BY <1>2, <1>20, <1>21

-----------------------------------------------------------------------------
(* The repair of an old entry                                              *)

AnyDatum == UNION {Datum(A) : A \in SUBSET Axis}
PointsOf(layers) == UNION {ToSet(DataOf[layers[n].id]) : n \in DOMAIN layers}
Occurring(layers, a) == {Param(d, a) : d \in PointsOf(layers)} \ {Undefined}

LEMMA ParamIs ==
  ASSUME NEW d \in AnyDatum, NEW a
  PROVE  Param(d, a) \in Nat
<1>1. PICK A \in SUBSET Axis : d \in Datum(A)
  BY Zenon DEF AnyDatum
<1>2. a \in A => d.params[a] \in Nat
  BY <1>1 DEF Datum, Value
<1>3. DOMAIN d.params = A
  BY <1>1 DEF Datum
<1>4. QED
  BY <1>2, <1>3 DEF Param, Undefined

LEMMA OccurringIs ==
  ASSUME NEW layers \in Seq(Layer), NEW a
  PROVE  /\ Occurring(layers, a) \in SUBSET Value
         /\ IsFiniteSet(Occurring(layers, a))
<1>1. PICK n \in Nat : n = Len(layers) /\ DOMAIN layers = 1..n /\ \A i \in 1..n : layers[i] \in Layer
  BY LenProperties, ElementOfSeq
<1>2. PICK ss : ss = [i \in 1..n |-> DataOf[layers[i].id]]
  OBVIOUS
<1>3. \A i \in 1..n : DataOf[layers[i].id] \in Seq(AnyDatum)
  <2>1. SUFFICES ASSUME NEW i \in 1..n PROVE DataOf[layers[i].id] \in Seq(AnyDatum)
    OBVIOUS
  <2>2. PICK id \in LayerId : id = layers[i].id
    BY <1>1 DEF Layer
  <2>3. PICK A \in SUBSET Axis : A = ToSet(AxesOf(SourceTask(id)))
    BY LayerHasRows, SignatureIs
  <2>4. DataOf[id] \in Seq(Datum(A))
    BY <2>3, DataIs
  <2>5. Datum(A) \in SUBSET AnyDatum
    BY Zenon DEF AnyDatum
  <2>6. DataOf[id] \in Seq(AnyDatum)
    BY <2>4, <2>5
  <2>7. QED
    BY <2>2, <2>6
<1>4. ss \in Seq(Seq(AnyDatum)) /\ Len(ss) = n /\ \A i \in 1..n : ss[i] = DataOf[layers[i].id]
  <2>1. ss \in [1..n -> Seq(AnyDatum)]
    BY <1>2, <1>3
  <2>2. QED
    BY <1>2, <2>1
<1>5. PICK flat \in Seq(AnyDatum) : flat = FlattenSeq(ss) /\ IsUnion(flat, ss)
  BY <1>4, FlattenIsUnion
<1>6. ToSet(flat) = PointsOf(layers)
  <2>1. ToSet(flat) = UNION {ToSet(ss[i]) : i \in 1..n}
    BY <1>4, <1>5, Zenon DEF IsUnion
  <2>2. PointsOf(layers) = UNION {ToSet(DataOf[layers[i].id]) : i \in 1..n}
    BY <1>1, Zenon DEF PointsOf
  <2>3. {ToSet(ss[i]) : i \in 1..n} = {ToSet(DataOf[layers[i].id]) : i \in 1..n}
    BY <1>4
  <2>4. QED
    BY <2>1, <2>2, <2>3, Zenon
<1>7. PICK m \in Nat : m = Len(flat) /\ DOMAIN flat = 1..m /\ \A i \in 1..m : flat[i] \in AnyDatum
  BY LenProperties, ElementOfSeq
<1>8. PICK g : g = [i \in 1..m |-> Param(flat[i], a)]
  OBVIOUS
<1>9. \A i \in 1..m : Param(flat[i], a) \in Nat
  BY <1>7, ParamIs
<1>10. g \in Seq(Nat) /\ DOMAIN g = 1..m
  BY <1>8, <1>9
<1>11. IsFiniteSet(ToSet(g)) /\ ToSet(g) \in SUBSET Nat
  BY <1>10, ListIsFinite
<1>12. ToSet(g) = {Param(d, a) : d \in PointsOf(layers)}
  <2>1. ToSet(g) = {Param(flat[i], a) : i \in 1..m}
    BY <1>8, <1>10 DEF ToSet
  <2>2. PointsOf(layers) = {flat[i] : i \in 1..m}
    BY <1>6, <1>7, Zenon DEF ToSet
  <2>3. QED
    BY <2>1, <2>2
<1>13. Occurring(layers, a) = ToSet(g) \ {Undefined}
  BY <1>12, Zenon DEF Occurring
<1>14. ToSet(g) \ {Undefined} \in SUBSET ToSet(g)
  OBVIOUS
<1>15. IsFiniteSet(ToSet(g) \ {Undefined})
  BY <1>11, <1>14, FS_Subset
<1>16. QED
  BY <1>11, <1>13, <1>15 DEF Value

(* A layer that has the axis has a value on it.                            *)
LEMMA AxisOccurs ==
  ASSUME NEW layers \in Seq(Layer), NEW n \in DOMAIN layers, NEW a,
         a \in ToSet(AxesOf(SourceTask(layers[n].id)))
  PROVE  Occurring(layers, a) # {}
<1>1. PICK id \in LayerId : id = layers[n].id
  <2>1. layers[n] \in Layer
    BY LenProperties, ElementOfSeq
  <2>2. QED
    BY <2>1 DEF Layer
<1>2. PICK A : A = ToSet(AxesOf(SourceTask(id)))
  OBVIOUS
<1>3. DataOf[id] \in Seq(Datum(A)) /\ DataOf[id] # <<>>
  BY <1>2, DataIs
<1>4. PICK d : d \in ToSet(DataOf[id])
  BY <1>3, NotEmpty
<1>5. d \in Datum(A)
  BY <1>3, <1>4, ListIsFinite
<1>6. Param(d, a) # Undefined
  BY <1>1, <1>2, <1>5 DEF Datum, Param, Value
<1>7. d \in PointsOf(layers)
  BY <1>1, <1>4, Zenon DEF PointsOf
<1>8. QED
  BY <1>6, <1>7 DEF Occurring

(* The values an old entry is repaired with.                               *)
Repairs(t, values) ==
  /\ values \in [ToSet(t.axisSignature.axisNames) -> Seq(Value)]
  /\ \A a \in DOMAIN values : values[a] # <<>>

LEMMA RepairIs ==
  ASSUME NEW t, GoodTab(t), t.axisSignature # Null, ~HasValues(t)
  PROVE  Repairs(t, [a \in ToSet(t.axisSignature.axisNames) |-> Ascending(Occurring(t.layers, a))])
<1>1. PICK names : names = t.axisSignature.axisNames
  OBVIOUS
<1>2. PICK layers \in Seq(Layer) : layers = t.layers
  BY DEF GoodTab, IsTab
<1>3. names \in Seq(Axis)
  BY <1>1 DEF GoodTab, IsTab, IsSignature, Signature
<1>4. PICK n \in Nat : n = Len(layers) /\ DOMAIN layers = 1..n /\ 1 \in 1..n
  <2>1. PICK n \in Nat : n = Len(layers) /\ DOMAIN layers = 1..n
    BY LenProperties
  <2>2. layers # <<>>
    BY <1>2 DEF GoodTab
  <2>3. n # 0
    BY <2>1, <2>2, EmptySeq
  <2>4. QED
    BY <2>1, <2>3
<1>5. ASSUME NEW a \in ToSet(names)
      PROVE  Ascending(Occurring(layers, a)) \in Seq(Value) /\ Ascending(Occurring(layers, a)) # <<>>
  <2>1. names # <<>>
    BY <1>3, <1>5, NotEmpty
  <2>2. AxesOf(SourceTask(layers[1].id)) = names
    <3>1. layers[1] \in ToSet(layers)
      BY <1>4 DEF ToSet
    <3>2. QED
      BY <1>1, <1>2, <2>1, <3>1 DEF GoodTab, OldAxes
  <2>3. PICK S : S = Occurring(layers, a)
    OBVIOUS
  <2>4. S # {}
    BY <1>4, <1>5, <2>2, <2>3, AxisOccurs
  <2>5. S \in SUBSET Value /\ IsFiniteSet(S)
    BY <2>3, OccurringIs
  <2>6. S \in SUBSET Int
    BY <2>5 DEF Value
  <2>7. Ascending(S) \in Seq(S) /\ ToSet(Ascending(S)) = S
    BY <2>5, <2>6, AscendingIs
  <2>8. Ascending(S) \in Seq(Value)
    BY <2>5, <2>7
  <2>9. QED
    BY <2>3, <2>4, <2>7, <2>8, NotEmpty
<1>6. PICK values : values = [a \in ToSet(names) |-> Ascending(Occurring(layers, a))]
  OBVIOUS
<1>7. values \in [ToSet(names) -> Seq(Value)] /\ \A a \in DOMAIN values : values[a] # <<>>
  BY <1>5, <1>6
<1>8. QED
  BY <1>1, <1>2, <1>6, <1>7, Zenon DEF Repairs

-----------------------------------------------------------------------------
(* The operations of the store                                             *)

(* r is t with other comparisons, and what a repair changes.               *)
IsMounted(r, t) ==
  /\ GoodTab(r)
  /\ r.layers = t.layers
  /\ IsSync(r.comparisons, t.layers, t.comparisons)
  /\ r.axisSignature = Null <=> t.axisSignature = Null
  /\ t.axisSignature # Null =>
       /\ r.axisSignature.axisNames = t.axisSignature.axisNames
       /\ r.axisSignature.axisValueHashes = t.axisSignature.axisValueHashes
  /\ HasValues(t) => HasValues(r)

LEMMA SyncedCovers ==
  ASSUME NEW r, NEW layers, NEW existing, IsSync(r.comparisons, layers, existing), r.layers = layers
  PROVE  CoversPairs(r)
BY DEF CoversPairs, IsSync

LEMMA SyncTab ==
  ASSUME NEW t, GoodTab(t)
  PROVE  IsMounted(Sync(t), t)
<1>1. IsTab(t)
  BY DEF GoodTab
<1>2. PICK cs : cs = SyncComparisons(t.layers, t.comparisons) /\ IsSync(cs, t.layers, t.comparisons)
  BY <1>1, SyncIs DEF IsTab
<1>3. cs \in Seq(Comparison)
  BY <1>2 DEF IsSync
<1>4. PICK synced : synced = [t EXCEPT !.comparisons = cs]
  OBVIOUS
<1>5. /\ synced = [importedSweepTaskIds |-> t.importedSweepTaskIds, axisSignature |-> t.axisSignature,
                   xAxisName |-> t.xAxisName, yAxisName |-> t.yAxisName, sliceValues |-> t.sliceValues,
                   layers |-> t.layers, comparisons |-> cs]
  BY <1>1, <1>4 DEF IsTab
<1>6. /\ synced.importedSweepTaskIds = t.importedSweepTaskIds
      /\ synced.axisSignature = t.axisSignature
      /\ synced.xAxisName = t.xAxisName /\ synced.yAxisName = t.yAxisName
      /\ synced.sliceValues = t.sliceValues /\ synced.layers = t.layers /\ synced.comparisons = cs
  BY <1>5
<1>7. IsTab(synced)
  BY <1>1, <1>3, <1>5, <1>6, Zenon DEF IsTab
<1>8. CoversPairs(synced)
  BY <1>2, <1>6, SyncedCovers
<1>9. HasValues(synced) <=> HasValues(t)
  BY <1>6 DEF HasValues
<1>10. OldAxes(synced)
  BY <1>6, <1>9 DEF GoodTab, OldAxes
<1>11. GoodTab(synced)
  BY <1>6, <1>7, <1>8, <1>9, <1>10 DEF GoodTab
<1>12. PICK sig : sig = t.axisSignature
  OBVIOUS
<1>13. PICK values : values = [a \in ToSet(sig.axisNames) |-> Ascending(Occurring(t.layers, a))]
  OBVIOUS
<1>14. PICK firsts : firsts = [a \in DOMAIN values |-> values[a][1]]
  OBVIOUS
<1>15. Sync(t) = IF sig # Null /\ sig.axisValues = NoValues /\ t.layers # <<>>
                 THEN [synced EXCEPT !.axisSignature.axisValues = values,
                                     !.sliceValues = SlicesWith(t, firsts)]
                 ELSE synced
  BY <1>2, <1>4, <1>12, <1>13, <1>14, Zenon DEF Sync, Occurring, PointsOf
<1>16. CASE ~(sig # Null /\ sig.axisValues = NoValues /\ t.layers # <<>>)
  <2>1. Sync(t) = synced
    BY <1>15, <1>16
  <2>2. IsMounted(synced, t)
    BY <1>2, <1>6, <1>9, <1>11 DEF IsMounted
  <2>3. QED
    BY <2>1, <2>2
<1>17. CASE sig # Null /\ sig.axisValues = NoValues /\ t.layers # <<>>
  <2>1. ~HasValues(t)
    BY <1>12, <1>17 DEF HasValues
  <2>2. Repairs(t, values)
    BY <1>12, <1>13, <1>17, <2>1, RepairIs
  <2>3. IsSignature(sig)
    BY <1>1, <1>12, <1>17 DEF IsTab
  <2>4. PICK A \in SUBSET Axis : sig \in Signature(A)
    BY <2>3 DEF IsSignature
  <2>5. PICK names \in Seq(Axis) : names = sig.axisNames
    BY <2>4 DEF Signature
  <2>6. PICK B \in SUBSET Axis : B = ToSet(names)
    BY ListIsFinite
  <2>7. values \in [B -> Seq(Value)] /\ \A a \in B : values[a] # <<>>
    BY <1>12, <2>2, <2>5, <2>6 DEF Repairs
  <2>8. PICK new : new = [sig EXCEPT !.axisValues = values]
    OBVIOUS
  <2>9. new \in Signature(B)
    BY <2>4, <2>7, <2>8 DEF Signature
  <2>10. new.axisNames = names /\ new.axisValueHashes = sig.axisValueHashes /\ new.axisValues = values
    BY <2>4, <2>5, <2>8 DEF Signature
  <2>11. IsSignature(new)
    BY <2>9, Zenon DEF IsSignature
  <2>12. IsSlices(firsts) /\ DOMAIN firsts = B
    <3>1. \A a \in B : values[a][1] \in Value
      BY <2>7, EmptySeq, ElementOfSeq
    <3>2. firsts \in [B -> Value] /\ DOMAIN firsts = B
      BY <1>14, <2>7, <3>1
    <3>3. QED
      BY <3>2, Zenon DEF IsSlices
  <2>13. PICK slices : slices = SlicesWith(t, firsts)
    OBVIOUS
  <2>14. IsSlices(slices) /\ DOMAIN slices = DOMAIN t.sliceValues \cup B
    <3>1. IsSlices(t.sliceValues)
      BY <1>1 DEF IsTab
    <3>2. slices = Over(t.sliceValues, firsts)
      BY <2>13, Zenon DEF SlicesWith
    <3>3. QED
      BY <2>12, <3>1, <3>2, OverIs
  <2>15. PICK r : r = Sync(t)
    OBVIOUS
  <2>16. r = [synced EXCEPT !.axisSignature.axisValues = values, !.sliceValues = slices]
    BY <1>15, <1>17, <2>13, <2>15, Zenon
  <2>17. r = [importedSweepTaskIds |-> t.importedSweepTaskIds, axisSignature |-> new,
              xAxisName |-> t.xAxisName, yAxisName |-> t.yAxisName, sliceValues |-> slices,
              layers |-> t.layers, comparisons |-> cs]
    BY <1>5, <1>12, <2>8, <2>16
  <2>18. /\ r.importedSweepTaskIds = t.importedSweepTaskIds /\ r.axisSignature = new
         /\ r.xAxisName = t.xAxisName /\ r.yAxisName = t.yAxisName
         /\ r.sliceValues = slices /\ r.layers = t.layers /\ r.comparisons = cs
    BY <2>17
  <2>19. IsTab(r)
    BY <1>1, <1>3, <2>11, <2>14, <2>17, <2>18, Zenon DEF IsTab
  <2>20. CoversPairs(r)
    BY <1>2, <2>18, SyncedCovers
  <2>21. new # Null
    BY <2>11, SignatureNotNull DEF NullIsNoSignature
  <2>22. HasValues(r) => SlicesCover(r.sliceValues, r.layers)
    <3>1. SUFFICES ASSUME HasValues(r) PROVE SlicesCover(slices, t.layers)
      BY <2>18
    <3>2. names # <<>>
      <4>1. SUFFICES ASSUME names = <<>> PROVE FALSE
        OBVIOUS
      <4>2. B = {}
        BY <2>6, <4>1, EmptySet
      <4>3. values = NoValues
        BY <2>7, <4>2 DEF NoValues
      <4>4. QED
        BY <2>10, <2>18, <3>1, <4>3 DEF HasValues
    <3>3. \A l \in ToSet(t.layers) : AxesOf(SourceTask(l.id)) = names
      BY <1>12, <1>17, <2>1, <2>5, <3>2 DEF GoodTab, OldAxes
    <3>4. QED
      BY <2>6, <2>14, <3>3 DEF SlicesCover
  <2>23. OldAxes(r)
    BY <1>12, <1>17, <2>1, <2>5, <2>10, <2>18 DEF GoodTab, OldAxes
  <2>24. GoodTab(r)
    BY <1>12, <1>17, <2>18, <2>19, <2>20, <2>21, <2>22, <2>23 DEF GoodTab
  <2>25. IsMounted(r, t)
    BY <1>2, <1>12, <1>17, <2>1, <2>5, <2>10, <2>18, <2>21, <2>24 DEF IsMounted
  <2>26. QED
    BY <2>15, <2>25
<1>18. QED
  BY <1>16, <1>17

(* r is t with the layers of one more sweep.                               *)
IsAdded(r, t, task) ==
  /\ GoodTab(r)
  /\ r.layers = t.layers \o NormalizeSweep(task)
  /\ IsSync(r.comparisons, r.layers, t.comparisons)
  /\ r.axisSignature = IF t.axisSignature = Null THEN SignatureOf[task] ELSE t.axisSignature
  /\ ToSet(r.layers) = ToSet(t.layers) \cup ToSet(NormalizeSweep(task))
  /\ \A l \in ToSet(NormalizeSweep(task)) : SourceTask(l.id) = task

(* Both for the lists of a tab.                                            *)
LEMMA ConcatIs ==
  ASSUME NEW X, NEW q \in Seq(X), NEW r \in Seq(X)
  PROVE  q \o r \in Seq(X) /\ ToSet(q \o r) = ToSet(q) \cup ToSet(r)
BY ConcatProperties, ConcatSet

LEMMA AppendIs ==
  ASSUME NEW X, NEW q \in Seq(X), NEW x \in X
  PROVE  Append(q, x) \in Seq(X) /\ ToSet(Append(q, x)) = ToSet(q) \cup {x}
BY AppendProperties, AppendSet

LEMMA AddTab ==
  ASSUME NEW t, GoodTab(t), NEW task \in SweepTask, RowsOf[task] # <<>>,
         (t.axisSignature # Null /\ ~HasValues(t) /\ t.axisSignature.axisNames # <<>>
         => AxesOf(task) = t.axisSignature.axisNames)
  PROVE  IsAdded(AddLayers(t, NormalizeSweep(task), task, SignatureOf[task]), t, task)
<1>1. IsTab(t)
  BY DEF GoodTab
<1>2. PICK sig : sig = SignatureOf[task]
  OBVIOUS
<1>3. /\ IsSignature(sig) /\ sig # Null /\ sig.axisNames = AxesOf(task)
      /\ IsSlices(FirstValues(sig)) /\ DOMAIN FirstValues(sig) = ToSet(AxesOf(task))
  <2>1. IsSignature(sig)
    BY <1>2, SignatureIs, Zenon DEF IsSignature
  <2>2. sig # Null
    BY <2>1, SignatureNotNull DEF NullIsNoSignature
  <2>3. QED
    BY <1>2, <2>1, <2>2, FirstValuesAre, Zenon DEF AxesOf
<1>4. PICK new \in Seq(Layer) : new = NormalizeSweep(task) /\ new # <<>>
  BY NormalizeIs
<1>5. \A l \in ToSet(new) : SourceTask(l.id) = task
  <2>1. \A n \in DOMAIN new : SourceTask(new[n].id) = task
    BY <1>4, NormalizeIs
  <2>2. QED
    BY <2>1, Zenon DEF ToSet
<1>6. PICK all \in Seq(Layer) : all = t.layers \o new /\ ToSet(all) = ToSet(t.layers) \cup ToSet(new)
  <2>1. t.layers \in Seq(Layer)
    BY <1>1, Zenon DEF IsTab
  <2>2. /\ t.layers \o new \in Seq(Layer)
        /\ ToSet(t.layers \o new) = ToSet(t.layers) \cup ToSet(new)
    BY <2>1, ConcatIs
  <2>3. QED
    BY <2>2, Zenon
<1>7. ToSet(new) # {} /\ all # <<>>
  BY <1>4, <1>6, NotEmpty
<1>8. PICK cs : cs = SyncComparisons(all, t.comparisons) /\ IsSync(cs, all, t.comparisons)
  <2>1. t.comparisons \in Seq(Comparison)
    BY <1>1, Zenon DEF IsTab
  <2>2. QED
    BY <2>1, SyncIs, Zenon
<1>9. PICK slices : slices = Over(t.sliceValues, FirstValues(sig))
  OBVIOUS
<1>10. IsSlices(slices) /\ DOMAIN slices = DOMAIN t.sliceValues \cup ToSet(AxesOf(task))
  BY <1>1, <1>3, <1>9, OverIs DEF IsTab
<1>11. PICK x \in Axis \cup {NoAxis} : x = IF t.xAxisName # NoAxis THEN t.xAxisName ELSE DefaultX(sig)
  BY <1>1, <1>3, DefaultAxes DEF IsTab
<1>12. PICK y \in Axis \cup {NoAxis} : y = IF t.yAxisName # NoAxis THEN t.yAxisName ELSE DefaultY(sig)
  BY <1>1, <1>3, DefaultAxes DEF IsTab
<1>13. PICK s : s = IF t.axisSignature = Null THEN sig ELSE t.axisSignature
  OBVIOUS
<1>14. PICK ids \in Seq(SweepTask) :
         ids = Append(t.importedSweepTaskIds, task) /\ ToSet(ids) = ToSet(t.importedSweepTaskIds) \cup {task}
  <2>1. t.importedSweepTaskIds \in Seq(SweepTask)
    BY <1>1, Zenon DEF IsTab
  <2>2. /\ Append(t.importedSweepTaskIds, task) \in Seq(SweepTask)
        /\ ToSet(Append(t.importedSweepTaskIds, task)) = ToSet(t.importedSweepTaskIds) \cup {task}
    BY <2>1, AppendIs
  <2>3. QED
    BY <2>2, Zenon
<1>15. PICK r : r = AddLayers(t, new, task, sig)
  OBVIOUS
<1>16. r = [importedSweepTaskIds |-> ids, axisSignature |-> s, xAxisName |-> x, yAxisName |-> y,
            sliceValues |-> slices, layers |-> all, comparisons |-> cs]
  BY <1>6, <1>8, <1>9, <1>11, <1>12, <1>13, <1>14, <1>15, Zenon DEF AddLayers, SlicesWith
<1>17. /\ r.importedSweepTaskIds = ids /\ r.axisSignature = s /\ r.xAxisName = x /\ r.yAxisName = y
       /\ r.sliceValues = slices /\ r.layers = all /\ r.comparisons = cs
  BY <1>16
<1>18. IsTab(r)
  <2>1. s = Null \/ IsSignature(s)
    BY <1>1, <1>3, <1>13 DEF IsTab
  <2>2. cs \in Seq(Comparison)
    BY <1>8 DEF IsSync
  <2>3. QED
    BY <1>10, <1>16, <1>17, <2>1, <2>2, Zenon DEF IsTab
<1>19. CoversPairs(r)
  BY <1>8, <1>17, SyncedCovers
<1>20. s # Null
  BY <1>3, <1>13
<1>21. ToSet(ids) = TasksOf(all)
  BY <1>5, <1>6, <1>7, <1>14 DEF GoodTab, TasksOf
<1>22. HasValues(r) => SlicesCover(slices, all)
  <2>1. \A l \in ToSet(new) : ToSet(AxesOf(SourceTask(l.id))) \subseteq DOMAIN slices
    BY <1>5, <1>10
  <2>2. HasValues(r) => \A l \in ToSet(t.layers) : ToSet(AxesOf(SourceTask(l.id))) \subseteq DOMAIN slices
    <3>1. CASE t.axisSignature = Null
      BY <3>1, EmptySet DEF GoodTab
    <3>2. CASE t.axisSignature # Null
      BY <1>10, <1>13, <1>17, <3>2 DEF GoodTab, HasValues, SlicesCover
    <3>3. QED
      BY <3>1, <3>2
  <2>3. QED
    BY <1>6, <2>1, <2>2 DEF SlicesCover
<1>23. OldAxes(r)
  <2>1. CASE t.axisSignature = Null
    BY <1>3, <1>5, <1>6, <1>13, <1>17, <2>1, EmptySet DEF GoodTab, OldAxes
  <2>2. CASE t.axisSignature # Null
    BY <1>5, <1>6, <1>13, <1>17, <2>2 DEF GoodTab, OldAxes, HasValues
  <2>3. QED
    BY <2>1, <2>2
<1>24. GoodTab(r)
  BY <1>7, <1>17, <1>18, <1>19, <1>20, <1>21, <1>22, <1>23 DEF GoodTab
<1>25. IsAdded(r, t, task)
  BY <1>2, <1>4, <1>5, <1>6, <1>8, <1>13, <1>17, <1>24 DEF IsAdded
<1>26. QED
  BY <1>2, <1>4, <1>15, <1>25

-----------------------------------------------------------------------------
(* The side bar                                                            *)

(* A tab whose layers are from the sweeps of t, with the axes of t until   *)
(* the last layer goes, and at least its slices, is as good as t.          *)
IsFewer(r, t) ==
  /\ GoodTab(r)
  /\ SharesAxes(t) => SharesAxes(r)
  /\ r.axisSignature \in {Null, t.axisSignature}

LEMMA FewerLayers ==
  ASSUME NEW t, GoodTab(t), NEW r, IsTab(r), CoversPairs(r),
         TasksOf(r.layers) \subseteq TasksOf(t.layers),
         r.axisSignature = IF r.layers = <<>> THEN Null ELSE t.axisSignature,
         ToSet(r.importedSweepTaskIds) = TasksOf(r.layers),
         DOMAIN t.sliceValues \subseteq DOMAIN r.sliceValues
  PROVE  IsFewer(r, t)
<1>1. \A l \in ToSet(r.layers) : \E k \in ToSet(t.layers) : SourceTask(k.id) = SourceTask(l.id)
  <2>1. SUFFICES ASSUME NEW l \in ToSet(r.layers)
                 PROVE  \E k \in ToSet(t.layers) : SourceTask(k.id) = SourceTask(l.id)
    OBVIOUS
  <2>2. SourceTask(l.id) \in TasksOf(r.layers)
    BY DEF TasksOf
  <2>3. SourceTask(l.id) \in TasksOf(t.layers)
    BY <2>2
  <2>4. QED
    BY <2>3 DEF TasksOf
<1>2. CASE r.layers = <<>>
  <2>1. ToSet(r.layers) = {} /\ r.axisSignature = Null
    BY <1>2, EmptySet
  <2>2. SlicesCover(r.sliceValues, r.layers) /\ OldAxes(r) /\ SharesAxes(r)
    BY <2>1 DEF SlicesCover, OldAxes, SharesAxes
  <2>3. QED
    BY <1>2, <2>1, <2>2 DEF GoodTab, IsFewer
<1>3. CASE r.layers # <<>>
  <2>1. r.axisSignature = t.axisSignature
    BY <1>3
  <2>2. t.layers # <<>>
    <3>1. PICK l \in ToSet(r.layers) : TRUE
      BY <1>3, NotEmpty DEF IsTab
    <3>2. QED
      BY <1>1, <3>1, EmptySet
  <2>3. r.axisSignature # Null
    BY <2>1, <2>2 DEF GoodTab
  <2>4. HasValues(r) <=> HasValues(t)
    BY <2>1 DEF HasValues
  <2>5. HasValues(r) => SlicesCover(r.sliceValues, r.layers)
    <3>1. SUFFICES ASSUME HasValues(r), NEW l \in ToSet(r.layers)
                   PROVE  ToSet(AxesOf(SourceTask(l.id))) \subseteq DOMAIN r.sliceValues
      BY Zenon DEF SlicesCover
    <3>2. PICK k \in ToSet(t.layers) : SourceTask(k.id) = SourceTask(l.id)
      BY <1>1
    <3>3. ToSet(AxesOf(SourceTask(k.id))) \subseteq DOMAIN t.sliceValues
      BY <2>4, <3>1 DEF GoodTab, SlicesCover
    <3>4. QED
      BY <3>2, <3>3
  <2>6. OldAxes(r)
    <3>1. SUFFICES ASSUME r.axisSignature # Null, ~HasValues(r), r.axisSignature.axisNames # <<>>,
                          NEW l \in ToSet(r.layers)
                   PROVE  AxesOf(SourceTask(l.id)) = r.axisSignature.axisNames
      BY Zenon DEF OldAxes
    <3>2. PICK k \in ToSet(t.layers) : SourceTask(k.id) = SourceTask(l.id)
      BY <1>1
    <3>3. AxesOf(SourceTask(k.id)) = t.axisSignature.axisNames
      BY <2>1, <2>4, <3>1 DEF GoodTab, OldAxes
    <3>4. QED
      BY <2>1, <3>2, <3>3
  <2>7. SharesAxes(t) => SharesAxes(r)
    <3>1. SUFFICES ASSUME SharesAxes(t), NEW l \in ToSet(r.layers)
                   PROVE  IsCompatible(r.axisSignature, SignatureOf[SourceTask(l.id)])
      BY Zenon DEF SharesAxes
    <3>2. PICK k \in ToSet(t.layers) : SourceTask(k.id) = SourceTask(l.id)
      BY <1>1
    <3>3. IsCompatible(t.axisSignature, SignatureOf[SourceTask(k.id)])
      BY <3>1 DEF SharesAxes
    <3>4. QED
      BY <2>1, <3>2, <3>3, Zenon
  <2>8. QED
    BY <1>3, <2>1, <2>3, <2>5, <2>6, <2>7 DEF GoodTab, IsFewer
<1>4. QED
  BY <1>2, <1>3

(* r is t with fewer or moved layers, its comparisons brought up to date.  *)
IsArranged(r, t) ==
  IsFewer(r, t) /\ IsSync(r.comparisons, r.layers, t.comparisons)

LEMMA RemoveTab ==
  ASSUME NEW t, GoodTab(t), NEW id
  PROVE  IsArranged(RemoveLayer(t, id), t)
<1>1. IsTab(t)
  BY DEF GoodTab
<1>2. PICK others : others = {l \in ToSet(t.layers) : l.id # id}
  OBVIOUS
<1>3. PICK rest \in Seq(Layer) : rest = Keep(t.layers, others) /\ ToSet(rest) \subseteq ToSet(t.layers)
  <2>1. t.layers \in Seq(Layer)
    BY <1>1 DEF IsTab
  <2>2. Keep(t.layers, others) \in Seq(Layer) /\ ToSet(Keep(t.layers, others)) = ToSet(t.layers) \cap others
    BY <2>1, KeepSet
  <2>3. QED
    BY <2>2
<1>4. PICK cs : cs = SyncComparisons(rest, t.comparisons) /\ IsSync(cs, rest, t.comparisons)
  BY <1>1, SyncIs DEF IsTab
<1>5. PICK tasks : tasks = [n \in DOMAIN rest |-> SourceTask(rest[n].id)]
  OBVIOUS
<1>6. tasks \in Seq(SweepTask) /\ ToSet(tasks) = TasksOf(rest)
  <2>1. PICK n \in Nat : n = Len(rest) /\ DOMAIN rest = 1..n /\ \A i \in 1..n : rest[i] \in Layer
    BY LenProperties, ElementOfSeq
  <2>2. ToSet(rest) = {rest[i] : i \in 1..n}
    BY <2>1, Zenon DEF ToSet
  <2>3. \A i \in 1..n : SourceTask(rest[i].id) \in SweepTask
    <3>1. \A i \in 1..n : rest[i].id \in LayerId
      BY <2>1 DEF Layer
    <3>2. QED
      BY <3>1, LayerHasRows
  <2>4. tasks \in [1..n -> SweepTask]
    BY <1>5, <2>1, <2>3
  <2>5. ToSet(tasks) = {SourceTask(rest[i].id) : i \in 1..n}
    BY <1>5, <2>1, <2>4 DEF ToSet
  <2>6. TasksOf(rest) = {SourceTask(rest[i].id) : i \in 1..n}
    BY <2>2 DEF TasksOf
  <2>7. QED
    BY <2>4, <2>5, <2>6
<1>7. PICK ids \in Seq(SweepTask) : ids = RemainingTasks(t, rest) /\ ToSet(ids) = TasksOf(rest)
  <2>1. RemainingTasks(t, rest) = AppendNew(<<>>, tasks)
    BY <1>5, Zenon DEF RemainingTasks
  <2>2. AppendNew(<<>>, tasks) \in Seq(SweepTask) /\ ToSet(AppendNew(<<>>, tasks)) = ToSet(tasks)
    BY <1>6, AppendNewSet
  <2>3. QED
    BY <1>6, <2>1, <2>2
<1>8. PICK sig : sig = RemainingSignature(t, rest)
  OBVIOUS
<1>9. PICK r : r = RemoveLayer(t, id)
  OBVIOUS
<1>10. r = [t EXCEPT !.layers = rest, !.comparisons = cs, !.importedSweepTaskIds = ids,
                     !.axisSignature = sig]
  BY <1>2, <1>3, <1>4, <1>7, <1>8, <1>9, Zenon DEF RemoveLayer
<1>11. r = [importedSweepTaskIds |-> ids, axisSignature |-> sig, xAxisName |-> t.xAxisName,
            yAxisName |-> t.yAxisName, sliceValues |-> t.sliceValues, layers |-> rest,
            comparisons |-> cs]
  BY <1>1, <1>10 DEF IsTab
<1>12. /\ r.importedSweepTaskIds = ids /\ r.axisSignature = sig /\ r.xAxisName = t.xAxisName
       /\ r.yAxisName = t.yAxisName /\ r.sliceValues = t.sliceValues /\ r.layers = rest
       /\ r.comparisons = cs
  BY <1>11
<1>13. IsTab(r)
  <2>1. sig = Null \/ IsSignature(sig)
    BY <1>1, <1>8 DEF IsTab, RemainingSignature
  <2>2. cs \in Seq(Comparison)
    BY <1>4 DEF IsSync
  <2>3. QED
    BY <1>1, <1>11, <1>12, <2>1, <2>2, Zenon DEF IsTab
<1>14. CoversPairs(r)
  BY <1>4, <1>12, SyncedCovers
<1>15. TasksOf(r.layers) \subseteq TasksOf(t.layers)
  BY <1>3, <1>12 DEF TasksOf
<1>16. IsFewer(r, t)
  BY <1>7, <1>8, <1>12, <1>13, <1>14, <1>15, FewerLayers DEF RemainingSignature
<1>17. QED
  BY <1>4, <1>9, <1>12, <1>16 DEF IsArranged

LEMMA SubSeqSet ==
  ASSUME NEW X, NEW s \in Seq(X), NEW m \in 1..(Len(s) + 1), NEW k \in 0..Len(s)
  PROVE  SubSeq(s, m, k) \in Seq(X) /\ ToSet(SubSeq(s, m, k)) = {s[i] : i \in m..k}
<1>1. PICK n \in Nat : n = Len(s) /\ \A i \in 1..n : s[i] \in X
  BY LenProperties, ElementOfSeq
<1>2. m \in Nat /\ k \in Nat /\ m..k \subseteq 1..n
  BY <1>1
<1>3. PICK q : q = SubSeq(s, m, k)
  OBVIOUS
<1>4. /\ q \in Seq(X)
      /\ Len(q) = IF m <= k THEN k - m + 1 ELSE 0
      /\ \A i \in 1..(k - m + 1) : q[i] = s[m + i - 1]
  <2>1. \A i \in m..k : s[i] \in X
    BY <1>1, <1>2
  <2>2. QED
    BY <1>2, <1>3, <2>1, SubSeqProperties
<1>5. DOMAIN q = 1..(k - m + 1)
  <2>1. DOMAIN q = 1..Len(q)
    BY <1>4, LenProperties
  <2>2. ~(m <= k) => 1..(k - m + 1) = {} /\ 1..0 = {}
    BY <1>2
  <2>3. QED
    BY <1>4, <2>1, <2>2
<1>6. ToSet(q) = {q[i] : i \in 1..(k - m + 1)}
  BY <1>5, Zenon DEF ToSet
<1>7. \A i \in m..k : i - m + 1 \in 1..(k - m + 1) /\ m + (i - m + 1) - 1 = i
  BY <1>2
<1>8. \A i \in 1..(k - m + 1) : m + i - 1 \in m..k
  BY <1>2
<1>9. ToSet(q) = {s[i] : i \in m..k}
  <2>1. ASSUME NEW i \in m..k PROVE s[i] \in ToSet(q)
    <3>1. PICK j \in 1..(k - m + 1) : j = i - m + 1 /\ m + j - 1 = i
      BY <1>7
    <3>2. q[j] = s[i]
      BY <1>4, <3>1
    <3>3. QED
      BY <1>6, <3>2
  <2>2. ASSUME NEW j \in 1..(k - m + 1) PROVE q[j] \in {s[i] : i \in m..k}
    <3>1. PICK i \in m..k : i = m + j - 1
      BY <1>8
    <3>2. q[j] = s[i]
      BY <1>4, <3>1
    <3>3. QED
      BY <3>2
  <2>3. QED
    BY <1>6, <2>1, <2>2
<1>10. QED
  BY <1>3, <1>4, <1>9

(* Dragging moves a member of a list and keeps them all.                   *)
LEMMA MoveSet ==
  ASSUME NEW X, NEW s \in Seq(X), NEW a \in 1..Len(s), NEW b \in 1..Len(s)
  PROVE  /\ InsertAt(RemoveAt(s, a), b, s[a]) \in Seq(X)
         /\ ToSet(InsertAt(RemoveAt(s, a), b, s[a])) = ToSet(s)
<1>1. PICK n \in Nat : n = Len(s) /\ DOMAIN s = 1..n /\ \A i \in 1..n : s[i] \in X
  BY LenProperties, ElementOfSeq
<1>2. PICK before : before = SubSeq(s, 1, a - 1)
  OBVIOUS
<1>3. PICK after : after = SubSeq(s, a + 1, n)
  OBVIOUS
<1>4. before \in Seq(X) /\ ToSet(before) = {s[i] : i \in 1..(a - 1)}
  BY <1>1, <1>2, SubSeqSet
<1>5. after \in Seq(X) /\ ToSet(after) = {s[i] : i \in (a + 1)..n}
  <2>1. a + 1 \in 1..(Len(s) + 1) /\ n \in 0..Len(s)
    BY <1>1
  <2>2. QED
    BY <1>3, <2>1, SubSeqSet
<1>6. Len(before) = a - 1 /\ Len(after) = n - a
  <2>1. /\ \A i \in 1..(a - 1) : s[i] \in X
        /\ \A i \in (a + 1)..n : s[i] \in X
    BY <1>1
  <2>2. Len(before) = IF 1 <= a - 1 THEN a - 1 - 1 + 1 ELSE 0
    BY <1>1, <1>2, <2>1, SubSeqProperties
  <2>3. Len(after) = IF a + 1 <= n THEN n - (a + 1) + 1 ELSE 0
    BY <1>1, <1>3, <2>1, SubSeqProperties
  <2>4. QED
    BY <1>1, <2>2, <2>3
<1>7. PICK rest : rest = RemoveAt(s, a)
  OBVIOUS
<1>8. rest = before \o after
  BY <1>1, <1>2, <1>3, <1>7, Zenon DEF RemoveAt
<1>9. rest \in Seq(X) /\ Len(rest) = n - 1 /\ ToSet(rest) = ToSet(before) \cup ToSet(after)
  <2>1. Len(rest) = Len(before) + Len(after)
    BY <1>4, <1>5, <1>8, ConcatProperties
  <2>2. Len(rest) = n - 1
    BY <1>1, <1>6, <2>1
  <2>3. rest \in Seq(X) /\ ToSet(rest) = ToSet(before) \cup ToSet(after)
    BY <1>4, <1>5, <1>8, ConcatIs, Zenon
  <2>4. QED
    BY <2>2, <2>3
<1>10. ToSet(s) = ToSet(rest) \cup {s[a]}
  <2>1. 1..n = (1..(a - 1)) \cup ((a + 1)..n) \cup {a}
    BY <1>1
  <2>2. ToSet(s) = {s[i] : i \in 1..n}
    BY <1>1, Zenon DEF ToSet
  <2>3. QED
    BY <1>4, <1>5, <1>9, <2>1, <2>2
<1>11. PICK above : above = SubSeq(rest, 1, b - 1)
  OBVIOUS
<1>12. PICK below : below = SubSeq(rest, b, n - 1)
  OBVIOUS
<1>13. above \in Seq(X) /\ ToSet(above) = {rest[i] : i \in 1..(b - 1)}
  <2>1. 1 \in 1..(Len(rest) + 1) /\ b - 1 \in 0..Len(rest)
    BY <1>1, <1>9
  <2>2. rest \in Seq(X)
    BY <1>9
  <2>3. SubSeq(rest, 1, b - 1) \in Seq(X) /\ ToSet(SubSeq(rest, 1, b - 1)) = {rest[i] : i \in 1..(b - 1)}
    BY <2>1, <2>2, SubSeqSet
  <2>4. QED
    BY <1>11, <2>3, Zenon
<1>14. below \in Seq(X) /\ ToSet(below) = {rest[i] : i \in b..(n - 1)}
  <2>1. b \in 1..(Len(rest) + 1) /\ n - 1 \in 0..Len(rest)
    BY <1>1, <1>9
  <2>2. rest \in Seq(X)
    BY <1>9
  <2>3. SubSeq(rest, b, n - 1) \in Seq(X) /\ ToSet(SubSeq(rest, b, n - 1)) = {rest[i] : i \in b..(n - 1)}
    BY <2>1, <2>2, SubSeqSet
  <2>4. QED
    BY <1>12, <2>3, Zenon
<1>15. ToSet(rest) = ToSet(above) \cup ToSet(below)
  <2>1. DOMAIN rest = 1..(n - 1)
    BY <1>9, LenProperties
  <2>2. ToSet(rest) = {rest[i] : i \in 1..(n - 1)}
    BY <2>1, Zenon DEF ToSet
  <2>3. 1..(n - 1) = (1..(b - 1)) \cup (b..(n - 1))
    BY <1>1
  <2>4. QED
    BY <1>13, <1>14, <2>2, <2>3
<1>16. PICK one : one = <<s[a]>>
  OBVIOUS
<1>17. one \in Seq(X) /\ ToSet(one) = {s[a]}
  <2>1. DOMAIN one = {1} /\ one[1] = s[a]
    BY <1>16
  <2>2. one \in Seq(X)
    BY <1>1, <1>16
  <2>3. QED
    BY <2>1, <2>2, Zenon DEF ToSet
<1>18. InsertAt(rest, b, s[a]) = above \o one \o below
  BY <1>9, <1>11, <1>12, <1>16, Zenon DEF InsertAt
<1>19. PICK left : left = above \o one
  OBVIOUS
<1>20. left \in Seq(X) /\ ToSet(left) = ToSet(above) \cup {s[a]}
  <2>1. above \in Seq(X) /\ one \in Seq(X)
    BY <1>13, <1>17
  <2>2. left \in Seq(X) /\ ToSet(left) = ToSet(above) \cup ToSet(one)
    BY <1>19, <2>1, ConcatIs
  <2>3. QED
    BY <1>17, <2>2
<1>21. left \o below \in Seq(X) /\ ToSet(left \o below) = ToSet(left) \cup ToSet(below)
  BY <1>14, <1>20, ConcatIs
<1>22. QED
  BY <1>7, <1>10, <1>15, <1>18, <1>19, <1>20, <1>21

LEMMA ReorderTab ==
  ASSUME NEW t, GoodTab(t), NEW a \in 1..Len(t.layers), NEW b \in 1..Len(t.layers)
  PROVE  IsArranged(ReorderLayers(t, a, b), t)
<1>1. IsTab(t)
  BY DEF GoodTab
<1>2. PICK all \in Seq(Layer) : all = t.layers
  BY <1>1 DEF IsTab
<1>3. PICK dragged : dragged = InsertAt(RemoveAt(all, a), b, all[a])
  OBVIOUS
<1>4. dragged \in Seq(Layer) /\ ToSet(dragged) = ToSet(all)
  BY <1>2, <1>3, MoveSet
<1>5. PICK cs : cs = SyncComparisons(dragged, t.comparisons) /\ IsSync(cs, dragged, t.comparisons)
  BY <1>1, <1>4, SyncIs DEF IsTab
<1>6. PICK r : r = ReorderLayers(t, a, b)
  OBVIOUS
<1>7. r = [t EXCEPT !.layers = dragged, !.comparisons = cs]
  BY <1>2, <1>3, <1>5, <1>6, Zenon DEF ReorderLayers
<1>8. r = [importedSweepTaskIds |-> t.importedSweepTaskIds, axisSignature |-> t.axisSignature,
           xAxisName |-> t.xAxisName, yAxisName |-> t.yAxisName, sliceValues |-> t.sliceValues,
           layers |-> dragged, comparisons |-> cs]
  BY <1>1, <1>7 DEF IsTab
<1>9. /\ r.importedSweepTaskIds = t.importedSweepTaskIds /\ r.axisSignature = t.axisSignature
      /\ r.xAxisName = t.xAxisName /\ r.yAxisName = t.yAxisName
      /\ r.sliceValues = t.sliceValues /\ r.layers = dragged /\ r.comparisons = cs
  BY <1>8
<1>10. IsTab(r)
  <2>1. cs \in Seq(Comparison)
    BY <1>5 DEF IsSync
  <2>2. QED
    BY <1>1, <1>4, <1>8, <1>9, <2>1, Zenon DEF IsTab
<1>11. CoversPairs(r)
  BY <1>5, <1>9, SyncedCovers
<1>12. TasksOf(r.layers) = TasksOf(t.layers)
  BY <1>2, <1>4, <1>9, Zenon DEF TasksOf
<1>13. r.layers # <<>> /\ t.layers # <<>>
  <2>1. Len(t.layers) # 0
    BY <1>2, LenProperties
  <2>2. t.layers # <<>>
    BY <2>1, EmptyListIs
  <2>3. QED
    BY <1>2, <1>4, <1>9, <2>2, NotEmpty
<1>14. IsFewer(r, t)
  BY <1>9, <1>10, <1>11, <1>12, <1>13, FewerLayers DEF GoodTab
<1>15. QED
  BY <1>5, <1>6, <1>9, <1>14 DEF IsArranged

(* r is t with the same comparisons of the same layers.                    *)
IsRetouched(r, t) ==
  /\ IsFewer(r, t)
  /\ ToIds(r.layers) = ToIds(t.layers)
  /\ r.comparisons = t.comparisons

(* The pairs of a list, and the sweeps it is of, depend on its ids.        *)
LEMMA SameIds ==
  ASSUME NEW all \in Seq(Layer), NEW r \in Seq(Layer), ToIds(r) = ToIds(all)
  PROVE  PairsIn(r) = PairsIn(all) /\ TasksOf(r) = TasksOf(all) /\ (r = <<>> <=> all = <<>>)
<1>1. PICK n \in Nat : n = Len(all) /\ DOMAIN all = 1..n
  BY LenProperties
<1>2. PICK m \in Nat : m = Len(r) /\ DOMAIN r = 1..m
  BY LenProperties
<1>3. /\ DOMAIN ToIds(all) = 1..n /\ \A i \in 1..n : ToIds(all)[i] = all[i].id
      /\ DOMAIN ToIds(r) = 1..m /\ \A i \in 1..m : ToIds(r)[i] = r[i].id
  BY <1>1, <1>2 DEF ToIds
<1>4. 1..m = 1..n
  BY <1>3
<1>5. m = n
  <2>1. n \in 1..m \/ n = 0
    BY <1>4
  <2>2. m \in 1..n \/ m = 0
    BY <1>4
  <2>3. QED
    BY <2>1, <2>2
<1>6. \A i \in 1..n : r[i].id = all[i].id
  BY <1>3, <1>5
<1>7. PairsIn(r) = PairsIn(all)
  <2>1. PairsIn(r) \subseteq PairsIn(all)
    <3>1. SUFFICES ASSUME NEW p \in PairsIn(r) PROVE p \in PairsIn(all)
      OBVIOUS
    <3>2. PICK i \in 1..n, j \in 1..n : i < j /\ p = <<r[i].id, r[j].id>>
      BY <1>2, <1>5, Zenon DEF PairsIn
    <3>3. p = <<all[i].id, all[j].id>>
      BY <1>6, <3>2
    <3>4. QED
      BY <1>1, <3>2, <3>3, Zenon DEF PairsIn
  <2>2. PairsIn(all) \subseteq PairsIn(r)
    <3>1. SUFFICES ASSUME NEW p \in PairsIn(all) PROVE p \in PairsIn(r)
      OBVIOUS
    <3>2. PICK i \in 1..n, j \in 1..n : i < j /\ p = <<all[i].id, all[j].id>>
      BY <1>1, Zenon DEF PairsIn
    <3>3. p = <<r[i].id, r[j].id>>
      BY <1>6, <3>2
    <3>4. QED
      BY <1>2, <1>5, <3>2, <3>3, Zenon DEF PairsIn
  <2>3. QED
    BY <2>1, <2>2, Zenon
<1>8. TasksOf(r) = TasksOf(all)
  BY TasksOfLayers
<1>9. r = <<>> <=> all = <<>>
  BY <1>1, <1>2, <1>5, EmptySeq, EmptyListIs
<1>10. QED
  BY <1>7, <1>8, <1>9

LEMMA UpdateLayerTab ==
  ASSUME NEW t, GoodTab(t), NEW id, NEW v \in BOOLEAN
  PROVE  IsRetouched(UpdateLayer(t, id, v), t)
<1>1. IsTab(t)
  BY DEF GoodTab
<1>2. PICK all \in Seq(Layer) : all = t.layers
  BY <1>1 DEF IsTab
<1>3. PICK n \in Nat : n = Len(all) /\ DOMAIN all = 1..n /\ \A i \in 1..n : all[i] \in Layer
  BY LenProperties, ElementOfSeq
<1>4. PICK changed : changed = [i \in DOMAIN all |->
        IF all[i].id = id THEN [all[i] EXCEPT !.visible = v] ELSE all[i]]
  OBVIOUS
<1>5. \A i \in 1..n : changed[i] \in Layer /\ changed[i].id = all[i].id
  <2>1. SUFFICES ASSUME NEW i \in 1..n PROVE changed[i] \in Layer /\ changed[i].id = all[i].id
    OBVIOUS
  <2>2. all[i] \in Layer
    BY <1>3
  <2>3. changed[i] = IF all[i].id = id THEN [all[i] EXCEPT !.visible = v] ELSE all[i]
    BY <1>3, <1>4
  <2>4. QED
    BY <2>2, <2>3 DEF Layer
<1>6. DOMAIN changed = 1..n /\ changed \in [1..n -> Layer]
  BY <1>3, <1>4, <1>5
<1>7. changed \in Seq(Layer) /\ Len(changed) = n
  BY <1>6
<1>8. ToIds(changed) = ToIds(all)
  BY <1>3, <1>5, <1>6 DEF ToIds
<1>9. PairsIn(changed) = PairsIn(all) /\ TasksOf(changed) = TasksOf(all) /\ (changed = <<>> <=> all = <<>>)
  BY <1>7, <1>8, SameIds
<1>10. PICK r : r = UpdateLayer(t, id, v)
  OBVIOUS
<1>11. r = [t EXCEPT !.layers = changed]
  BY <1>2, <1>4, <1>10, Zenon DEF UpdateLayer
<1>12. r = [importedSweepTaskIds |-> t.importedSweepTaskIds, axisSignature |-> t.axisSignature,
            xAxisName |-> t.xAxisName, yAxisName |-> t.yAxisName, sliceValues |-> t.sliceValues,
            layers |-> changed, comparisons |-> t.comparisons]
  BY <1>1, <1>11 DEF IsTab
<1>13. /\ r.importedSweepTaskIds = t.importedSweepTaskIds /\ r.axisSignature = t.axisSignature
       /\ r.xAxisName = t.xAxisName /\ r.yAxisName = t.yAxisName
       /\ r.sliceValues = t.sliceValues /\ r.layers = changed /\ r.comparisons = t.comparisons
  BY <1>12
<1>14. IsTab(r)
  BY <1>1, <1>7, <1>12, <1>13, Zenon DEF IsTab
<1>15. CoversPairs(r)
  BY <1>2, <1>9, <1>13 DEF GoodTab, CoversPairs
<1>16. IsFewer(r, t)
  BY <1>2, <1>9, <1>13, <1>14, <1>15, FewerLayers DEF GoodTab
<1>17. QED
  BY <1>2, <1>8, <1>10, <1>13, <1>16 DEF IsRetouched

(* r is t with another setting for one pair.                               *)
IsChanged(r, t, id) ==
  /\ IsFewer(r, t)
  /\ r.layers = t.layers
  /\ \A p : Has(r.comparisons, p) <=> Has(t.comparisons, p)
  /\ \A p \in LayerId \X LayerId : Has(t.comparisons, p) =>
       /\ p # id => SettingIn(r.comparisons, p) = SettingIn(t.comparisons, p)
       /\ SettingIn(r.comparisons, p) \in [thresholds : Seq(Threshold), visible : BOOLEAN]

LEMMA SameFirst ==
  ASSUME NEW cs \in Seq(Comparison), NEW r \in Seq(Comparison), Len(r) = Len(cs),
         \A i \in 1..Len(cs) : r[i].id = cs[i].id, NEW p
  PROVE  FirstAt(r, p) = FirstAt(cs, p) /\ (Has(r, p) <=> Has(cs, p))
<1>1. PICK n \in Nat : n = Len(cs) /\ n = Len(r) /\ \A i \in 1..n : r[i].id = cs[i].id
  BY LenProperties
<1>2. Has(r, p) <=> Has(cs, p)
  BY <1>1 DEF Has
<1>3. PICK f \in 0..n : f = FirstAt(cs, p)
  BY <1>1, FirstAtIs
<1>4. PICK g \in 0..n : g = FirstAt(r, p)
  BY <1>1, FirstAtIs
<1>5. /\ f > 0 <=> \E i \in 1..n : cs[i].id = p
      /\ f > 0 => cs[f].id = p /\ \A i \in 1..n : i < f => cs[i].id # p
  BY <1>1, <1>3, FirstAtIs
<1>6. /\ g > 0 <=> \E i \in 1..n : r[i].id = p
      /\ g > 0 => r[g].id = p /\ \A i \in 1..n : i < g => r[i].id # p
  BY <1>1, <1>4, FirstAtIs
<1>7. g > 0 <=> f > 0
  BY <1>1, <1>5, <1>6
<1>8. g = f
  BY <1>1, <1>5, <1>6, <1>7
<1>9. QED
  BY <1>2, <1>3, <1>4, <1>8

LEMMA UpdateComparisonTab ==
  ASSUME NEW t, GoodTab(t), NEW c \in Comparison
  PROVE  IsChanged(UpdateComparison(t, c.id, c), t, c.id)
<1>1. IsTab(t)
  BY DEF GoodTab
<1>2. PICK cs \in Seq(Comparison) : cs = t.comparisons
  BY <1>1 DEF IsTab
<1>3. PICK n \in Nat : n = Len(cs) /\ DOMAIN cs = 1..n /\ \A i \in 1..n : cs[i] \in Comparison
  BY LenProperties, ElementOfSeq
<1>4. PICK changed : changed = [i \in DOMAIN cs |-> IF cs[i].id = c.id THEN c ELSE cs[i]]
  OBVIOUS
<1>5. \A i \in 1..n : /\ changed[i] \in Comparison /\ changed[i].id = cs[i].id
                      /\ cs[i].id # c.id => changed[i] = cs[i]
  BY <1>3, <1>4
<1>6. changed \in [1..n -> Comparison]
  BY <1>3, <1>4, <1>5
<1>7. changed \in Seq(Comparison) /\ Len(changed) = n
  BY <1>6
<1>8. PICK r : r = UpdateComparison(t, c.id, c)
  OBVIOUS
<1>9. r = [t EXCEPT !.comparisons = changed]
  BY <1>2, <1>4, <1>8, Zenon DEF UpdateComparison
<1>10. r = [importedSweepTaskIds |-> t.importedSweepTaskIds, axisSignature |-> t.axisSignature,
            xAxisName |-> t.xAxisName, yAxisName |-> t.yAxisName, sliceValues |-> t.sliceValues,
            layers |-> t.layers, comparisons |-> changed]
  BY <1>1, <1>9 DEF IsTab
<1>11. /\ r.importedSweepTaskIds = t.importedSweepTaskIds /\ r.axisSignature = t.axisSignature
       /\ r.xAxisName = t.xAxisName /\ r.yAxisName = t.yAxisName
       /\ r.sliceValues = t.sliceValues /\ r.layers = t.layers /\ r.comparisons = changed
  BY <1>10
<1>12. IsTab(r)
  BY <1>1, <1>7, <1>10, <1>11, Zenon DEF IsTab
<1>13. ASSUME NEW p
       PROVE  FirstAt(changed, p) = FirstAt(cs, p) /\ (Has(changed, p) <=> Has(cs, p))
  BY <1>3, <1>5, <1>7, SameFirst
<1>14. CoversPairs(r)
  <2>1. cs = <<>> => changed = <<>>
    BY <1>3, <1>7, EmptySeq, EmptyListIs
  <2>2. QED
    BY <1>2, <1>11, <1>13, <2>1 DEF GoodTab, CoversPairs
<1>15. IsFewer(r, t)
  BY <1>11, <1>12, <1>14, FewerLayers DEF GoodTab
<1>16. ASSUME NEW p \in LayerId \X LayerId, Has(cs, p)
       PROVE  /\ p # c.id => SettingIn(changed, p) = SettingIn(cs, p)
              /\ SettingIn(changed, p) \in [thresholds : Seq(Threshold), visible : BOOLEAN]
  <2>1. FirstAt(cs, p) > 0
    BY <1>3, <1>16, FirstAtIs DEF Has
  <2>2. PICK k \in 1..n : k = FirstAt(cs, p) /\ cs[k].id = p
    BY <1>3, <2>1, FirstAtIs
  <2>3. k = FirstAt(changed, p)
    BY <1>13, <2>2
  <2>4. SettingIn(changed, p) = SettingOf(changed[k]) /\ SettingIn(cs, p) = SettingOf(cs[k])
    BY <2>2, <2>3, Zenon DEF SettingIn
  <2>5. changed[k] \in Comparison /\ (p # c.id => changed[k] = cs[k])
    BY <1>5, <2>2
  <2>6. SettingOf(changed[k]) \in [thresholds : Seq(Threshold), visible : BOOLEAN]
    BY <2>5 DEF SettingOf, Comparison
  <2>7. QED
    BY <2>4, <2>5, <2>6
<1>17. QED
  BY <1>2, <1>8, <1>11, <1>13, <1>15, <1>16 DEF IsChanged

(* t with other axes and slices.                                           *)
WithAxes(t, x, y, slices) ==
  [importedSweepTaskIds |-> t.importedSweepTaskIds, axisSignature |-> t.axisSignature,
   xAxisName |-> x, yAxisName |-> y, sliceValues |-> slices,
   layers |-> t.layers, comparisons |-> t.comparisons]

LEMMA AxesTab ==
  ASSUME NEW t, GoodTab(t), NEW x \in Axis \cup {NoAxis}, NEW y \in Axis \cup {NoAxis},
         NEW slices, IsSlices(slices), DOMAIN t.sliceValues \subseteq DOMAIN slices
  PROVE  IsRetouched(WithAxes(t, x, y, slices), t)
<1>1. IsTab(t)
  BY DEF GoodTab
<1>2. PICK r : r = WithAxes(t, x, y, slices)
  OBVIOUS
<1>3. r = [importedSweepTaskIds |-> t.importedSweepTaskIds, axisSignature |-> t.axisSignature,
           xAxisName |-> x, yAxisName |-> y, sliceValues |-> slices,
           layers |-> t.layers, comparisons |-> t.comparisons]
  BY <1>2 DEF WithAxes
<1>4. /\ r.importedSweepTaskIds = t.importedSweepTaskIds /\ r.axisSignature = t.axisSignature
      /\ r.xAxisName = x /\ r.yAxisName = y
      /\ r.sliceValues = slices /\ r.layers = t.layers /\ r.comparisons = t.comparisons
  BY <1>3
<1>5. IsTab(r)
  BY <1>1, <1>3, <1>4, Zenon DEF IsTab
<1>6. CoversPairs(r)
  BY <1>4 DEF GoodTab, CoversPairs
<1>7. IsFewer(r, t)
  BY <1>4, <1>5, <1>6, FewerLayers DEF GoodTab
<1>8. QED
  BY <1>2, <1>4, <1>7 DEF IsRetouched

-----------------------------------------------------------------------------
(* The imports and the component                                           *)

IsImport(i) == \E A \in SUBSET Axis : i \in Import(A)

(* The types of everything but the tab.                                    *)
TypeRest ==
  /\ shown \in {"tab", "other", "elsewhere"}
  /\ inst \in 0..MaxMounts
  /\ Mounted => inst # 0
  /\ ui \in [parsing : BOOLEAN, error : BOOLEAN]
  /\ worker \in [Instance -> {"none", "loading", "ok", "dead"}]
  /\ imports = [s \in Slot |-> imports[s]]
  /\ \A s \in Slot : imports[s] # Null => IsImport(imports[s])
  /\ begun \in 0..MaxImports
  /\ edits \in 0..MaxEdits
  /\ moved \in BOOLEAN

(* The imports and the component hold together.                            *)
SideInv == TypeRest /\ ParsingMeansWork

ImportNotNull == \A i : IsImport(i) => i # Null

LEMMA ImportIsNotNull == ImportNotNull
BY NullAssumption DEF IsImport, ImportNotNull

LEMMA Bounds ==
  /\ MaxMounts \in Nat /\ MaxThresholds \in Nat /\ MaxEdits \in Nat /\ MaxImports \in Nat
BY TabAssumption

(* Imports end, or go on with what they knew when they began.              *)
SlotsFade ==
  \A s \in Slot : imports'[s] # Null =>
    /\ imports[s] # Null
    /\ imports'[s].task = imports[s].task
    /\ imports'[s].snapshot = imports[s].snapshot

(* The end of some imports, on screen or not.                              *)
LEMMA EndStep ==
  ASSUME SideInv, NEW S, NEW failed \in BOOLEAN, EndImports(S, failed),
         UNCHANGED <<shown, inst, begun, edits>>,
         worker' \in [Instance -> {"none", "loading", "ok", "dead"}], moved' \in BOOLEAN
  PROVE  SideInv' /\ SlotsFade
<1>1. imports' = [s \in Slot |-> IF s \in S THEN Null ELSE imports[s]] /\ ui' = UiAfter(S, failed)
  BY DEF EndImports
<1>2. \A s \in Slot : imports'[s] = IF s \in S THEN Null ELSE imports[s]
  BY <1>1
<1>3. imports' = [s \in Slot |-> imports'[s]]
  BY <1>1
<1>4. ui' = UiAfter(S, failed)
  BY <1>1
<1>5. ui' \in [parsing : BOOLEAN, error : BOOLEAN]
  BY <1>4 DEF UiAfter, SideInv, TypeRest
<1>6. TypeRest'
  BY <1>2, <1>3, <1>5 DEF SideInv, TypeRest, Mounted, Instance
<1>7. SlotsFade
  BY <1>2 DEF SlotsFade
<1>8. ParsingMeansWork'
  <2>1. SUFFICES ASSUME ui'.parsing
                 PROVE  Mounted' /\ \E s \in Slot : imports'[s] # Null /\ imports'[s].inst = inst'
    BY DEF ParsingMeansWork
  <2>2. ~(Mounted /\ \E s \in S : imports[s].inst = inst) /\ ui' = ui
    BY <1>4, <2>1 DEF UiAfter, SideInv, TypeRest
  <2>3. Mounted /\ \E s \in Slot : imports[s] # Null /\ imports[s].inst = inst
    BY <2>1, <2>2 DEF SideInv, ParsingMeansWork
  <2>4. PICK s \in Slot : imports[s] # Null /\ imports[s].inst = inst
    BY <2>3
  <2>5. s \notin S
    BY <2>2, <2>3, <2>4
  <2>6. imports'[s] = imports[s]
    BY <1>2, <2>5
  <2>7. QED
    BY <2>3, <2>4, <2>6 DEF Mounted
<1>9. QED
  BY <1>6, <1>7, <1>8 DEF SideInv

LEMMA BeginStep ==
  ASSUME SideInv, NEW s \in Slot, NEW t \in SweepTask, BeginImport(s, t), GoodTab(tab)
  PROVE  /\ SideInv'
         /\ \A k \in Slot \ {s} : imports'[k] = imports[k]
         /\ imports'[s].snapshot = tab.axisSignature
<1>1. PICK new : new = [task |-> t, snapshot |-> tab.axisSignature, phase |-> "download", inst |-> inst]
  OBVIOUS
<1>2. /\ imports' = [imports EXCEPT ![s] = new] /\ ui' = [parsing |-> TRUE, error |-> FALSE]
      /\ UNCHANGED <<tab, shown, inst, worker, edits, moved>>
      /\ begun < MaxImports /\ s = begun + 1 /\ begun' = s
  BY <1>1, Zenon DEF BeginImport
<1>3. Mounted /\ inst \in Instance
  <2>1. Mounted
    BY DEF BeginImport, OnTab, Mounted
  <2>2. QED
    BY <2>1, Bounds DEF SideInv, TypeRest, Instance
<1>4. IsImport(new)
  <2>1. tab.axisSignature = Null \/ IsSignature(tab.axisSignature)
    BY DEF GoodTab, IsTab
  <2>2. PICK A \in SUBSET Axis : tab.axisSignature \in Signature(A) \cup {Null}
    BY <2>1 DEF IsSignature
  <2>3. new \in Import(A)
    BY <1>1, <1>3, <2>2 DEF Import
  <2>4. QED
    BY <2>3 DEF IsImport
<1>5. imports = [k \in Slot |-> imports[k]]
  BY DEF SideInv, TypeRest
<1>6. imports' = [k \in Slot |-> IF k = s THEN new ELSE imports[k]]
  BY <1>2, <1>5
<1>7. \A k \in Slot : imports'[k] = IF k = s THEN new ELSE imports[k]
  BY <1>6
<1>8. imports' = [k \in Slot |-> imports'[k]]
  BY <1>6
<1>9. new # Null /\ new.inst = inst /\ new.snapshot = tab.axisSignature
  BY <1>1, <1>4, ImportIsNotNull DEF ImportNotNull
<1>10. begun' \in 0..MaxImports
  BY <1>2, Bounds DEF Slot
<1>11. TypeRest'
  BY <1>2, <1>4, <1>7, <1>8, <1>10 DEF SideInv, TypeRest, Mounted
<1>12. ParsingMeansWork'
  BY <1>2, <1>3, <1>7, <1>9 DEF ParsingMeansWork, Mounted
<1>13. QED
  BY <1>7, <1>9, <1>11, <1>12 DEF SideInv

LEMMA DownloadedStep ==
  ASSUME SideInv, NEW s \in Slot, Downloaded(s)
  PROVE  SideInv' /\ SlotsFade
<1>1. /\ UNCHANGED <<tab, shown, inst, ui, begun, edits, moved>>
      /\ imports[s] # Null /\ imports[s].inst \in Instance
  <2>1. imports[s] # Null
    BY DEF Downloaded, InPhase
  <2>2. IsImport(imports[s])
    BY <2>1 DEF SideInv, TypeRest
  <2>3. QED
    BY <2>1, <2>2 DEF Downloaded, IsImport, Import
<1>2. PICK k \in Instance : k = imports[s].inst
  BY <1>1
<1>3. worker' \in [Instance -> {"none", "loading", "ok", "dead"}]
  BY <1>2 DEF Downloaded, SideInv, TypeRest
<1>4. PICK phase \in {"lost", "parse"} : phase = IF worker[k] = "dead" THEN "lost" ELSE "parse"
  OBVIOUS
<1>5. imports' = [imports EXCEPT ![s].phase = phase]
  BY <1>2, <1>4 DEF Downloaded
<1>6. PICK i : i = imports[s]
  OBVIOUS
<1>7. IsImport(i)
  BY <1>1, <1>6 DEF SideInv, TypeRest
<1>8. PICK A \in SUBSET Axis : i \in Import(A)
  BY <1>7 DEF IsImport
<1>9. PICK new : new = [i EXCEPT !.phase = phase]
  OBVIOUS
<1>10. new \in Import(A) /\ new.task = i.task /\ new.snapshot = i.snapshot /\ new.inst = i.inst
  BY <1>4, <1>8, <1>9 DEF Import
<1>11. IsImport(new) /\ new # Null
  BY <1>10, ImportIsNotNull DEF ImportNotNull, IsImport
<1>12. imports' = [imports EXCEPT ![s] = new]
  BY <1>5, <1>6, <1>9
<1>13. imports = [j \in Slot |-> imports[j]]
  BY DEF SideInv, TypeRest
<1>14. imports' = [j \in Slot |-> IF j = s THEN new ELSE imports[j]]
  BY <1>12, <1>13
<1>15. \A j \in Slot : imports'[j] = IF j = s THEN new ELSE imports[j]
  BY <1>14
<1>16. imports' = [j \in Slot |-> imports'[j]]
  BY <1>14
<1>17. TypeRest'
  BY <1>1, <1>3, <1>11, <1>15, <1>16 DEF SideInv, TypeRest, Mounted
<1>18. SlotsFade
  BY <1>1, <1>6, <1>10, <1>15 DEF SlotsFade
<1>19. ParsingMeansWork'
  BY <1>1, <1>6, <1>10, <1>11, <1>15 DEF SideInv, ParsingMeansWork, Mounted
<1>20. QED
  BY <1>17, <1>18, <1>19 DEF SideInv

(* What the imports of a tab to be repaired knew: the names of its axes.   *)
ImportsKnowOldAxes ==
  tab # Null /\ tab.axisSignature # Null /\ ~HasValues(tab) /\ tab.axisSignature.axisNames # <<>> =>
    \A s \in Slot : imports[s] # Null =>
      /\ imports[s].snapshot # Null
      /\ imports[s].snapshot.axisNames = tab.axisSignature.axisNames

(* The inductive invariant.                                                *)
IInv ==
  /\ SideInv
  /\ tab # Null => GoodTab(tab)
  /\ tab # Null /\ ~moved => SharesAxes(tab)
  /\ ImportsKnowOldAxes

(* The four kinds of steps.                                                *)
Quiet == tab' \in {tab, Null} /\ moved' = moved /\ SlotsFade

Edited ==
  /\ tab # Null /\ moved' = moved /\ SlotsFade
  /\ \/ IsMounted(tab', tab)
     \/ IsArranged(tab', tab)
     \/ IsRetouched(tab', tab)
     \/ \E id : Has(tab.comparisons, id) /\ IsChanged(tab', tab, id)

Began ==
  /\ tab # Null /\ tab' = tab /\ moved' = moved
  /\ \E s \in Slot : /\ \A k \in Slot \ {s} : imports'[k] = imports[k]
                     /\ imports'[s].snapshot = tab.axisSignature

Arrived ==
  /\ tab # Null /\ SlotsFade
  /\ \E s \in Slot :
       /\ imports[s] # Null /\ imports[s].task \in SweepTask /\ ~Refused(imports[s])
       /\ IsAdded(tab', tab, imports[s].task)
       /\ moved' = (moved \/ ~SameAxes(imports[s].snapshot, tab.axisSignature))

StepIsKnown == SideInv' /\ (Quiet \/ Edited \/ Began \/ Arrived)

(* Steps that leave the imports alone.                                     *)
LEMMA StillStep ==
  ASSUME SideInv, UNCHANGED <<inst, worker, imports, begun, moved>>, edits' \in 0..MaxEdits,
         \/ UNCHANGED <<shown, ui>>
         \/ Mounted /\ Mounted' /\ UNCHANGED ui
         \/ ~Mounted' /\ ui' = NoUi,
         shown' \in {"tab", "other", "elsewhere"}
  PROVE  SideInv' /\ SlotsFade
<1>1. SlotsFade
  BY DEF SlotsFade
<1>2. ui' \in [parsing : BOOLEAN, error : BOOLEAN]
  <2>1. ui' = ui \/ ui' = NoUi
    OBVIOUS
  <2>2. ui \in [parsing : BOOLEAN, error : BOOLEAN] /\ NoUi \in [parsing : BOOLEAN, error : BOOLEAN]
    BY DEF SideInv, TypeRest, NoUi
  <2>3. QED
    BY <2>1, <2>2
<1>3. TypeRest'
  <2>1. inst' = inst /\ worker' = worker /\ imports' = imports /\ begun' = begun /\ moved' = moved
    OBVIOUS
  <2>2. Mounted' => inst # 0
    BY DEF SideInv, TypeRest, Mounted
  <2>3. QED
    BY <1>2, <2>1, <2>2 DEF SideInv, TypeRest, Mounted
<1>4. ParsingMeansWork'
  BY DEF SideInv, ParsingMeansWork, NoUi, Mounted
<1>5. QED
  BY <1>1, <1>3, <1>4 DEF SideInv

LEMMA RouterStep ==
  ASSUME IInv, MountOther \/ Switch \/ Unmount \/ CloseTab \/ Reload \/ DismissError
  PROVE  SideInv' /\ Quiet
<1>1. SideInv /\ edits \in 0..MaxEdits
  BY DEF IInv, SideInv, TypeRest
<1>2. CASE MountOther
  <2>1. SlotsFade
    BY <1>2 DEF MountOther, SlotsFade
  <2>2. inst' \in 0..MaxMounts /\ inst' # 0
    BY <1>1, <1>2, Bounds DEF MountOther, SideInv, TypeRest
  <2>3. TypeRest'
    BY <1>1, <1>2, <2>2 DEF MountOther, SideInv, TypeRest, Mounted
  <2>4. ParsingMeansWork'
    BY <1>1, <1>2 DEF MountOther, SideInv, ParsingMeansWork
  <2>5. QED
    BY <1>2, <2>1, <2>3, <2>4 DEF MountOther, Quiet, SideInv
<1>3. CASE Switch
  <2>1. UNCHANGED <<tab, inst, ui, worker, imports, begun, edits, moved>>
    BY <1>3 DEF Switch
  <2>2. Mounted /\ Mounted' /\ shown' \in {"tab", "other", "elsewhere"}
    BY <1>3 DEF Switch, Mounted
  <2>3. QED
    BY <1>1, <2>1, <2>2, StillStep DEF Quiet
<1>4. CASE Unmount
  <2>1. UNCHANGED <<tab, inst, worker, imports, begun, edits, moved>> /\ shown' = "elsewhere" /\ ui' = NoUi
    BY <1>4 DEF Unmount
  <2>2. ~Mounted'
    BY <2>1 DEF Mounted
  <2>3. QED
    BY <1>1, <2>1, <2>2, StillStep DEF Quiet
<1>5. CASE CloseTab
  <2>1. UNCHANGED <<inst, worker, imports, begun, edits, moved>> /\ tab' = Null
    BY <1>5 DEF CloseTab
  <2>2. \/ UNCHANGED <<shown, ui>>
        \/ ~Mounted' /\ ui' = NoUi /\ shown' = "elsewhere"
    BY <1>5 DEF CloseTab, Mounted
  <2>3. shown' \in {"tab", "other", "elsewhere"}
    BY <1>1, <2>2 DEF SideInv, TypeRest
  <2>4. QED
    BY <1>1, <2>1, <2>2, <2>3, StillStep DEF Quiet
<1>6. CASE Reload
  <2>1. /\ UNCHANGED <<tab, inst, begun, edits, moved>> /\ shown' = "elsewhere" /\ ui' = NoUi
        /\ worker' = [k \in Instance |-> "none"] /\ imports' = [s \in Slot |-> Null]
    BY <1>6 DEF Reload
  <2>2. \A s \in Slot : imports'[s] = Null
    BY <2>1
  <2>3. imports' = [s \in Slot |-> imports'[s]]
    BY <2>1
  <2>4. ui' \in [parsing : BOOLEAN, error : BOOLEAN] /\ ~ui'.parsing
    BY <2>1 DEF NoUi
  <2>5. SlotsFade
    BY <2>2 DEF SlotsFade
  <2>6. worker' \in [Instance -> {"none", "loading", "ok", "dead"}]
    BY <2>1
  <2>7. TypeRest'
    BY <1>1, <2>1, <2>2, <2>3, <2>4, <2>6 DEF SideInv, TypeRest, Mounted
  <2>8. ParsingMeansWork'
    BY <2>4 DEF ParsingMeansWork
  <2>9. QED
    BY <2>1, <2>5, <2>7, <2>8 DEF Quiet, SideInv
<1>7. CASE DismissError
  <2>1. /\ UNCHANGED <<tab, shown, inst, worker, imports, begun, edits, moved>>
        /\ ui' = [ui EXCEPT !.error = FALSE]
    BY <1>7 DEF DismissError
  <2>2. ui' \in [parsing : BOOLEAN, error : BOOLEAN] /\ ui'.parsing = ui.parsing
    BY <1>1, <2>1 DEF SideInv, TypeRest
  <2>3. SlotsFade
    BY <2>1 DEF SlotsFade
  <2>4. TypeRest'
    BY <1>1, <2>1, <2>2 DEF SideInv, TypeRest, Mounted
  <2>5. ParsingMeansWork'
    BY <1>1, <2>1, <2>2 DEF SideInv, ParsingMeansWork, Mounted
  <2>6. QED
    BY <2>1, <2>3, <2>4, <2>5 DEF Quiet, SideInv
<1>8. QED
  BY <1>2, <1>3, <1>4, <1>5, <1>6, <1>7

LEMMA MountStep ==
  ASSUME IInv, Mount
  PROVE  SideInv' /\ Edited
<1>1. SideInv /\ tab # Null /\ GoodTab(tab)
  BY DEF IInv, Mount
<1>2. /\ tab' = Sync(tab) /\ ~Mounted /\ shown' = "tab" /\ inst' = inst + 1 /\ inst < MaxMounts
      /\ UNCHANGED <<ui, worker, imports, begun, edits, moved>>
  BY DEF Mount
<1>3. SlotsFade
  BY <1>2 DEF SlotsFade
<1>4. inst' \in 0..MaxMounts /\ inst' # 0
  BY <1>1, <1>2, Bounds DEF SideInv, TypeRest
<1>5. TypeRest'
  BY <1>1, <1>2, <1>4 DEF SideInv, TypeRest, Mounted
<1>6. ParsingMeansWork'
  BY <1>1, <1>2 DEF SideInv, ParsingMeansWork
<1>7. IsMounted(tab', tab)
  BY <1>1, <1>2, SyncTab
<1>8. QED
  BY <1>1, <1>2, <1>3, <1>5, <1>6, <1>7 DEF Edited, SideInv

LEMMA WorkerStep ==
  ASSUME IInv, NEW k \in Instance, WorkerLoads(k) \/ WorkerFails(k)
  PROVE  SideInv' /\ Quiet
<1>1. SideInv
  BY DEF IInv
<1>2. CASE WorkerLoads(k)
  <2>1. /\ worker' = [worker EXCEPT ![k] = "ok"]
        /\ UNCHANGED <<tab, shown, inst, ui, imports, begun, edits, moved>>
    BY <1>2 DEF WorkerLoads
  <2>2. worker' \in [Instance -> {"none", "loading", "ok", "dead"}]
    BY <1>1, <2>1 DEF SideInv, TypeRest
  <2>3. TypeRest'
    BY <1>1, <2>1, <2>2 DEF SideInv, TypeRest, Mounted
  <2>4. ParsingMeansWork'
    BY <1>1, <2>1 DEF SideInv, ParsingMeansWork, Mounted
  <2>5. SlotsFade
    BY <2>1 DEF SlotsFade
  <2>6. QED
    BY <2>1, <2>3, <2>4, <2>5 DEF Quiet, SideInv
<1>3. CASE WorkerFails(k)
  <2>1. /\ worker' = [worker EXCEPT ![k] = "dead"] /\ EndImports(PendingOn(k), TRUE)
        /\ UNCHANGED <<tab, shown, inst, begun, edits, moved>>
    BY <1>3 DEF WorkerFails
  <2>2. worker' \in [Instance -> {"none", "loading", "ok", "dead"}] /\ moved' \in BOOLEAN
    BY <1>1, <2>1 DEF SideInv, TypeRest
  <2>3. QED
    BY <1>1, <2>1, <2>2, EndStep DEF Quiet
<1>4. QED
  BY <1>2, <1>3

LEMMA ImportFails ==
  ASSUME IInv, NEW s \in Slot, DownloadFails(s) \/ ParseFails(s) \/ Downloaded(s)
  PROVE  SideInv' /\ Quiet
<1>1. SideInv
  BY DEF IInv
<1>2. CASE DownloadFails(s) \/ ParseFails(s)
  <2>1. EndImports({s}, TRUE) /\ UNCHANGED <<tab, shown, inst, worker, begun, edits, moved>>
    BY <1>2 DEF DownloadFails, ParseFails
  <2>2. worker' \in [Instance -> {"none", "loading", "ok", "dead"}] /\ moved' \in BOOLEAN
    BY <1>1, <2>1 DEF SideInv, TypeRest
  <2>3. QED
    BY <1>1, <2>1, <2>2, EndStep DEF Quiet
<1>3. CASE Downloaded(s)
  <2>1. UNCHANGED <<tab, moved>>
    BY <1>3 DEF Downloaded
  <2>2. QED
    BY <1>1, <1>3, <2>1, DownloadedStep DEF Quiet
<1>4. QED
  BY <1>2, <1>3

(* An import that was not refused has rows and the axes it had seen.       *)
LEMMA ParsedStep ==
  ASSUME IInv, NEW s \in Slot, Parsed(s)
  PROVE  SideInv' /\ (Quiet \/ Arrived)
<1>1. SideInv
  BY DEF IInv
<1>2. PICK i : i = imports[s]
  OBVIOUS
<1>3. i # Null
  BY <1>2 DEF Parsed, InPhase
<1>4. IsImport(i)
  BY <1>1, <1>2, <1>3 DEF SideInv, TypeRest
<1>5. i.task \in SweepTask
  BY <1>4 DEF IsImport, Import
<1>6. /\ EndImports({s}, Refused(i)) /\ UNCHANGED <<shown, inst, worker, begun, edits>>
      /\ \/ UNCHANGED <<tab, moved>>
         \/ /\ ~Refused(i) /\ tab # Null
            /\ tab' = AddLayers(tab, NormalizeSweep(i.task), i.task, SignatureOf[i.task])
            /\ moved' = (moved \/ ~SameAxes(i.snapshot, tab.axisSignature))
  BY <1>2 DEF Parsed
<1>7. moved' \in BOOLEAN /\ worker' \in [Instance -> {"none", "loading", "ok", "dead"}]
  BY <1>1, <1>6 DEF SideInv, TypeRest
<1>8. Refused(i) \in BOOLEAN
  BY DEF Refused
<1>9. SideInv' /\ SlotsFade
  BY <1>1, <1>6, <1>7, <1>8, EndStep
<1>10. CASE UNCHANGED <<tab, moved>>
  BY <1>9, <1>10 DEF Quiet
<1>11. CASE /\ ~Refused(i) /\ tab # Null
            /\ tab' = AddLayers(tab, NormalizeSweep(i.task), i.task, SignatureOf[i.task])
            /\ moved' = (moved \/ ~SameAxes(i.snapshot, tab.axisSignature))
  <2>1. GoodTab(tab) /\ RowsOf[i.task] # <<>>
    BY <1>11 DEF IInv, Refused
  <2>2. tab.axisSignature # Null /\ ~HasValues(tab) /\ tab.axisSignature.axisNames # <<>>
        => AxesOf(i.task) = tab.axisSignature.axisNames
    <3>1. SUFFICES ASSUME tab.axisSignature # Null, ~HasValues(tab), tab.axisSignature.axisNames # <<>>
                   PROVE  AxesOf(i.task) = tab.axisSignature.axisNames
      OBVIOUS
    <3>2. i.snapshot # Null /\ i.snapshot.axisNames = tab.axisSignature.axisNames
      BY <1>2, <1>3, <1>11, <3>1 DEF IInv, ImportsKnowOldAxes
    <3>3. IsCompatible(i.snapshot, SignatureOf[i.task])
      BY <1>11, <3>2 DEF Refused
    <3>4. QED
      BY <3>2, <3>3 DEF IsCompatible, AxesOf
  <2>3. IsAdded(tab', tab, i.task)
    BY <1>5, <1>11, <2>1, <2>2, AddTab
  <2>4. QED
    BY <1>2, <1>3, <1>5, <1>9, <1>11, <2>3 DEF Arrived
<1>12. QED
  BY <1>6, <1>10, <1>11

LEMMA RemoveAtIn ==
  ASSUME NEW X, NEW q \in Seq(X), NEW a \in 1..Len(q)
  PROVE  RemoveAt(q, a) \in Seq(X)
<1>1. PICK n \in Nat : n = Len(q)
  BY LenProperties
<1>2. /\ 1 \in 1..(Len(q) + 1) /\ a - 1 \in 0..Len(q)
      /\ a + 1 \in 1..(Len(q) + 1) /\ Len(q) \in 0..Len(q)
  BY <1>1
<1>3. SubSeq(q, 1, a - 1) \in Seq(X) /\ SubSeq(q, a + 1, Len(q)) \in Seq(X)
  BY <1>2, SubSeqSet
<1>4. QED
  BY <1>3, ConcatProperties, Zenon DEF RemoveAt

(* Edits of the tab itself.                                                *)
LEMMA EditStep ==
  ASSUME IInv, tab # Null, NEW r, Edit(r),
         \/ IsArranged(r, tab) \/ IsRetouched(r, tab)
         \/ \E id : Has(tab.comparisons, id) /\ IsChanged(r, tab, id)
  PROVE  SideInv' /\ Edited
<1>1. SideInv
  BY DEF IInv
<1>2. /\ tab' = r /\ UNCHANGED <<shown, inst, ui, worker, imports, begun, moved>>
      /\ edits' = edits + 1 /\ edits < MaxEdits
  BY DEF Edit
<1>3. edits' \in 0..MaxEdits /\ shown' \in {"tab", "other", "elsewhere"}
  BY <1>1, <1>2, Bounds DEF SideInv, TypeRest
<1>4. SideInv' /\ SlotsFade
  BY <1>1, <1>2, <1>3, StillStep
<1>5. QED
  BY <1>2, <1>4 DEF Edited

LEMMA PlaceIs ==
  ASSUME IInv, tab # Null, NEW id \in LayerIds
  PROVE  Place(id) \in 1..Len(tab.layers)
<1>1. PICK all \in Seq(Layer) : all = tab.layers
  BY DEF IInv, GoodTab, IsTab
<1>2. PICK n \in Nat : n = Len(all) /\ DOMAIN all = 1..n
  BY <1>1, LenProperties
<1>3. PICK f : f = FirstAt(all, id)
  OBVIOUS
<1>4. f \in 0..n /\ (f > 0 <=> \E i \in 1..n : all[i].id = id)
  BY <1>2, <1>3, FirstAtIs
<1>5. \E i \in 1..n : all[i].id = id
  BY <1>1, <1>2 DEF LayerIds
<1>6. f = Place(id)
  BY <1>1, <1>3, Zenon DEF FirstAt, Place, SelectInSeq
<1>7. QED
  BY <1>1, <1>2, <1>4, <1>5, <1>6

LEMMA LayersStep ==
  ASSUME IInv, EditLayers
  PROVE  SideInv' /\ Edited
<1>1. SideInv /\ tab # Null /\ GoodTab(tab) /\ IsTab(tab)
  BY DEF IInv, EditLayers, OnTab, GoodTab
<1>2. ASSUME NEW a \in LayerIds, NEW b \in LayerIds, DragEnd(a, b)
      PROVE  SideInv' /\ Edited
  <2>1. Place(a) \in 1..Len(tab.layers) /\ Place(b) \in 1..Len(tab.layers)
    BY <1>1, PlaceIs
  <2>2. IsArranged(ReorderLayers(tab, Place(a), Place(b)), tab)
    BY <1>1, <2>1, ReorderTab
  <2>3. QED
    BY <1>1, <1>2, <2>2, EditStep DEF DragEnd
<1>3. ASSUME NEW id \in LayerIds, ToggleLayer(id)
      PROVE  SideInv' /\ Edited
  <2>1. PICK v : v = ~tab.layers[Place(id)].visible
    OBVIOUS
  <2>2. v \in BOOLEAN
    BY <2>1
  <2>3. IsRetouched(UpdateLayer(tab, id, v), tab)
    BY <1>1, <2>2, UpdateLayerTab
  <2>4. Edit(UpdateLayer(tab, id, v))
    BY <1>3, <2>1 DEF ToggleLayer
  <2>5. QED
    BY <1>1, <2>3, <2>4, EditStep
<1>4. ASSUME NEW id \in LayerIds, OnRemove(id)
      PROVE  SideInv' /\ Edited
  <2>1. tab' = RemoveLayer(tab, id) /\ UNCHANGED <<shown, inst, ui, worker, imports, begun, edits, moved>>
    BY <1>4 DEF OnRemove
  <2>2. IsArranged(RemoveLayer(tab, id), tab)
    BY <1>1, RemoveTab
  <2>3. edits' \in 0..MaxEdits /\ shown' \in {"tab", "other", "elsewhere"}
    BY <1>1, <2>1 DEF SideInv, TypeRest
  <2>4. SideInv' /\ SlotsFade
    BY <1>1, <2>1, <2>3, StillStep
  <2>5. QED
    BY <1>1, <2>1, <2>2, <2>4 DEF Edited
<1>5. ASSUME NEW n \in DOMAIN tab.comparisons, NEW c, c \in Comparison, c.id = tab.comparisons[n].id,
             Edit(UpdateComparison(tab, c.id, c))
      PROVE  SideInv' /\ Edited
  <2>1. n \in 1..Len(tab.comparisons)
    BY <1>1, LenProperties DEF IsTab
  <2>2. Has(tab.comparisons, c.id)
    BY <1>5, <2>1 DEF Has
  <2>3. IsChanged(UpdateComparison(tab, c.id, c), tab, c.id)
    BY <1>1, <1>5, UpdateComparisonTab
  <2>4. QED
    BY <1>1, <1>5, <2>2, <2>3, EditStep
<1>6. ASSUME NEW n \in ActiveComparisons,
             \/ \E v \in Threshold : AddThreshold(n, v)
             \/ \E index \in DOMAIN tab.comparisons[n].thresholds : RemoveThreshold(n, index)
             \/ ToggleComparison(n)
      PROVE  SideInv' /\ Edited
  <2>1. n \in DOMAIN tab.comparisons
    BY DEF ActiveComparisons
  <2>2. PICK c : c = tab.comparisons[n]
    OBVIOUS
  <2>3. c \in Comparison
    BY <1>1, <2>1, <2>2, LenProperties, ElementOfSeq DEF IsTab
  <2>4. PICK old \in Seq(Threshold) : old = c.thresholds
    BY <2>3 DEF Comparison
  <2>5. ASSUME NEW new \in Seq(Threshold)
        PROVE  [c EXCEPT !.thresholds = new] \in Comparison /\ [c EXCEPT !.thresholds = new].id = c.id
    BY <2>3 DEF Comparison
  <2>6. ASSUME NEW v \in Threshold, AddThreshold(n, v)
        PROVE  SideInv' /\ Edited
    <3>1. PICK new \in Seq(Threshold) : new = Append(old, v)
      BY AppendProperties
    <3>2. PICK d : d = [c EXCEPT !.thresholds = new]
      OBVIOUS
    <3>3. d \in Comparison /\ d.id = c.id
      BY <2>5, <3>2
    <3>4. Edit(UpdateComparison(tab, c.id, [c EXCEPT !.thresholds = Append(@, v)]))
      BY <2>2, <2>6, Zenon DEF AddThreshold
    <3>5. d = [c EXCEPT !.thresholds = Append(@, v)]
      BY <2>4, <3>1, <3>2
    <3>6. Edit(UpdateComparison(tab, d.id, d))
      BY <3>3, <3>4, <3>5
    <3>7. QED
      BY <1>5, <2>1, <2>2, <3>3, <3>6
  <2>7. ASSUME NEW index \in DOMAIN old, RemoveThreshold(n, index)
        PROVE  SideInv' /\ Edited
    <3>1. PICK new \in Seq(Threshold) : new = RemoveAt(old, index)
      <4>1. index \in 1..Len(old)
        BY LenProperties
      <4>2. QED
        BY <4>1, RemoveAtIn
    <3>2. PICK d : d = [c EXCEPT !.thresholds = new]
      OBVIOUS
    <3>3. d \in Comparison /\ d.id = c.id
      BY <2>5, <3>2
    <3>4. Edit(UpdateComparison(tab, c.id, [c EXCEPT !.thresholds = RemoveAt(@, index)]))
      BY <2>2, <2>7, Zenon DEF RemoveThreshold
    <3>5. d = [c EXCEPT !.thresholds = RemoveAt(@, index)]
      BY <2>4, <3>1, <3>2
    <3>6. Edit(UpdateComparison(tab, d.id, d))
      BY <3>3, <3>4, <3>5
    <3>7. QED
      BY <1>5, <2>1, <2>2, <3>3, <3>6
  <2>8. ASSUME ToggleComparison(n)
        PROVE  SideInv' /\ Edited
    <3>1. PICK d : d = [c EXCEPT !.visible = ~@]
      OBVIOUS
    <3>2. d \in Comparison /\ d.id = c.id
      BY <2>3, <3>1 DEF Comparison
    <3>3. Edit(UpdateComparison(tab, c.id, [c EXCEPT !.visible = ~@]))
      BY <2>2, <2>8, Zenon DEF ToggleComparison
    <3>4. Edit(UpdateComparison(tab, d.id, d))
      BY <3>1, <3>2, <3>3
    <3>5. QED
      BY <1>5, <2>1, <2>2, <3>2, <3>4
  <2>9. QED
    BY <1>6, <2>2, <2>4, <2>6, <2>7, <2>8
<1>7. QED
  BY <1>2, <1>3, <1>4, <1>6 DEF EditLayers

LEMMA AxesStep ==
  ASSUME IInv, EditAxes
  PROVE  SideInv' /\ Edited
<1>1. SideInv /\ tab # Null /\ GoodTab(tab) /\ IsTab(tab)
  BY DEF IInv, EditAxes, OnTab, GoodTab
<1>2. PICK sig : sig = tab.axisSignature
  OBVIOUS
<1>3. IsSignature(sig)
  BY <1>1, <1>2 DEF IsTab, EditAxes
<1>4. PICK multi \in Seq(Axis) : multi = MultiValueAxes(sig)
  BY <1>3, DefaultAxes
<1>5. PICK names \in Seq(Axis) : names = sig.axisNames
  BY <1>3 DEF IsSignature, Signature
<1>6. ToSet(multi) \in SUBSET Axis /\ ToSet(names) \in SUBSET Axis
  BY ListIsFinite
<1>7. /\ tab.xAxisName \in Axis \cup {NoAxis} /\ tab.yAxisName \in Axis \cup {NoAxis}
      /\ IsSlices(tab.sliceValues)
  BY <1>1 DEF IsTab
<1>8. PICK x : x = tab.xAxisName
  OBVIOUS
<1>9. PICK y : y = tab.yAxisName
  OBVIOUS
<1>10. PICK slices : slices = tab.sliceValues
  OBVIOUS
<1>11. PICK t : t = tab
  OBVIOUS
<1>12. t = [importedSweepTaskIds |-> t.importedSweepTaskIds, axisSignature |-> t.axisSignature,
            xAxisName |-> x, yAxisName |-> y, sliceValues |-> slices,
            layers |-> t.layers, comparisons |-> t.comparisons]
       /\ x = t.xAxisName /\ y = t.yAxisName /\ slices = t.sliceValues
  BY <1>1, <1>8, <1>9, <1>10, <1>11, Zenon DEF IsTab
<1>13. ASSUME NEW a \in XOptions, SetXAxis(a)
       PROVE  SideInv' /\ Edited
  <2>1. a \in Axis
    <3>1. XOptions = ToSet(IF multi # <<>> THEN multi ELSE names)
      BY <1>2, <1>4, <1>5, Zenon DEF XOptions
    <3>2. QED
      BY <1>6, <3>1
  <2>2. [t EXCEPT !.xAxisName = a] = WithAxes(t, a, y, slices)
    BY <1>12 DEF WithAxes
  <2>3. IsRetouched(WithAxes(t, a, y, slices), t)
    BY <1>1, <1>7, <1>9, <1>10, <1>11, <2>1, AxesTab
  <2>4. IsRetouched([tab EXCEPT !.xAxisName = a], tab)
    BY <1>11, <2>2, <2>3, Zenon
  <2>5. Edit([tab EXCEPT !.xAxisName = a])
    BY <1>13 DEF SetXAxis
  <2>6. QED
    BY <1>1, <2>4, <2>5, EditStep
<1>14. ASSUME NEW a \in YOptions, SetYAxis(a)
       PROVE  SideInv' /\ Edited
  <2>1. a \in Axis \cup {NoAxis}
    <3>1. YOptions = IF Len(multi) > 1 THEN ToSet(multi) \cup {NoAxis} ELSE {}
      BY <1>2, <1>4, Zenon DEF YOptions
    <3>2. QED
      BY <1>6, <3>1
  <2>2. [t EXCEPT !.yAxisName = a] = WithAxes(t, x, a, slices)
    BY <1>12 DEF WithAxes
  <2>3. IsRetouched(WithAxes(t, x, a, slices), t)
    BY <1>1, <1>7, <1>8, <1>10, <1>11, <2>1, AxesTab
  <2>4. IsRetouched([tab EXCEPT !.yAxisName = a], tab)
    BY <1>11, <2>2, <2>3, Zenon
  <2>5. Edit([tab EXCEPT !.yAxisName = a])
    BY <1>14 DEF SetYAxis
  <2>6. QED
    BY <1>1, <2>4, <2>5, EditStep
<1>15. ASSUME NEW a \in SliceAxes, NEW v \in ToSet(tab.axisSignature.axisValues[a]), SetSlice(a, v)
       PROVE  SideInv' /\ Edited
  <2>1. a \in ToSet(multi)
    BY <1>2, <1>4 DEF SliceAxes
  <2>2. a \in DOMAIN sig.axisValues
    <3>1. PICK several : several = {b \in DOMAIN sig.axisValues : Len(sig.axisValues[b]) > 1}
      OBVIOUS
    <3>2. multi = Keep(names, several)
      BY <1>4, <1>5, <3>1, Zenon DEF MultiValueAxes
    <3>3. ToSet(multi) = ToSet(names) \cap several
      BY <3>2, KeepSet
    <3>4. QED
      BY <2>1, <3>1, <3>3
  <2>3. sig.axisValues[a] \in Seq(Value)
    BY <1>3, <2>2 DEF IsSignature, Signature
  <2>4. v \in Value
    BY <1>2, <2>3, ListIsFinite
  <2>5. PICK one : one = [b \in {a} |-> v]
    OBVIOUS
  <2>6. IsSlices(one)
    <3>1. {a} \in SUBSET Axis /\ one \in [{a} -> Value]
      BY <1>6, <2>1, <2>4, <2>5
    <3>2. QED
      BY <3>1 DEF IsSlices
  <2>7. PICK new : new = Over(one, slices)
    OBVIOUS
  <2>8. IsSlices(new) /\ DOMAIN slices \subseteq DOMAIN new
    BY <1>7, <1>10, <2>6, <2>7, OverIs
  <2>9. [t EXCEPT !.sliceValues = new] = WithAxes(t, x, y, new)
    BY <1>12 DEF WithAxes
  <2>10. IsRetouched(WithAxes(t, x, y, new), t)
    BY <1>1, <1>7, <1>8, <1>9, <1>10, <1>11, <2>8, AxesTab
  <2>11. IsRetouched([tab EXCEPT !.sliceValues = new], tab)
    BY <1>11, <2>9, <2>10, Zenon
  <2>12. Edit([tab EXCEPT !.sliceValues = Over([b \in {a} |-> v], @)])
    BY <1>15 DEF SetSlice
  <2>13. Edit([tab EXCEPT !.sliceValues = new])
    BY <1>10, <2>5, <2>7, <2>12, Zenon
  <2>14. QED
    BY <1>1, <2>11, <2>13, EditStep
<1>16. QED
  BY <1>13, <1>14, <1>15 DEF EditAxes

LEMMA NextIsKnown ==
  ASSUME IInv, Next
  PROVE  StepIsKnown
<1>1. CASE Mount
  BY <1>1, MountStep DEF StepIsKnown
<1>2. CASE MountOther \/ Switch \/ Unmount \/ CloseTab \/ Reload \/ DismissError
  BY <1>2, RouterStep DEF StepIsKnown
<1>3. ASSUME NEW s \in Slot, NEW t \in SweepTask, BeginImport(s, t)
      PROVE  StepIsKnown
  <2>1. SideInv /\ tab # Null /\ GoodTab(tab) /\ tab' = tab /\ moved' = moved
    BY <1>3 DEF BeginImport, OnTab, IInv
  <2>2. /\ SideInv'
        /\ \A k \in Slot \ {s} : imports'[k] = imports[k]
        /\ imports'[s].snapshot = tab.axisSignature
    BY <1>3, <2>1, BeginStep
  <2>3. QED
    BY <2>1, <2>2 DEF StepIsKnown, Began
<1>4. ASSUME NEW s \in Slot, ImportStep(s)
      PROVE  StepIsKnown
  BY <1>4, ImportFails, ParsedStep DEF ImportStep, StepIsKnown
<1>5. ASSUME NEW k \in Instance, WorkerLoads(k) \/ WorkerFails(k)
      PROVE  StepIsKnown
  BY <1>5, WorkerStep DEF StepIsKnown
<1>6. CASE EditLayers
  BY <1>6, LayersStep DEF StepIsKnown
<1>7. CASE EditAxes
  BY <1>7, AxesStep DEF StepIsKnown
<1>8. QED
  BY <1>1, <1>2, <1>3, <1>4, <1>5, <1>6, <1>7 DEF Next

LEMMA InitInv ==
  ASSUME Init
  PROVE  IInv
<1>1. tab \in {FreshTab, LegacyTab} /\ GoodTab(tab) /\ SharesAxes(tab)
  <2>1. SharesAxes(FreshTab)
    BY EmptySet DEF FreshTab, SharesAxes
  <2>2. QED
    BY <2>1, FreshIsGood, LegacyIs DEF Init
<1>2. /\ shown = "elsewhere" /\ inst = 0 /\ ui = NoUi /\ worker = [k \in Instance |-> "none"]
      /\ imports = [s \in Slot |-> Null] /\ begun = 0 /\ edits = 0 /\ moved = FALSE
  BY DEF Init
<1>3. \A s \in Slot : imports[s] = Null
  BY <1>2
<1>4. imports = [s \in Slot |-> imports[s]]
  BY <1>2
<1>5. ui \in [parsing : BOOLEAN, error : BOOLEAN] /\ ~ui.parsing
  BY <1>2 DEF NoUi
<1>6. worker \in [Instance -> {"none", "loading", "ok", "dead"}]
  BY <1>2
<1>7. TypeRest
  <2>1. inst \in 0..MaxMounts /\ begun \in 0..MaxImports /\ edits \in 0..MaxEdits
    BY <1>2, Bounds
  <2>2. ~Mounted
    BY <1>2 DEF Mounted
  <2>3. QED
    BY <1>2, <1>3, <1>4, <1>5, <1>6, <2>1, <2>2 DEF TypeRest
<1>8. ParsingMeansWork
  BY <1>5 DEF ParsingMeansWork
<1>9. ImportsKnowOldAxes
  BY <1>3 DEF ImportsKnowOldAxes
<1>10. QED
  BY <1>1, <1>7, <1>8, <1>9 DEF IInv, SideInv

(* A tab whose axes have names but no values is one to be repaired; those  *)
(* of a sweep are not.                                                     *)
LEMMA SweepHasValues ==
  ASSUME NEW t \in SweepTask, AxesOf(t) # <<>>
  PROVE  SignatureOf[t].axisValues # NoValues
<1>1. PICK sig : sig = SignatureOf[t]
  OBVIOUS
<1>2. PICK names \in Seq(Axis) : names = sig.axisNames /\ sig.axisValues \in [ToSet(names) -> Seq(Value)]
  BY <1>1, SignatureIs, Zenon DEF IsSweepSignature
<1>3. ToSet(names) # {}
  BY <1>1, <1>2, NotEmpty DEF AxesOf
<1>4. DOMAIN sig.axisValues # {}
  BY <1>2, <1>3
<1>5. QED
  BY <1>1, <1>4, NoSlices

(* Only what an import knows of the axes matters, and it does not change.  *)
LEMMA FadeKnows ==
  ASSUME ImportsKnowOldAxes, SlotsFade, NEW r, tab # Null,
         r.axisSignature # Null /\ ~HasValues(r) /\ r.axisSignature.axisNames # <<>> =>
           /\ tab.axisSignature # Null /\ ~HasValues(tab)
           /\ tab.axisSignature.axisNames = r.axisSignature.axisNames,
         tab' = r
  PROVE  ImportsKnowOldAxes'
<1>1. SUFFICES ASSUME r.axisSignature # Null, ~HasValues(r), r.axisSignature.axisNames # <<>>,
                      NEW s \in Slot, imports'[s] # Null
               PROVE  imports'[s].snapshot # Null /\ imports'[s].snapshot.axisNames = r.axisSignature.axisNames
  BY DEF ImportsKnowOldAxes, Slot
<1>2. /\ tab.axisSignature # Null /\ ~HasValues(tab)
      /\ tab.axisSignature.axisNames = r.axisSignature.axisNames
  BY <1>1
<1>3. imports[s] # Null /\ imports'[s].snapshot = imports[s].snapshot
  BY <1>1 DEF SlotsFade
<1>4. imports[s].snapshot # Null /\ imports[s].snapshot.axisNames = tab.axisSignature.axisNames
  BY <1>1, <1>2, <1>3 DEF ImportsKnowOldAxes
<1>5. QED
  BY <1>2, <1>3, <1>4

LEMMA QuietKeeps ==
  ASSUME IInv, SideInv', Quiet
  PROVE  IInv'
<1>1. CASE tab' = Null
  BY <1>1 DEF IInv, ImportsKnowOldAxes
<1>2. CASE tab' = tab /\ tab # Null
  <2>1. GoodTab(tab') /\ (~moved' => SharesAxes(tab'))
    BY <1>2 DEF IInv, Quiet
  <2>2. ImportsKnowOldAxes'
    BY <1>2, FadeKnows DEF IInv, Quiet
  <2>3. QED
    BY <2>1, <2>2 DEF IInv
<1>3. QED
  BY <1>1, <1>2 DEF Quiet

LEMMA EditedKeeps ==
  ASSUME IInv, SideInv', Edited
  PROVE  IInv'
<1>1. PICK r : r = tab'
  OBVIOUS
<1>2. tab # Null /\ GoodTab(tab) /\ SlotsFade /\ moved' = moved /\ ImportsKnowOldAxes
  BY DEF IInv, Edited
<1>3. CASE IsMounted(r, tab)
  <2>1. GoodTab(r)
    BY <1>3 DEF IsMounted
  <2>2. SharesAxes(tab) => SharesAxes(r)
    <3>1. CASE tab.axisSignature = Null
      <4>1. ToSet(r.layers) = {}
        BY <1>2, <1>3, <3>1, EmptySet DEF IsMounted, GoodTab
      <4>2. QED
        BY <4>1 DEF SharesAxes
    <3>2. CASE tab.axisSignature # Null
      BY <1>3, <3>2 DEF IsMounted, SharesAxes, IsCompatible
    <3>3. QED
      BY <3>1, <3>2
  <2>3. r.axisSignature # Null /\ ~HasValues(r) /\ r.axisSignature.axisNames # <<>> =>
          /\ tab.axisSignature # Null /\ ~HasValues(tab)
          /\ tab.axisSignature.axisNames = r.axisSignature.axisNames
    BY <1>3 DEF IsMounted
  <2>4. ImportsKnowOldAxes'
    BY <1>1, <1>2, <2>3, FadeKnows
  <2>5. QED
    BY <1>1, <1>2, <2>1, <2>2, <2>4 DEF IInv
<1>4. CASE IsFewer(r, tab)
  <2>1. GoodTab(r) /\ (SharesAxes(tab) => SharesAxes(r)) /\ r.axisSignature \in {Null, tab.axisSignature}
    BY <1>4 DEF IsFewer
  <2>2. r.axisSignature # Null /\ ~HasValues(r) /\ r.axisSignature.axisNames # <<>> =>
          /\ tab.axisSignature # Null /\ ~HasValues(tab)
          /\ tab.axisSignature.axisNames = r.axisSignature.axisNames
    BY <2>1 DEF HasValues
  <2>3. ImportsKnowOldAxes'
    BY <1>1, <1>2, <2>2, FadeKnows
  <2>4. QED
    BY <1>1, <1>2, <2>1, <2>3 DEF IInv
<1>5. QED
  BY <1>1, <1>3, <1>4 DEF Edited, IsArranged, IsRetouched, IsChanged

LEMMA BeganKeeps ==
  ASSUME IInv, SideInv', Began
  PROVE  IInv'
<1>1. tab # Null /\ GoodTab(tab) /\ tab' = tab /\ moved' = moved
  BY DEF IInv, Began
<1>2. PICK s \in Slot : /\ \A k \in Slot \ {s} : imports'[k] = imports[k]
                        /\ imports'[s].snapshot = tab.axisSignature
  BY DEF Began
<1>3. ImportsKnowOldAxes'
  <2>1. SUFFICES ASSUME tab.axisSignature # Null, ~HasValues(tab), tab.axisSignature.axisNames # <<>>,
                        NEW k \in Slot, imports'[k] # Null
                 PROVE  /\ imports'[k].snapshot # Null
                        /\ imports'[k].snapshot.axisNames = tab.axisSignature.axisNames
    BY <1>1 DEF ImportsKnowOldAxes, Slot
  <2>2. CASE k = s
    BY <1>2, <2>1, <2>2
  <2>3. CASE k # s
    BY <1>1, <1>2, <2>1, <2>3 DEF IInv, ImportsKnowOldAxes
  <2>4. QED
    BY <2>2, <2>3
<1>4. QED
  BY <1>1, <1>3 DEF IInv

LEMMA ArrivedKeeps ==
  ASSUME IInv, SideInv', Arrived
  PROVE  IInv'
<1>1. PICK r : r = tab'
  OBVIOUS
<1>2. tab # Null /\ GoodTab(tab) /\ SlotsFade /\ ImportsKnowOldAxes
  BY DEF IInv, Arrived
<1>3. PICK s \in Slot :
        /\ imports[s] # Null /\ imports[s].task \in SweepTask /\ ~Refused(imports[s])
        /\ IsAdded(r, tab, imports[s].task)
        /\ moved' = (moved \/ ~SameAxes(imports[s].snapshot, tab.axisSignature))
  BY <1>1 DEF Arrived
<1>4. PICK i : i = imports[s]
  OBVIOUS
<1>5. PICK task \in SweepTask : task = i.task
  BY <1>3, <1>4
<1>6. /\ GoodTab(r)
      /\ r.axisSignature = IF tab.axisSignature = Null THEN SignatureOf[task] ELSE tab.axisSignature
      /\ ToSet(r.layers) = ToSet(tab.layers) \cup ToSet(NormalizeSweep(task))
      /\ \A l \in ToSet(NormalizeSweep(task)) : SourceTask(l.id) = task
  BY <1>3, <1>4, <1>5 DEF IsAdded
<1>7. ASSUME ~moved' PROVE SharesAxes(r)
  <2>1. SharesAxes(tab) /\ SameAxes(i.snapshot, tab.axisSignature)
    BY <1>2, <1>3, <1>4, <1>7 DEF IInv
  <2>2. IsCompatible(r.axisSignature, SignatureOf[task])
    <3>1. CASE tab.axisSignature = Null
      BY <1>6, <3>1 DEF IsCompatible
    <3>2. CASE tab.axisSignature # Null
      <4>1. i.snapshot # Null /\ IsCompatible(i.snapshot, tab.axisSignature)
        BY <2>1, <3>2 DEF SameAxes
      <4>2. IsCompatible(i.snapshot, SignatureOf[task])
        BY <1>3, <1>4, <1>5, <4>1 DEF Refused
      <4>3. QED
        BY <1>6, <3>2, <4>1, <4>2 DEF IsCompatible
    <3>3. QED
      BY <3>1, <3>2
  <2>3. \A l \in ToSet(tab.layers) : IsCompatible(r.axisSignature, SignatureOf[SourceTask(l.id)])
    <3>1. CASE tab.axisSignature = Null
      BY <1>2, <3>1, EmptySet DEF GoodTab
    <3>2. CASE tab.axisSignature # Null
      BY <1>6, <2>1, <3>2 DEF SharesAxes
    <3>3. QED
      BY <3>1, <3>2
  <2>4. QED
    BY <1>6, <2>2, <2>3 DEF SharesAxes
<1>8. ImportsKnowOldAxes'
  <2>1. CASE tab.axisSignature = Null
    <3>1. r.axisSignature = SignatureOf[task]
      BY <1>6, <2>1
    <3>2. ~(r.axisSignature # Null /\ ~HasValues(r) /\ r.axisSignature.axisNames # <<>>)
      BY <3>1, SweepHasValues DEF HasValues, AxesOf
    <3>3. QED
      BY <1>1, <1>2, <3>2, FadeKnows
  <2>2. CASE tab.axisSignature # Null
    BY <1>1, <1>2, <1>6, <2>2, FadeKnows DEF HasValues
  <2>3. QED
    BY <2>1, <2>2
<1>9. QED
  BY <1>1, <1>6, <1>7, <1>8 DEF IInv

LEMMA StutterKeeps ==
  ASSUME IInv, UNCHANGED vars
  PROVE  IInv'
BY DEF IInv, vars, SideInv, TypeRest, ParsingMeansWork, ImportsKnowOldAxes, Mounted

LEMMA NextInv ==
  ASSUME IInv, [Next]_vars
  PROVE  IInv'
BY NextIsKnown, QuietKeeps, EditedKeeps, BeganKeeps, ArrivedKeeps, StutterKeeps DEF StepIsKnown

LEMMA Invariance == Spec => []IInv
BY InitInv, NextInv, PTL DEF Spec

-----------------------------------------------------------------------------
(* Safety                                                                  *)

(* Whatever is imported, removed, edited or closed, and in whatever order  *)
(* downloads, workers and reloads end, the store entry, the component, its *)
(* worker and the imports have their types.                                *)
THEOREM Typed == Spec => []TypeOK
<1>1. IInv => TypeOK
  <2>1. SUFFICES ASSUME IInv PROVE TypeOK
    OBVIOUS
  <2>2. tab # Null => \E A, B \in SUBSET Axis : tab \in Tab(A, B)
    <3>1. tab # Null => IsTab(tab)
      BY <2>1 DEF IInv, GoodTab
    <3>2. QED
      BY <3>1, TabIsTyped
  <2>3. \A s \in Slot : imports[s] # Null => \E A \in SUBSET Axis : imports[s] \in Import(A)
    BY <2>1 DEF IInv, SideInv, TypeRest, IsImport
  <2>4. QED
    BY <2>1, <2>2, <2>3 DEF TypeOK, IInv, SideInv, TypeRest
<1>2. QED
  BY <1>1, Invariance, PTL

(* The import buttons that are disabled are those of the experiments whose *)
(* layers the tab has: imports and removals keep the two lists together.   *)
THEOREM ImportedMatches == Spec => []ImportedMatchesLayers
<1>1. IInv => ImportedMatchesLayers
  <2>1. SUFFICES ASSUME IInv, tab # Null
                 PROVE  ToSet(tab.importedSweepTaskIds) = {SourceTask(id) : id \in ToSet(ToIds(tab.layers))}
    BY DEF ImportedMatchesLayers
  <2>2. GoodTab(tab)
    BY <2>1 DEF IInv
  <2>3. tab.layers \in Seq(Layer) /\ ToSet(tab.importedSweepTaskIds) = TasksOf(tab.layers)
    BY <2>2 DEF GoodTab, IsTab
  <2>4. QED
    BY <2>3, TasksOfLayers
<1>2. QED
  BY <1>1, Invariance, PTL

(* The layers of a tab have the axes of its signature, although an import  *)
(* checks those it saw when it began: only one that ends in a tab whose    *)
(* axes changed meanwhile breaks it.                                       *)
THEOREM LayersShare == Spec => []LayersShareAxes
<1>1. IInv => LayersShareAxes
  <2>1. SUFFICES ASSUME IInv, tab # Null
                 PROVE  /\ tab.axisSignature = Null <=> tab.layers = <<>>
                        /\ ~moved => \A id \in ToSet(ToIds(tab.layers)) :
                                       IsCompatible(tab.axisSignature, SignatureOf[SourceTask(id)])
    BY DEF LayersShareAxes
  <2>2. GoodTab(tab)
    BY <2>1 DEF IInv
  <2>3. PICK n \in Nat : n = Len(tab.layers) /\ DOMAIN tab.layers = 1..n
    BY <2>2, LenProperties DEF GoodTab, IsTab
  <2>4. ASSUME ~moved, NEW id \in ToSet(ToIds(tab.layers))
        PROVE  IsCompatible(tab.axisSignature, SignatureOf[SourceTask(id)])
    <3>1. SharesAxes(tab)
      BY <2>1, <2>4 DEF IInv
    <3>2. DOMAIN ToIds(tab.layers) = 1..n /\ \A i \in 1..n : ToIds(tab.layers)[i] = tab.layers[i].id
      BY <2>3 DEF ToIds
    <3>3. PICK i \in 1..n : id = tab.layers[i].id
      BY <3>2 DEF ToSet
    <3>4. tab.layers[i] \in ToSet(tab.layers)
      BY <2>3 DEF ToSet
    <3>5. QED
      BY <3>1, <3>3, <3>4 DEF SharesAxes
  <2>5. QED
    BY <2>2, <2>4 DEF GoodTab
<1>2. QED
  BY <1>1, Invariance, PTL

(* The import indicator stands for an import of the component on screen,   *)
(* whatever ends while another instance is shown.                          *)
THEOREM ParsingIsWork == Spec => []ParsingMeansWork
<1>1. IInv => ParsingMeansWork
  BY DEF IInv, SideInv
<1>2. QED
  BY <1>1, Invariance, PTL

-----------------------------------------------------------------------------
(* The comparisons are a table                                             *)

(* The settings of a tab, for every pair of its layers.                    *)
TableOf(t) ==
  [p \in PairsIn(t.layers) |->
     IF Has(t.comparisons, p) THEN SettingIn(t.comparisons, p) ELSE DefaultSetting]

LEMMA TableIs ==
  ASSUME NEW t, GoodTab(t)
  PROVE  SettingsIn(t) = TableOf(t)
<1>1. t.layers \in Seq(Layer) /\ t.comparisons \in Seq(Comparison)
  BY DEF GoodTab, IsTab
<1>2. PICK cs \in Seq(Comparison) : cs = t.comparisons
  BY <1>1
<1>3. PairIds(t.layers) = PairsIn(t.layers)
  BY <1>1, PairIdsAre DEF PairIds
<1>4. \A p : SelectInSeq(cs, LAMBDA c : c.id = p) = FirstAt(cs, p)
  BY Zenon DEF FirstAt, SelectInSeq
<1>5. ASSUME NEW p \in PairsIn(t.layers)
      PROVE  (IF FirstAt(cs, p) > 0 THEN SettingOf(cs[FirstAt(cs, p)])
              ELSE IF cs = <<>> THEN DefaultSetting ELSE Null)
             = (IF Has(cs, p) THEN SettingIn(cs, p) ELSE DefaultSetting)
  <2>1. FirstAt(cs, p) > 0 <=> Has(cs, p)
    BY FirstAtIs DEF Has
  <2>2. cs = <<>> \/ Has(cs, p)
    BY <1>2 DEF GoodTab, CoversPairs
  <2>3. QED
    BY <2>1, <2>2, Zenon DEF SettingIn
<1>6. SettingsIn(t) = [p \in PairsIn(t.layers) |->
        IF FirstAt(cs, p) > 0 THEN SettingOf(cs[FirstAt(cs, p)])
        ELSE IF cs = <<>> THEN DefaultSetting ELSE Null]
  BY <1>2, <1>3, <1>4, Zenon DEF SettingsIn
<1>7. TableOf(t) = [p \in PairsIn(t.layers) |->
        IF Has(cs, p) THEN SettingIn(cs, p) ELSE DefaultSetting]
  BY <1>2, Zenon DEF TableOf
<1>8. QED
  BY <1>5, <1>6, <1>7, Zenon

LEMMA PairsOfIds ==
  ASSUME NEW layers \in Seq(Layer)
  PROVE  ToIds(layers) \in Seq(LayerId) /\ Table!PairsOf(ToIds(layers)) = PairsIn(layers)
<1>1. PICK n \in Nat : n = Len(layers) /\ DOMAIN layers = 1..n /\ \A i \in 1..n : layers[i] \in Layer
  BY LenProperties, ElementOfSeq
<1>2. \A i \in 1..n : layers[i].id \in LayerId
  BY <1>1 DEF Layer
<1>3. PICK ids : ids = ToIds(layers)
  OBVIOUS
<1>4. DOMAIN ids = 1..n /\ (\A i \in 1..n : ids[i] = layers[i].id) /\ ids \in [1..n -> LayerId]
  BY <1>1, <1>2, <1>3 DEF ToIds
<1>5. ids \in Seq(LayerId)
  BY <1>4
<1>6. ASSUME NEW p
      PROVE  p \in Table!PairsOf(ids) <=> p \in PairsIn(layers)
  <2>1. p \in Table!PairsOf(ids) <=> \E i, j \in 1..n : i < j /\ p = <<ids[i], ids[j]>>
    BY <1>4 DEF Table!PairsOf
  <2>2. p \in PairsIn(layers) <=> \E i, j \in 1..n : i < j /\ p = <<layers[i].id, layers[j].id>>
    BY <1>1, <1>2 DEF PairsIn
  <2>3. QED
    BY <1>4, <2>1, <2>2
<1>7. QED
  BY <1>3, <1>5, <1>6

LEMMA HasPair ==
  ASSUME NEW t, GoodTab(t), NEW p, Has(t.comparisons, p)
  PROVE  p \in PairsIn(t.layers)
<1>1. t.comparisons # <<>>
  BY EmptyListIs DEF Has
<1>2. QED
  BY <1>1 DEF GoodTab, CoversPairs

LEMMA SyncKeepsTable ==
  ASSUME NEW t, GoodTab(t), NEW r, IsSync(r.comparisons, r.layers, t.comparisons)
  PROVE  TableOf(r) = [p \in PairsIn(r.layers) |->
           IF p \in DOMAIN TableOf(t) THEN TableOf(t)[p] ELSE DefaultSetting]
<1>1. DOMAIN TableOf(t) = PairsIn(t.layers)
  BY DEF TableOf
<1>2. ASSUME NEW p \in PairsIn(r.layers)
      PROVE  (IF Has(r.comparisons, p) THEN SettingIn(r.comparisons, p) ELSE DefaultSetting)
             = (IF p \in DOMAIN TableOf(t) THEN TableOf(t)[p] ELSE DefaultSetting)
  <2>1. Has(r.comparisons, p)
    BY DEF IsSync
  <2>2. SettingIn(r.comparisons, p)
        = IF Has(t.comparisons, p) THEN SettingIn(t.comparisons, p) ELSE DefaultSetting
    BY DEF IsSync
  <2>3. p \in PairsIn(t.layers) =>
          TableOf(t)[p] = IF Has(t.comparisons, p) THEN SettingIn(t.comparisons, p) ELSE DefaultSetting
    BY DEF TableOf
  <2>4. p \notin PairsIn(t.layers) => ~Has(t.comparisons, p)
    BY HasPair
  <2>5. QED
    BY <1>1, <2>1, <2>2, <2>3, <2>4
<1>3. TableOf(r) = [p \in PairsIn(r.layers) |->
        IF Has(r.comparisons, p) THEN SettingIn(r.comparisons, p) ELSE DefaultSetting]
  BY DEF TableOf
<1>4. QED
  BY <1>2, <1>3, Zenon

(* The two variables of the table, in a tab and without one.               *)
OrderOf(t) == IF t = Null THEN <<>> ELSE ToIds(t.layers)
SettingsFor(t) == IF t = Null THEN NoValues ELSE TableOf(t)

ArrangedAs(r, t) ==
  /\ OrderOf(r) \in Seq(LayerId)
  /\ SettingsFor(r) = [p \in Table!PairsOf(OrderOf(r)) |->
       IF p \in DOMAIN SettingsFor(t) THEN SettingsFor(t)[p] ELSE DefaultSetting]

LEMMA ArrangeIs ==
  ASSUME NEW t, GoodTab(t), NEW r, GoodTab(r), IsSync(r.comparisons, r.layers, t.comparisons)
  PROVE  ArrangedAs(r, t)
<1>1. OrderOf(r) = ToIds(r.layers) /\ SettingsFor(r) = TableOf(r) /\ SettingsFor(t) = TableOf(t)
  BY TabNotNull DEF OrderOf, SettingsFor, GoodTab
<1>2. r.layers \in Seq(Layer)
  BY DEF GoodTab, IsTab
<1>3. ToIds(r.layers) \in Seq(LayerId) /\ Table!PairsOf(ToIds(r.layers)) = PairsIn(r.layers)
  BY <1>2, PairsOfIds
<1>4. TableOf(r) = [p \in PairsIn(r.layers) |->
           IF p \in DOMAIN TableOf(t) THEN TableOf(t)[p] ELSE DefaultSetting]
  BY SyncKeepsTable
<1>5. QED
  BY <1>1, <1>3, <1>4, Zenon DEF ArrangedAs

LEMMA CloseIs == \A t : ArrangedAs(Null, t)
<1>1. OrderOf(Null) = <<>> /\ SettingsFor(Null) = NoValues
  BY DEF OrderOf, SettingsFor
<1>2. <<>> \in Seq(LayerId) /\ Table!PairsOf(<<>>) = {}
  BY EmptyListIs, EmptySeq DEF Table!PairsOf
<1>3. QED
  BY <1>1, <1>2 DEF ArrangedAs, NoValues

ChangedAs(r, t) ==
  /\ OrderOf(r) = OrderOf(t)
  /\ DOMAIN SettingsFor(r) = DOMAIN SettingsFor(t)
  /\ \E p \in DOMAIN SettingsFor(t) :
       /\ SettingsFor(r)[p] \in [thresholds : Seq(Threshold), visible : BOOLEAN]
       /\ \A q \in DOMAIN SettingsFor(t) \ {p} : SettingsFor(r)[q] = SettingsFor(t)[q]

LEMMA ChangeIs ==
  ASSUME NEW t, GoodTab(t), NEW r, NEW id, Has(t.comparisons, id), IsChanged(r, t, id)
  PROVE  ChangedAs(r, t)
<1>1. GoodTab(r) /\ r.layers = t.layers
  BY DEF IsChanged, IsFewer
<1>2. /\ OrderOf(r) = ToIds(t.layers) /\ OrderOf(t) = ToIds(t.layers)
      /\ SettingsFor(r) = TableOf(r) /\ SettingsFor(t) = TableOf(t)
  BY <1>1, TabNotNull DEF OrderOf, SettingsFor, GoodTab
<1>3. DOMAIN TableOf(r) = PairsIn(t.layers) /\ DOMAIN TableOf(t) = PairsIn(t.layers)
  BY <1>1 DEF TableOf
<1>4. id \in PairsIn(t.layers)
  BY HasPair
<1>5. ASSUME NEW p \in PairsIn(t.layers)
      PROVE  /\ p # id => TableOf(r)[p] = TableOf(t)[p]
             /\ Has(t.comparisons, p) => TableOf(r)[p] \in [thresholds : Seq(Threshold), visible : BOOLEAN]
  <2>1. p \in LayerId \X LayerId
    BY DEF PairsIn
  <2>2. Has(r.comparisons, p) <=> Has(t.comparisons, p)
    BY DEF IsChanged
  <2>3. /\ TableOf(r)[p] = IF Has(r.comparisons, p) THEN SettingIn(r.comparisons, p) ELSE DefaultSetting
        /\ TableOf(t)[p] = IF Has(t.comparisons, p) THEN SettingIn(t.comparisons, p) ELSE DefaultSetting
    BY <1>1 DEF TableOf
  <2>4. Has(t.comparisons, p) =>
       /\ p # id => SettingIn(r.comparisons, p) = SettingIn(t.comparisons, p)
       /\ SettingIn(r.comparisons, p) \in [thresholds : Seq(Threshold), visible : BOOLEAN]
    BY <2>1 DEF IsChanged
  <2>5. QED
    BY <2>2, <2>3, <2>4
<1>6. QED
  BY <1>2, <1>3, <1>4, <1>5 DEF ChangedAs

SameTable(r, t) == OrderOf(r) = OrderOf(t) /\ SettingsFor(r) = SettingsFor(t)

LEMMA RetouchIs ==
  ASSUME NEW t, GoodTab(t), NEW r, IsRetouched(r, t)
  PROVE  SameTable(r, t)
<1>1. GoodTab(r) /\ ToIds(r.layers) = ToIds(t.layers) /\ r.comparisons = t.comparisons
  BY DEF IsRetouched, IsFewer
<1>2. PairsIn(r.layers) = PairsIn(t.layers)
  BY <1>1, SameIds DEF GoodTab, IsTab
<1>3. TableOf(r) = TableOf(t)
  BY <1>1, <1>2, Zenon DEF TableOf
<1>4. QED
  BY <1>1, <1>3, TabNotNull DEF SameTable, OrderOf, SettingsFor, GoodTab

LEMMA TableStep ==
  ASSUME IInv, IInv', [Next]_vars
  PROVE  ArrangedAs(tab', tab) \/ ChangedAs(tab', tab) \/ SameTable(tab', tab)
<1>1. CASE tab' = tab
  BY <1>1 DEF SameTable
<1>2. CASE tab' = Null
  BY <1>2, CloseIs
<1>3. CASE tab' # tab /\ tab' # Null
  <2>1. PICK r : r = tab'
    OBVIOUS
  <2>2. tab # Null /\ (Edited \/ Arrived)
    BY <1>3, NextIsKnown DEF vars, StepIsKnown, Quiet, Began, Edited, Arrived
  <2>3. GoodTab(tab) /\ GoodTab(r)
    BY <1>3, <2>1, <2>2 DEF IInv
  <2>4. CASE IsSync(r.comparisons, r.layers, tab.comparisons)
    BY <2>1, <2>3, <2>4, ArrangeIs
  <2>5. CASE IsRetouched(r, tab)
    BY <2>1, <2>3, <2>5, RetouchIs
  <2>6. CASE \E id : Has(tab.comparisons, id) /\ IsChanged(r, tab, id)
    BY <2>1, <2>3, <2>6, ChangeIs
  <2>7. \/ IsMounted(r, tab) \/ IsArranged(r, tab) \/ IsRetouched(r, tab)
        \/ \E id : Has(tab.comparisons, id) /\ IsChanged(r, tab, id)
        \/ \E task : IsAdded(r, tab, task)
    BY <2>1, <2>2 DEF Edited, Arrived
  <2>8. IsMounted(r, tab) => IsSync(r.comparisons, r.layers, tab.comparisons)
    BY DEF IsMounted
  <2>9. IsArranged(r, tab) => IsSync(r.comparisons, r.layers, tab.comparisons)
    BY DEF IsArranged
  <2>10. (\E task : IsAdded(r, tab, task)) => IsSync(r.comparisons, r.layers, tab.comparisons)
    BY DEF IsAdded
  <2>11. QED
    BY <2>4, <2>5, <2>6, <2>7, <2>8, <2>9, <2>10
<1>4. QED
  BY <1>1, <1>2, <1>3

(* The comparison list implements a table of settings by pair of layers:   *)
(* no import, removal, move or mount loses or swaps a setting the user     *)
(* chose, and an edit changes one (syncComparisons, updateComparison).     *)
THEOREM ComparisonTable == Spec => ComparisonsAreATable
<1>1. ASSUME IInv PROVE Settings = SettingsFor(tab)
  BY <1>1, TableIs, Zenon DEF IInv, Settings, SettingsFor
<1>2. ASSUME IInv' PROVE Settings' = SettingsFor(tab')
  <2>1. Settings' = IF tab' = Null THEN NoValues ELSE SettingsIn(tab')
    BY DEF Settings
  <2>2. tab' # Null => GoodTab(tab')
    BY <1>2 DEF IInv
  <2>3. QED
    BY <2>1, <2>2, TableIs, Zenon DEF SettingsFor
<1>3. Init => Table!Init
  <2>1. SUFFICES ASSUME Init PROVE Table!Init
    OBVIOUS
  <2>2. IInv
    BY <2>1, InitInv
  <2>3. tab # Null /\ GoodTab(tab) /\ tab.comparisons = <<>>
    <3>1. tab \in {FreshTab, LegacyTab}
      BY <2>1 DEF Init
    <3>2. FreshTab.comparisons = <<>> /\ LegacyTab.comparisons = <<>>
      BY DEF FreshTab, LegacyTab
    <3>3. tab.comparisons = <<>>
      BY <3>1, <3>2
    <3>4. QED
      BY <3>1, <3>3, FreshIsGood, LegacyIs, TabNotNull DEF GoodTab
  <2>4. PICK layers \in Seq(Layer) : layers = tab.layers
    BY <2>3 DEF GoodTab, IsTab
  <2>5. ToIds(layers) \in Seq(LayerId) /\ Table!PairsOf(ToIds(layers)) = PairsIn(layers)
    BY PairsOfIds
  <2>6. \A p : ~Has(tab.comparisons, p)
    BY <2>3, EmptyListIs DEF Has
  <2>7. TableOf(tab) = [p \in PairsIn(layers) |-> DefaultSetting]
    BY <2>4, <2>6 DEF TableOf
  <2>8. Settings = [p \in PairsIn(layers) |-> DefaultSetting]
    BY <1>1, <2>2, <2>3, <2>7 DEF SettingsFor
  <2>9. QED
    BY <2>3, <2>4, <2>5, <2>8 DEF Table!Init
<1>4. IInv /\ IInv' /\ [Next]_vars => [Table!Next]_(Table!pairVars)
  <2>1. SUFFICES ASSUME IInv, IInv', [Next]_vars
                 PROVE  [Table!Next]_(Table!pairVars)
    OBVIOUS
  <2>2. Settings = SettingsFor(tab) /\ Settings' = SettingsFor(tab')
    BY <1>1, <1>2, <2>1
  <2>3. CASE ArrangedAs(tab', tab)
    <3>1. Table!Arrange
      BY <2>2, <2>3 DEF ArrangedAs, OrderOf, Table!Arrange
    <3>2. QED
      BY <3>1 DEF Table!Next
  <2>4. CASE ChangedAs(tab', tab)
    <3>1. Table!Change
      BY <2>2, <2>4 DEF ChangedAs, OrderOf, Table!Change
    <3>2. QED
      BY <3>1 DEF Table!Next
  <2>5. CASE SameTable(tab', tab)
    BY <2>2, <2>5 DEF SameTable, OrderOf, Table!pairVars
  <2>6. QED
    BY <2>1, <2>3, <2>4, <2>5, TableStep
<1>5. QED
  BY <1>3, <1>4, InitInv, NextInv, PTL DEF Spec, Table!Spec, ComparisonsAreATable

-----------------------------------------------------------------------------
(* What the plot shows                                                     *)

(* Two things kept are from two places of the list.                        *)
TwoPlaces(s, x, y) == \E i, j \in 1..Len(s) : i # j /\ x = s[i] /\ y = s[j]

LEMMA KeepTwo ==
  ASSUME NEW X, NEW s \in Seq(X), NEW S,
         NEW n \in 1..Len(Keep(s, S)), NEW m \in 1..Len(Keep(s, S)), n # m
  PROVE  TwoPlaces(s, Keep(s, S)[n], Keep(s, S)[m])
<1>1. PICK r \in Seq(X) : r = Keep(s, S)
  BY KeepSet
<1>2. PICK k \in Nat : k = Len(r)
  BY LenProperties
<1>3. PICK l \in Nat : l = Len(s)
  BY LenProperties
<1>4. \E f : ArePlaces(f, Keep(s, S), s)
  BY KeepPlaces, Zenon DEF ArePlaces
<1>5. PICK f \in [1..k -> 1..l] :
        /\ \A i \in 1..k : r[i] = s[f[i]]
        /\ \A i, j \in 1..k : i < j => f[i] < f[j]
  BY <1>1, <1>2, <1>3, <1>4, Zenon DEF ArePlaces
<1>6. n \in 1..k /\ m \in 1..k /\ (n < m \/ m < n)
  BY <1>1, <1>2
<1>7. PICK i \in 1..l : i = f[n]
  BY <1>5, <1>6
<1>8. PICK j \in 1..l : j = f[m]
  BY <1>5, <1>6
<1>9. i # j
  BY <1>5, <1>6, <1>7, <1>8
<1>10. r[n] = s[i] /\ r[m] = s[j]
  BY <1>5, <1>6, <1>7, <1>8
<1>11. QED
  BY <1>1, <1>3, <1>9, <1>10, Zenon DEF TwoPlaces

LEMMA PointsDiffer ==
  ASSUME RowsDiffer, NEW id \in LayerId,
         NEW n \in 1..Len(DataOf[id]), NEW m \in 1..Len(DataOf[id]), n # m
  PROVE  DataOf[id][n].params # DataOf[id][m].params
<1>1. PICK t \in SweepTask : id \in {t} \X KeysOf(RowsOf[t])
  BY Zenon DEF LayerId
<1>2. id[1] = t /\ SourceTask(id) = t
  BY <1>1 DEF SourceTask
<1>3. PICK A : A = ToSet(AxesOf(t)) /\ RowsOf[t] \in Seq(Row(A))
  BY <1>2, AxesOfRows, LayerHasRows
<1>4. PICK rows \in Seq(Row(A)) : rows = RowsOf[t]
  BY <1>3
<1>5. PICK S : S = {r \in ToSet(rows) : r.key = id[2]}
  OBVIOUS
<1>6. PICK mine : mine = Keep(rows, S)
  OBVIOUS
<1>7. mine \in Seq(Row(A)) /\ ToSet(mine) = ToSet(rows) \cap S
  BY <1>6, KeepSet
<1>8. LayerRows(id) = mine
  BY <1>2, <1>4, <1>5, <1>6, Zenon DEF LayerRows
<1>9. DataOf[id] = [k \in DOMAIN mine |-> [params |-> mine[k].noise, lepr |-> mine[k].lepr]]
  BY <1>8, DataIs, Zenon
<1>10. PICK l \in Nat : l = Len(mine) /\ DOMAIN mine = 1..l
  BY <1>7, LenProperties
<1>11. DOMAIN DataOf[id] = 1..l /\ \A k \in 1..l : DataOf[id][k].params = mine[k].noise
  BY <1>9, <1>10
<1>12. n \in 1..l /\ m \in 1..l
  <2>1. PICK d : d = DataOf[id] /\ d \in Seq(Datum(ToSet(AxesOf(SourceTask(id)))))
    BY DataIs
  <2>2. DOMAIN d = 1..Len(d)
    BY <2>1, LenProperties
  <2>3. QED
    BY <1>11, <2>1, <2>2
<1>13. TwoPlaces(rows, mine[n], mine[m])
  BY <1>6, <1>10, <1>12, KeepTwo
<1>14. PICK i, j \in 1..Len(rows) : i # j /\ mine[n] = rows[i] /\ mine[m] = rows[j]
  BY <1>13 DEF TwoPlaces
<1>15. mine[n].key = id[2] /\ mine[m].key = id[2]
  BY <1>5, <1>7, <1>10, <1>12 DEF ToSet
<1>16. rows[i].noise # rows[j].noise
  BY <1>4, <1>14, <1>15 DEF RowsDiffer
<1>17. QED
  BY <1>11, <1>12, <1>14, <1>16

(* The ids that are shown are of layers of the tab.                        *)
LEMMA VisibleAre ==
  ASSUME IInv, tab # Null
  PROVE  /\ VisibleIds \in Seq(LayerId)
         /\ \A id \in ToSet(VisibleIds) : \E l \in ToSet(tab.layers) : l.id = id
<1>1. PICK all \in Seq(Layer) : all = tab.layers
  BY DEF IInv, GoodTab, IsTab
<1>2. PICK S : S = {l \in ToSet(all) : l.visible}
  OBVIOUS
<1>3. PICK r \in Seq(Layer) : r = Keep(all, S) /\ ToSet(r) = ToSet(all) \cap S
  BY KeepSet
<1>4. VisibleIds = ToIds(r)
  BY <1>1, <1>2, <1>3, Zenon DEF VisibleIds
<1>5. ToIds(r) \in Seq(LayerId)
  BY PairsOfIds
<1>6. ASSUME NEW id \in ToSet(ToIds(r))
      PROVE  \E l \in ToSet(all) : l.id = id
  <2>1. DOMAIN ToIds(r) = DOMAIN r /\ \A i \in DOMAIN r : ToIds(r)[i] = r[i].id
    BY DEF ToIds
  <2>2. PICK i \in DOMAIN r : id = r[i].id
    BY <2>1 DEF ToSet
  <2>3. r[i] \in ToSet(r)
    BY DEF ToSet
  <2>4. r[i] \in ToSet(all)
    BY <1>3, <2>3
  <2>5. QED
    BY <2>2, <2>4
<1>7. QED
  BY <1>1, <1>4, <1>5, <1>6

(* What is shown of a layer agrees with the slices.                        *)
Matching(data, slices, x, y) ==
  {d \in ToSet(data) : \A a \in DOMAIN slices \ {x, y} : Param(d, a) = slices[a]}

LEMMA ShownAre ==
  ASSUME NEW id \in LayerId
  PROVE  /\ ShownData(id) = Keep(DataOf[id], Matching(DataOf[id], tab.sliceValues, tab.xAxisName, tab.yAxisName))
         /\ ShownData(id) \in Seq(Datum(ToSet(AxesOf(SourceTask(id)))))
         /\ ToSet(ShownData(id)) = Matching(DataOf[id], tab.sliceValues, tab.xAxisName, tab.yAxisName)
<1>1. PICK A : A = ToSet(AxesOf(SourceTask(id)))
  OBVIOUS
<1>2. PICK data \in Seq(Datum(A)) : data = DataOf[id]
  BY <1>1, DataIs
<1>3. PICK S : S = Matching(data, tab.sliceValues, tab.xAxisName, tab.yAxisName)
  OBVIOUS
<1>4. S \in SUBSET ToSet(data)
  BY <1>3 DEF Matching
<1>5. ShownData(id) = Keep(data, S)
  BY <1>2, <1>3, Zenon DEF ShownData, FilterLayerData, Matching
<1>6. Keep(data, S) \in Seq(Datum(A)) /\ ToSet(Keep(data, S)) = ToSet(data) \cap S
  BY KeepSet
<1>7. ToSet(data) \cap S = S
  BY <1>4
<1>8. QED
  BY <1>1, <1>2, <1>3, <1>5, <1>6, <1>7, Zenon

(* Two points of a layer that are shown and agree in x and y are one.      *)
Cell(d) == <<Param(d, tab.xAxisName), Param(d, tab.yAxisName)>>

LEMMA CellIsPoint ==
  ASSUME IInv, tab # Null, HasValues(tab), NEW l \in ToSet(tab.layers),
         NEW d \in ToSet(ShownData(l.id)), NEW e \in ToSet(ShownData(l.id)), Cell(d) = Cell(e)
  PROVE  d.params = e.params
<1>1. GoodTab(tab) /\ l \in Layer
  <2>1. GoodTab(tab) /\ tab.layers \in Seq(Layer)
    BY DEF IInv, GoodTab, IsTab
  <2>2. QED
    BY <2>1, ListIsFinite
<1>2. PICK id \in LayerId : id = l.id
  BY <1>1 DEF Layer
<1>3. PICK A : A = ToSet(AxesOf(SourceTask(id)))
  OBVIOUS
<1>4. A \subseteq DOMAIN tab.sliceValues
  BY <1>1, <1>2, <1>3 DEF GoodTab, SlicesCover
<1>5. /\ d \in Datum(A) /\ e \in Datum(A)
      /\ \A a \in DOMAIN tab.sliceValues \ {tab.xAxisName, tab.yAxisName} :
           Param(d, a) = tab.sliceValues[a] /\ Param(e, a) = tab.sliceValues[a]
  <2>1. ShownData(id) \in Seq(Datum(A))
    BY <1>3, ShownAre
  <2>2. ToSet(ShownData(id)) = Matching(DataOf[id], tab.sliceValues, tab.xAxisName, tab.yAxisName)
    BY ShownAre
  <2>3. d \in Datum(A) /\ e \in Datum(A)
    BY <1>2, <2>1, ListIsFinite
  <2>4. QED
    BY <1>2, <2>2, <2>3 DEF Matching
<1>6. ASSUME NEW a \in A PROVE Param(d, a) = Param(e, a)
  BY <1>4, <1>5 DEF Cell
<1>7. d.params \in [A -> Value] /\ e.params \in [A -> Value]
  BY <1>5 DEF Datum
<1>8. \A a \in A : d.params[a] = e.params[a]
  BY <1>6, <1>7 DEF Param
<1>9. QED
  BY <1>7, <1>8

LEMMA CellsDiffer ==
  ASSUME RowsDiffer, IInv
  PROVE  CellsAreDistinct
<1>1. SUFFICES ASSUME Repaired, NEW id \in ToSet(VisibleIds),
                      NEW n \in DOMAIN ShownData(id), NEW m \in DOMAIN ShownData(id), n # m
               PROVE  Cell(ShownData(id)[n]) # Cell(ShownData(id)[m])
  BY Zenon DEF CellsAreDistinct, Cell
<1>2. tab # Null /\ HasValues(tab)
  BY <1>1 DEF Repaired, HasValues
<1>3. PICK l \in ToSet(tab.layers) : l.id = id
  BY <1>1, <1>2, VisibleAre
<1>4. id \in LayerId
  BY <1>1, <1>2, VisibleAre, ListIsFinite
<1>5. PICK A : A = ToSet(AxesOf(SourceTask(id)))
  OBVIOUS
<1>6. PICK data \in Seq(Datum(A)) : data = DataOf[id]
  BY <1>4, <1>5, DataIs
<1>7. PICK S : S = Matching(data, tab.sliceValues, tab.xAxisName, tab.yAxisName)
  OBVIOUS
<1>8. PICK s : s = ShownData(id) /\ s = Keep(data, S) /\ s \in Seq(Datum(A))
  BY <1>4, <1>5, <1>6, <1>7, ShownAre
<1>9. n \in 1..Len(s) /\ m \in 1..Len(s)
  BY <1>1, <1>8, LenProperties
<1>10. TwoPlaces(data, s[n], s[m])
  BY <1>1, <1>8, <1>9, KeepTwo
<1>11. PICK i, j \in 1..Len(data) : i # j /\ s[n] = data[i] /\ s[m] = data[j]
  BY <1>10 DEF TwoPlaces
<1>12. s[n].params # s[m].params
  BY <1>4, <1>6, <1>11, PointsDiffer
<1>13. s[n] \in ToSet(s) /\ s[m] \in ToSet(s)
  BY <1>1, <1>8 DEF ToSet
<1>14. QED
  BY <1>1, <1>2, <1>3, <1>8, <1>12, <1>13, CellIsPoint

(* The cells of a plot hold one point each, whatever axes and slices are   *)
(* chosen and whatever layers came and went: no rate hides another.  For   *)
(* exports that list no point twice.                                       *)
THEOREM Cells ==
  ASSUME RowsDiffer
  PROVE  Spec => []CellsAreDistinct
<1>1. IInv => CellsAreDistinct
  BY CellsDiffer
<1>2. QED
  BY <1>1, Invariance, PTL

-----------------------------------------------------------------------------
(* Grids                                                                   *)

(* What a list of points has on an axis.                                   *)
ParamsOn(data, a) == {Param(data[n], a) : n \in DOMAIN data}

(* The places of the points in a cell, the rate a grid shows there, and a  *)
(* rate that one of the places has.                                        *)
PlacesAt(data, x, y, vx, vy) ==
  {i \in 1..Len(data) : Param(data[i], x) = vx /\ Param(data[i], y) = vy}

CellAt(data, x, y, vx, vy) ==
  LET last == SelectLastInSeq(data, LAMBDA d : Param(d, x) = vx /\ Param(d, y) = vy)
  IN IF last = 0 THEN NaN ELSE data[last].lepr

IsRateAt(rate, data, S) == S # {} => \E i \in S : rate = data[i].lepr

(* A rate, and the logarithm of the ratio of two.                          *)
Rate == Int \cup {Zero, NaN}
Ratio == Int \cup {NaN, NegInf}

LEMMA ParamsOnAxis ==
  ASSUME NEW data \in Seq(AnyDatum), NEW a
  PROVE  /\ ParamsOn(data, a) \in SUBSET Int
         /\ IsFiniteSet(ParamsOn(data, a))
<1>1. PICK n \in Nat : n = Len(data) /\ DOMAIN data = 1..n /\ \A i \in 1..n : data[i] \in AnyDatum
  BY LenProperties, ElementOfSeq
<1>2. PICK f : f = [i \in 1..n |-> Param(data[i], a)]
  OBVIOUS
<1>3. f \in Seq(Nat) /\ DOMAIN f = 1..n
  BY <1>1, <1>2, ParamIs
<1>4. ToSet(f) = ParamsOn(data, a)
  BY <1>1, <1>2, <1>3 DEF ToSet, ParamsOn
<1>5. QED
  BY <1>3, <1>4, ListIsFinite

(* The cell of two values holds the rate of the last point there.          *)
LEMMA CellAtIs ==
  ASSUME NEW data \in Seq(AnyDatum), NEW x, NEW y, NEW vx, NEW vy
  PROVE  /\ CellAt(data, x, y, vx, vy) \in Rate
         /\ IsRateAt(CellAt(data, x, y, vx, vy), data, PlacesAt(data, x, y, vx, vy))
<1>1. PICK n \in Nat : n = Len(data) /\ \A i \in 1..n : data[i] \in AnyDatum
  BY LenProperties, ElementOfSeq
<1>2. PICK S : S = PlacesAt(data, x, y, vx, vy)
  OBVIOUS
<1>3. S \in SUBSET (1..n)
  BY <1>1, <1>2 DEF PlacesAt
<1>4. PICK last : last = IF S # {} THEN Max(S) ELSE 0
  OBVIOUS
<1>5. CellAt(data, x, y, vx, vy) = IF last = 0 THEN NaN ELSE data[last].lepr
  BY <1>2, <1>4, Zenon DEF CellAt, SelectLastInSeq, PlacesAt
<1>6. CASE S = {}
  BY <1>2, <1>4, <1>5, <1>6 DEF Rate, IsRateAt
<1>7. CASE S # {}
  <2>1. last \in S
    BY <1>3, <1>4, <1>7, MaxOf
  <2>2. last # 0 /\ data[last] \in AnyDatum
    BY <1>1, <1>3, <2>1
  <2>3. data[last].lepr \in Int \cup {Zero}
    BY <2>2 DEF AnyDatum, Datum
  <2>4. QED
    BY <1>2, <1>5, <2>1, <2>2, <2>3 DEF Rate, IsRateAt
<1>8. QED
  BY <1>6, <1>7

(* g is the grid of data: its axes are the values that occur, sorted, and  *)
(* it has a row for each y and a cell for each x.                          *)
IsGrid(g, data, x, y) ==
  /\ g.x = Ascending(ParamsOn(data, x)) /\ g.y = Ascending(ParamsOn(data, y))
  /\ DOMAIN g = {"x", "y", "z"}
  /\ g.x \in Seq(Int) /\ ToSet(g.x) = ParamsOn(data, x)
  /\ g.y \in Seq(Int) /\ ToSet(g.y) = ParamsOn(data, y)
  /\ g.z \in Seq(Seq(Rate))
  /\ DOMAIN g.z = DOMAIN g.y
  /\ \A i \in DOMAIN g.y : DOMAIN g.z[i] = DOMAIN g.x
  /\ \A i \in DOMAIN g.y, j \in DOMAIN g.x :
       g.z[i][j] = CellAt(data, x, y, g.x[j], g.y[i])

LEMMA GridIs ==
  ASSUME NEW data \in Seq(AnyDatum), NEW x, NEW y
  PROVE  IsGrid(LayerToGrid(data, x, y), data, x, y)
<1>1. PICK xs : xs = Ascending(ParamsOn(data, x))
  OBVIOUS
<1>2. PICK ys : ys = Ascending(ParamsOn(data, y))
  OBVIOUS
<1>3. xs \in Seq(Int) /\ ToSet(xs) = ParamsOn(data, x)
  <2>1. PICK S : S = ParamsOn(data, x)
    OBVIOUS
  <2>2. S \in SUBSET Int /\ IsFiniteSet(S)
    BY <2>1, ParamsOnAxis
  <2>3. Ascending(S) \in Seq(S) /\ ToSet(Ascending(S)) = S
    BY <2>2, AscendingIs
  <2>4. QED
    BY <1>1, <2>1, <2>2, <2>3
<1>4. ys \in Seq(Int) /\ ToSet(ys) = ParamsOn(data, y)
  <2>1. PICK S : S = ParamsOn(data, y)
    OBVIOUS
  <2>2. S \in SUBSET Int /\ IsFiniteSet(S)
    BY <2>1, ParamsOnAxis
  <2>3. Ascending(S) \in Seq(S) /\ ToSet(Ascending(S)) = S
    BY <2>2, AscendingIs
  <2>4. QED
    BY <1>2, <2>1, <2>2, <2>3
<1>5. PICK z : z = [i \in DOMAIN ys |-> [j \in DOMAIN xs |-> CellAt(data, x, y, xs[j], ys[i])]]
  OBVIOUS
<1>6. PICK g : g = [x |-> xs, y |-> ys, z |-> z]
  OBVIOUS
<1>7. LayerToGrid(data, x, y) = g
  <2>1. LayerToGrid(data, x, y) =
          LET X == Ascending(ParamsOn(data, x))
              Y == Ascending(ParamsOn(data, y))
          IN [x |-> X, y |-> Y,
              z |-> [i \in DOMAIN Y |-> [j \in DOMAIN X |-> CellAt(data, x, y, X[j], Y[i])]]]
    BY DEF LayerToGrid, CellAt, ParamsOn
  <2>2. QED
    BY <1>1, <1>2, <1>5, <1>6, <2>1, Zenon
<1>8. PICK n \in Nat, m \in Nat : DOMAIN ys = 1..n /\ DOMAIN xs = 1..m
  BY <1>3, <1>4, LenProperties
<1>9. \A i \in 1..n : z[i] = [j \in 1..m |-> CellAt(data, x, y, xs[j], ys[i])]
  BY <1>5, <1>8
<1>10. \A i \in 1..n : z[i] \in Seq(Rate) /\ DOMAIN z[i] = 1..m
  <2>1. \A i \in 1..n, j \in 1..m : CellAt(data, x, y, xs[j], ys[i]) \in Rate
    BY CellAtIs
  <2>2. \A i \in 1..n : z[i] \in [1..m -> Rate]
    BY <1>9, <2>1
  <2>3. QED
    BY <2>2
<1>11. z \in Seq(Seq(Rate)) /\ DOMAIN z = 1..n
  <2>1. z = [i \in 1..n |-> z[i]]
    BY <1>5, <1>8
  <2>2. \A i \in 1..n : z[i] \in Seq(Rate)
    BY <1>10
  <2>3. z \in [1..n -> Seq(Rate)]
    BY <2>1, <2>2, Zenon
  <2>4. QED
    BY <1>8, <2>1, <2>3, FunctionIsList, Zenon
<1>12. g.x = xs /\ g.y = ys /\ g.z = z /\ DOMAIN g = {"x", "y", "z"}
  BY <1>6
<1>13. \A i \in 1..n, j \in 1..m : z[i][j] = CellAt(data, x, y, xs[j], ys[i])
  BY <1>9
<1>14. QED
  BY <1>1, <1>2, <1>3, <1>4, <1>7, <1>8, <1>10, <1>11, <1>12, <1>13, Zenon DEF IsGrid

(* The ratio of two rates is a ratio.                                      *)
LEMMA LogRatioIs ==
  ASSUME NEW a \in Rate, NEW b \in Rate
  PROVE  LogRatio(a, b) \in Ratio
BY RowAssumption DEF LogRatio, Rate, Ratio

(* r has the axes of gridA and the ratios of the cells at the same places. *)
IsRatio(r, gridA, gridB) ==
  /\ r.x = gridA.x /\ r.y = gridA.y
  /\ r.z \in Seq(Seq(Ratio))
  /\ DOMAIN r.z = DOMAIN gridA.z
  /\ \A i \in DOMAIN gridA.z : DOMAIN r.z[i] = DOMAIN gridA.z[i]
  /\ \A i \in DOMAIN gridA.z : \A j \in DOMAIN gridA.z[i] :
       j \in DOMAIN gridB.z[i] => r.z[i][j] = LogRatio(gridA.z[i][j], gridB.z[i][j])

LEMMA RatioIs ==
  ASSUME NEW gridA, NEW gridB, DOMAIN gridA = {"x", "y", "z"},
         gridA.z \in Seq(Seq(Rate)), gridB.z \in Seq(Seq(Rate)),
         Comparable(gridA, gridB)
  PROVE  IsRatio(RatioGrid(gridA, gridB), gridA, gridB)
<1>1. PICK za \in Seq(Seq(Rate)), zb \in Seq(Seq(Rate)) : za = gridA.z /\ zb = gridB.z
  OBVIOUS
<1>2. PICK n \in Nat : n = Len(za) /\ DOMAIN za = 1..n /\ \A i \in 1..n : za[i] \in Seq(Rate)
  BY LenProperties, ElementOfSeq
<1>3. PICK m \in Nat : m = Len(zb) /\ DOMAIN zb = 1..m /\ \A i \in 1..m : zb[i] \in Seq(Rate)
  BY LenProperties, ElementOfSeq
<1>4. n <= m
  BY <1>1, <1>2, <1>3 DEF Comparable
<1>5. PICK z : z = [i \in 1..n |-> [j \in DOMAIN za[i] |->
                      IF j \in DOMAIN zb[i] THEN LogRatio(za[i][j], zb[i][j]) ELSE NaN]]
  OBVIOUS
<1>6. PICK r : r = RatioGrid(gridA, gridB)
  OBVIOUS
<1>7. r = [gridA EXCEPT !.z = z]
  BY <1>1, <1>2, <1>5, <1>6, Zenon DEF RatioGrid
<1>8. r.x = gridA.x /\ r.y = gridA.y /\ r.z = z
  BY <1>7
<1>9. ASSUME NEW i \in 1..n
      PROVE  /\ DOMAIN z[i] = DOMAIN za[i] /\ z[i] \in Seq(Ratio)
             /\ \A j \in DOMAIN za[i] : j \in DOMAIN zb[i] => z[i][j] = LogRatio(za[i][j], zb[i][j])
  <2>1. PICK a \in Seq(Rate), b \in Seq(Rate) : a = za[i] /\ b = zb[i]
    BY <1>2, <1>3, <1>4
  <2>2. PICK w : w = [j \in DOMAIN a |-> IF j \in DOMAIN b THEN LogRatio(a[j], b[j]) ELSE NaN]
    OBVIOUS
  <2>3. z[i] = w
    BY <1>5, <2>1, <2>2
  <2>4. PICK k \in Nat : DOMAIN a = 1..k /\ \A j \in 1..k : a[j] \in Rate
    BY LenProperties, ElementOfSeq
  <2>5. \A j \in DOMAIN b : b[j] \in Rate
    BY LenProperties, ElementOfSeq
  <2>6. \A j \in 1..k : w[j] \in Ratio
    BY <2>2, <2>4, <2>5, LogRatioIs DEF Ratio
  <2>7. DOMAIN w = 1..k /\ w = [j \in DOMAIN w |-> w[j]]
    BY <2>2, <2>4
  <2>8. w \in Seq(Ratio)
    <3>1. w = [j \in 1..k |-> w[j]]
      BY <2>7
    <3>2. w \in [1..k -> Ratio]
      BY <2>6, <3>1, Zenon
    <3>3. QED
      BY <3>2, FunctionIsList
  <2>9. QED
    BY <2>1, <2>2, <2>3, <2>4, <2>8
<1>10. DOMAIN z = 1..n
  BY <1>5
<1>11. z \in Seq(Seq(Ratio))
  <2>1. z = [i \in 1..n |-> z[i]]
    BY <1>5
  <2>2. QED
    BY <1>2, <1>9, <2>1
<1>12. QED
  BY <1>1, <1>2, <1>6, <1>8, <1>9, <1>10, <1>11, Zenon DEF IsRatio

(* A set of numbers that is not empty has a least and a greatest.          *)
LEMMA Extremes ==
  ASSUME NEW S \in SUBSET Int, IsFiniteSet(S), S # {}
  PROVE  /\ Min(S) \in S
         /\ \A v \in S : Min(S) <= v /\ v <= Max(S)
<1>1. PICK s : s = Ascending(S)
  OBVIOUS
<1>2. s \in Seq(S) /\ ToSet(s) = S /\ IsAscending(s)
  BY <1>1, AscendingIs
<1>3. PICK n \in Nat : n = Len(s) /\ DOMAIN s = 1..n /\ \A i \in 1..n : s[i] \in S
  BY <1>2, LenProperties, ElementOfSeq
<1>4. \A v \in S : \E i \in 1..n : v = s[i]
  BY <1>2, <1>3 DEF ToSet
<1>5. n # 0
  <2>1. PICK v \in S : TRUE
    OBVIOUS
  <2>2. QED
    BY <1>3, <1>4, <2>1
<1>6. \A v \in S : s[1] <= v /\ v <= s[n]
  <2>1. SUFFICES ASSUME NEW v \in S PROVE s[1] <= v /\ v <= s[n]
    OBVIOUS
  <2>2. PICK i \in 1..n : v = s[i]
    BY <1>4
  <2>3. \A j, k \in 1..n : j < k => s[j] < s[k]
    BY <1>2, <1>3 DEF IsAscending
  <2>4. s[1] \in Int /\ s[n] \in Int /\ v \in Int
    <3>1. 1 \in 1..n /\ n \in 1..n
      BY <1>5
    <3>2. s[1] \in S /\ s[n] \in S
      BY <1>3, <3>1
    <3>3. QED
      BY <3>2
  <2>5. i = 1 \/ s[1] < s[i]
    BY <1>5, <2>3
  <2>6. i = n \/ s[i] < s[n]
    BY <1>5, <2>3
  <2>7. QED
    BY <2>2, <2>4, <2>5, <2>6
<1>7. s[1] \in S /\ s[n] \in S
  BY <1>3, <1>5
<1>8. Min(S) = s[1]
  BY <1>6, <1>7, MinIs
<1>9. Max(S) = s[n]
  BY <1>6, <1>7, MaxIs
<1>10. QED
  BY <1>6, <1>7, <1>8, <1>9

(* Members of the members of z.                                            *)
CellsOf(z) == UNION {ToSet(z[i]) : i \in DOMAIN z}

(* Flattening a grid keeps its cells.                                      *)
LEMMA FlatIs ==
  ASSUME NEW X, NEW z \in Seq(Seq(X))
  PROVE  Flat(z) \in Seq(X) /\ ToSet(Flat(z)) = CellsOf(z)
<1>1. DOMAIN z = 1..Len(z)
  BY LenProperties
<1>2. FlattenSeq(z) \in Seq(X) /\ IsUnion(FlattenSeq(z), z)
  BY FlattenIsUnion
<1>3. QED
  BY <1>1, <1>2, Zenon DEF Flat, IsUnion, CellsOf

(* Only the ratios of 0 are redrawn.                                       *)
LEMMA CleanCells ==
  ASSUME NEW z \in Seq(Seq(Ratio)), NEW m \in Ratio
  PROVE  /\ Clean(z, m) \in Seq(Seq(Ratio))
         /\ \A v \in CellsOf(Clean(z, m)) :
              (v \in CellsOf(z) /\ v # NegInf) \/ (v = m /\ NegInf \in CellsOf(z))
<1>1. PICK n \in Nat : n = Len(z) /\ DOMAIN z = 1..n /\ \A i \in 1..n : z[i] \in Seq(Ratio)
  BY LenProperties, ElementOfSeq
<1>2. PICK c : c = Clean(z, m)
  OBVIOUS
<1>3. c = [i \in 1..n |-> [j \in DOMAIN z[i] |-> IF z[i][j] = NegInf THEN m ELSE z[i][j]]]
  BY <1>1, <1>2, Zenon DEF Clean
<1>4. ASSUME NEW i \in 1..n
      PROVE  /\ c[i] \in Seq(Ratio) /\ DOMAIN c[i] = DOMAIN z[i]
             /\ \A j \in DOMAIN z[i] : c[i][j] = IF z[i][j] = NegInf THEN m ELSE z[i][j]
  <2>1. PICK s \in Seq(Ratio) : s = z[i]
    BY <1>1
  <2>2. PICK k \in Nat : DOMAIN s = 1..k /\ \A j \in 1..k : s[j] \in Ratio
    BY LenProperties, ElementOfSeq
  <2>3. PICK w : w = [j \in 1..k |-> IF s[j] = NegInf THEN m ELSE s[j]]
    OBVIOUS
  <2>4. c[i] = w
    BY <1>3, <2>1, <2>2, <2>3
  <2>5. w \in Seq(Ratio)
    BY <2>2, <2>3
  <2>6. QED
    BY <2>1, <2>2, <2>3, <2>4, <2>5
<1>5. c \in Seq(Seq(Ratio)) /\ DOMAIN c = 1..n
  <2>1. c = [i \in 1..n |-> c[i]]
    BY <1>3
  <2>2. \A i \in 1..n : c[i] \in Seq(Ratio)
    BY <1>4
  <2>3. c \in [1..n -> Seq(Ratio)]
    BY <2>1, <2>2, Zenon
  <2>4. QED
    BY <1>1, <2>1, <2>3, FunctionIsList, Zenon
<1>6. ASSUME NEW v \in CellsOf(c)
      PROVE  (v \in CellsOf(z) /\ v # NegInf) \/ (v = m /\ NegInf \in CellsOf(z))
  <2>1. PICK i \in 1..n : v \in ToSet(c[i])
    BY <1>5 DEF CellsOf
  <2>2. PICK j \in DOMAIN z[i] : v = c[i][j]
    BY <1>4, <2>1 DEF ToSet
  <2>3. z[i][j] \in ToSet(z[i])
    BY <2>2 DEF ToSet
  <2>4. z[i][j] \in CellsOf(z)
    BY <1>1, <2>1, <2>3 DEF CellsOf
  <2>5. QED
    BY <1>4, <2>2, <2>4
<1>7. QED
  BY <1>2, <1>5, <1>6

(* The scale of a heatmap covers its cells.                                *)
LEMMA ScaleCovers ==
  ASSUME NEW ratio, ratio.z \in Seq(Seq(Ratio)),
         NEW w \in ToSet(Flat(Heatmap(ratio).z)) \ {NaN}, IsFinite(w),
         NEW v \in ToSet(Flat(Heatmap(ratio).z)) \ {NaN}
  PROVE  IsFinite(v) /\ Heatmap(ratio).zmin <= v /\ v <= Heatmap(ratio).zmax
<1>1. PICK z \in Seq(Seq(Ratio)) : z = ratio.z
  OBVIOUS
<1>2. PICK s \in Seq(Ratio) : s = Flat(z) /\ ToSet(s) = CellsOf(z)
  BY FlatIs
<1>3. PICK F : F = Finite(s)
  OBVIOUS
<1>4. F = {u \in CellsOf(z) : u \notin {NaN, NegInf}}
  BY <1>2, <1>3, Zenon DEF Finite, IsFinite
<1>5. F \in SUBSET Int /\ IsFiniteSet(F)
  <2>1. IsFiniteSet(CellsOf(z)) /\ CellsOf(z) \in SUBSET Ratio
    BY <1>2, ListIsFinite
  <2>2. F \in SUBSET CellsOf(z)
    BY <1>4
  <2>3. QED
    BY <1>4, <2>1, <2>2, FS_Subset DEF Ratio
<1>6. PICK m : m = NanMin(s)
  OBVIOUS
<1>7. m = IF F = {} THEN NaN ELSE Min(F)
  BY <1>3, <1>6, Zenon DEF NanMin
<1>8. F # {} => m \in F /\ \A u \in F : m <= u /\ u <= Max(F)
  <2>1. SUFFICES ASSUME F # {} PROVE m \in F /\ \A u \in F : m <= u /\ u <= Max(F)
    OBVIOUS
  <2>2. Min(F) \in F /\ \A u \in F : Min(F) <= u /\ u <= Max(F)
    BY <1>5, <2>1, Extremes
  <2>3. m \in F
    BY <1>7, <2>1, <2>2
  <2>4. QED
    BY <1>7, <2>1, <2>2, <2>3
<1>9. m \in Ratio
  BY <1>5, <1>7, <1>8 DEF Ratio
<1>10. PICK h : h = Heatmap(ratio)
  OBVIOUS
<1>11. h = [zmin |-> m, zmax |-> NanMax(s), z |-> Clean(z, m)]
  BY <1>1, <1>2, <1>6, <1>10, Zenon DEF Heatmap
<1>12. h.zmin = m /\ h.z = Clean(z, m) /\ h.zmax = NanMax(s)
  BY <1>11
<1>13. F # {} => h.zmax = Max(F)
  BY <1>3, <1>12, Zenon DEF NanMax
<1>14. ToSet(Flat(h.z)) = CellsOf(Clean(z, m))
  BY <1>9, <1>12, CleanCells, FlatIs
<1>15. \A u \in CellsOf(Clean(z, m)) : (u \in CellsOf(z) /\ u # NegInf) \/ (u = m)
  BY <1>9, CleanCells
<1>16. \A u \in CellsOf(Clean(z, m)) \ {NaN} : u \in F
  BY <1>4, <1>7, <1>8, <1>15
<1>17. v \in F /\ w \in F
  BY <1>10, <1>14, <1>16
<1>18. IsFinite(v)
  BY <1>4, <1>17 DEF IsFinite
<1>19. QED
  BY <1>8, <1>10, <1>12, <1>13, <1>17, <1>18

(* The grid PlotEngine builds of a layer.                                  *)
LEMMA GridOfIs ==
  ASSUME NEW id \in LayerId
  PROVE  /\ ShownData(id) \in Seq(AnyDatum)
         /\ IsGrid(GridOf(id), ShownData(id), tab.xAxisName, tab.yAxisName)
<1>1. PICK A : A = ToSet(AxesOf(SourceTask(id)))
  OBVIOUS
<1>2. A \in SUBSET Axis
  BY <1>1, LayerHasRows, SignatureIs
<1>3. Datum(A) \in SUBSET AnyDatum
  BY <1>2, Zenon DEF AnyDatum
<1>4. ShownData(id) \in Seq(Datum(A))
  BY <1>1, ShownAre
<1>5. ShownData(id) \in Seq(AnyDatum)
  BY <1>3, <1>4
<1>6. IsGrid(LayerToGrid(ShownData(id), tab.xAxisName, tab.yAxisName),
             ShownData(id), tab.xAxisName, tab.yAxisName)
  BY <1>5, GridIs, Zenon
<1>7. QED
  BY <1>5, <1>6, Zenon DEF GridOf

(* The colours of the heatmap of two layers cover the ratios it shows,     *)
(* whatever the exports hold: the scale PlotEngine builds from nanMin and  *)
(* nanMax has every drawn cell on it.                                      *)
THEOREM Colours == Spec => []ColoursCoverRatios
<1>1. IInv => ColoursCoverRatios
  <2> DEFINE map == Heatmap(RatioGrid(GridOf(VisibleIds[1]), GridOf(VisibleIds[2])))
             cells == ToSet(Flat(map.z)) \ {NaN}
  <2>1. SUFFICES ASSUME IInv, tab # Null, Len(VisibleIds) = 2,
                        Comparable(GridOf(VisibleIds[1]), GridOf(VisibleIds[2])),
                        NEW w \in cells, IsFinite(w), NEW v \in cells
                 PROVE  IsFinite(v) /\ map.zmin <= v /\ v <= map.zmax
    BY DEF ColoursCoverRatios
  <2> HIDE DEF map, cells
  <2>2. PICK ids \in Seq(LayerId) : ids = VisibleIds
    BY <2>1, VisibleAre
  <2>3. ids[1] \in LayerId /\ ids[2] \in LayerId
    <3>1. Len(ids) = 2
      BY <2>1, <2>2
    <3>2. 1 \in 1..Len(ids) /\ 2 \in 1..Len(ids)
      BY <3>1
    <3>3. QED
      BY <3>2, ElementOfSeq
  <2>4. PICK a \in LayerId, b \in LayerId : a = ids[1] /\ b = ids[2]
    BY <2>3
  <2>5. PICK gridA, gridB : gridA = GridOf(a) /\ gridB = GridOf(b)
    OBVIOUS
  <2>6. /\ DOMAIN gridA = {"x", "y", "z"}
        /\ gridA.z \in Seq(Seq(Rate)) /\ gridB.z \in Seq(Seq(Rate))
    BY <2>5, GridOfIs DEF IsGrid
  <2>7. Comparable(gridA, gridB)
    BY <2>1, <2>2, <2>4, <2>5
  <2>8. PICK r : r = RatioGrid(gridA, gridB)
    OBVIOUS
  <2>9. r.z \in Seq(Seq(Ratio))
    BY <2>6, <2>7, <2>8, RatioIs DEF IsRatio
  <2>10. map = Heatmap(r)
    BY <2>2, <2>4, <2>5, <2>8, Zenon DEF map
  <2>11. QED
    BY <2>1, <2>9, <2>10, ScaleCovers DEF cells
<1>2. QED
  BY <1>1, Invariance, PTL

-----------------------------------------------------------------------------
(* Ratios                                                                  *)

(* The axes of a layer and the values of its sweep on them.                *)
LayerAxes(id) == ToSet(AxesOf(SourceTask(id)))
ValuesFor(id) == [a \in LayerAxes(id) |-> ToSet(SignatureOf[SourceTask(id)].axisValues[a])]

(* f is a combination of those values.                                     *)
OnAxes(f, id) ==
  /\ f = [a \in LayerAxes(id) |-> f[a]]
  /\ \A a \in LayerAxes(id) : f[a] \in ValuesFor(id)[a]

(* data has a point with the parameters f.                                 *)
HasPoint(data, f) == \E d \in ToSet(data) : d.params = f

(* Two layers with the same axes and the same values on them.              *)
SameValues(a, b) == LayerAxes(a) = LayerAxes(b) /\ ValuesFor(a) = ValuesFor(b)

(* A point of a layer is on the axes of its sweep.                         *)
LEMMA PointsOnAxes ==
  ASSUME NEW id \in LayerId, NEW d \in ToSet(DataOf[id])
  PROVE  OnAxes(d.params, id)
<1>1. PICK t \in SweepTask : id \in {t} \X KeysOf(RowsOf[t])
  BY Zenon DEF LayerId
<1>2. id[1] = t /\ SourceTask(id) = t
  BY <1>1 DEF SourceTask
<1>3. PICK A : A = LayerAxes(id) /\ A = ToSet(AxesOf(t)) /\ RowsOf[t] \in Seq(Row(A))
  BY <1>2, AxesOfRows, LayerHasRows DEF LayerAxes
<1>4. PICK rows \in Seq(Row(A)) : rows = RowsOf[t]
  BY <1>3
<1>5. PICK S : S = {r \in ToSet(rows) : r.key = id[2]}
  OBVIOUS
<1>6. PICK mine : mine = Keep(rows, S)
  OBVIOUS
<1>7. mine \in Seq(Row(A)) /\ ToSet(mine) = ToSet(rows) \cap S
  BY <1>6, KeepSet
<1>8. LayerRows(id) = mine
  BY <1>2, <1>4, <1>5, <1>6, Zenon DEF LayerRows
<1>9. DataOf[id] = [k \in DOMAIN mine |-> [params |-> mine[k].noise, lepr |-> mine[k].lepr]]
  BY <1>8, DataIs, Zenon
<1>10. PICK k \in DOMAIN mine : d = [params |-> mine[k].noise, lepr |-> mine[k].lepr]
  BY <1>9 DEF ToSet
<1>11. mine[k] \in ToSet(rows)
  <2>1. mine[k] \in ToSet(mine)
    BY DEF ToSet
  <2>2. QED
    BY <1>7, <2>1
<1>12. PICK n \in DOMAIN rows : mine[k] = rows[n]
  BY <1>11 DEF ToSet
<1>13. rows[n] \in Row(A)
  BY LenProperties, ElementOfSeq
<1>14. d.params = rows[n].noise /\ d.params \in [A -> Value]
  BY <1>10, <1>12, <1>13 DEF Row
<1>15. ASSUME NEW a \in A
       PROVE  d.params[a] \in ValuesFor(id)[a]
  <2>1. PICK sig : sig = SignatureOf[t] /\ IsSweepSignature(sig, rows)
    BY <1>4, SignatureIs
  <2>2. sig.axisNames = AxesOf(t)
    BY <2>1, Zenon DEF AxesOf
  <2>3. sig.axisValues[a] = Ascending(ValuesOn(rows, a))
    BY <1>3, <2>1, <2>2 DEF IsSweepSignature
  <2>4. ToSet(sig.axisValues[a]) = ValuesOn(rows, a)
    BY <2>3, SortedValues
  <2>5. ValuesFor(id)[a] = ValuesOn(rows, a)
    BY <1>2, <1>3, <2>1, <2>4 DEF ValuesFor
  <2>6. QED
    BY <1>14, <2>5 DEF ValuesOn
<1>16. QED
  BY <1>3, <1>14, <1>15 DEF OnAxes

(* A layer without holes has every combination.                            *)
LEMMA CompleteHas ==
  ASSUME NEW id \in LayerId, IsComplete[id], NEW f, OnAxes(f, id)
  PROVE  HasPoint(DataOf[id], f)
<1>1. PICK names : names = LayerAxes(id)
  OBVIOUS
<1>2. PICK V : V = ValuesFor(id)
  OBVIOUS
<1>3. V = [a \in names |-> ToSet(SignatureOf[SourceTask(id)].axisValues[a])]
  BY <1>1, <1>2, Zenon DEF ValuesFor
<1>4. f \in [names -> UNION {V[a] : a \in names}]
  BY <1>1, <1>2 DEF OnAxes
<1>5. UNION {V[a] : a \in names} =
      UNION {ToSet(SignatureOf[SourceTask(id)].axisValues[a]) : a \in names}
  BY <1>3
<1>6. \A g \in [names -> UNION {ToSet(SignatureOf[SourceTask(id)].axisValues[a]) : a \in names}] :
        (\A a \in names : g[a] \in ToSet(SignatureOf[SourceTask(id)].axisValues[a])) =>
           \E d \in ToSet(DataOf[id]) : d.params = g
  BY <1>1, Zenon DEF IsComplete, LayerAxes, AxesOf
<1>7. \A a \in names : f[a] \in ToSet(SignatureOf[SourceTask(id)].axisValues[a])
  BY <1>1, <1>2, <1>3 DEF OnAxes
<1>8. QED
  BY <1>4, <1>5, <1>6, <1>7, Zenon DEF HasPoint

(* isCompatible compares all that SameValues asks for.                     *)
LEMMA CompatibleAre ==
  ASSUME NEW a \in LayerId, NEW b \in LayerId, NEW sig,
         IsCompatible(sig, SignatureOf[SourceTask(a)]),
         IsCompatible(sig, SignatureOf[SourceTask(b)])
  PROVE  SameValues(a, b)
<1>1. PICK sa : sa = SignatureOf[SourceTask(a)] /\ IsSweepSignature(sa, RowsOf[SourceTask(a)])
  BY LayerHasRows, SignatureIs
<1>2. PICK sb : sb = SignatureOf[SourceTask(b)] /\ IsSweepSignature(sb, RowsOf[SourceTask(b)])
  BY LayerHasRows, SignatureIs
<1>3. sa.axisNames = sb.axisNames /\ sa.axisValueHashes = sb.axisValueHashes
  BY <1>1, <1>2 DEF IsCompatible
<1>4. LayerAxes(a) = ToSet(sa.axisNames) /\ LayerAxes(b) = ToSet(sb.axisNames)
  BY <1>1, <1>2, Zenon DEF LayerAxes, AxesOf
<1>5. ASSUME NEW x \in ToSet(sa.axisNames)
      PROVE  sa.axisValues[x] = sb.axisValues[x]
  <2>1. PICK n \in DOMAIN sa.axisNames : x = sa.axisNames[n]
    BY DEF ToSet
  <2>2. sa.axisValueHashes[n] = sa.axisValues[x]
    BY <1>1, <2>1 DEF IsSweepSignature
  <2>3. sb.axisValueHashes[n] = sb.axisValues[x]
    <3>1. sb.axisValueHashes = [i \in DOMAIN sb.axisNames |-> sb.axisValues[sb.axisNames[i]]]
      BY <1>2, Zenon DEF IsSweepSignature
    <3>2. n \in DOMAIN sb.axisNames /\ x = sb.axisNames[n]
      BY <1>3, <2>1, Zenon
    <3>3. QED
      BY <3>1, <3>2
  <2>4. QED
    BY <1>3, <2>2, <2>3
<1>6. PICK A : A = LayerAxes(a) /\ A = LayerAxes(b) /\ A = ToSet(sa.axisNames)
  BY <1>3, <1>4
<1>7. ValuesFor(a) = [x \in A |-> ToSet(sa.axisValues[x])]
  BY <1>1, <1>6, Zenon DEF ValuesFor
<1>8. ValuesFor(b) = [x \in A |-> ToSet(sb.axisValues[x])]
  BY <1>2, <1>6, Zenon DEF ValuesFor
<1>9. QED
  BY <1>5, <1>6, <1>7, <1>8 DEF SameValues

(* What a point is said to have on an axis.                                *)
At(f, a) == IF a \in DOMAIN f THEN f[a] ELSE Undefined

(* f has the values of the slices.                                         *)
Agrees(f) ==
  \A a \in DOMAIN tab.sliceValues \ {tab.xAxisName, tab.yAxisName} : At(f, a) = tab.sliceValues[a]

LEMMA ShownPoint ==
  ASSUME NEW id \in LayerId, NEW d
  PROVE  d \in ToSet(ShownData(id)) <=> d \in ToSet(DataOf[id]) /\ Agrees(d.params)
BY ShownAre, Zenon DEF Matching, Param, At, Agrees

(* A layer without holes shows every combination that agrees with the      *)
(* slices, so what it shows depends on its axes only.                      *)
LEMMA ShownHas ==
  ASSUME NEW id \in LayerId, IsComplete[id], NEW f, OnAxes(f, id), Agrees(f)
  PROVE  HasPoint(ShownData(id), f)
<1>1. HasPoint(DataOf[id], f)
  BY CompleteHas
<1>2. PICK d \in ToSet(DataOf[id]) : d.params = f
  BY <1>1 DEF HasPoint
<1>3. d \in ToSet(ShownData(id))
  BY <1>2, ShownPoint
<1>4. QED
  BY <1>2, <1>3 DEF HasPoint

LEMMA SameShown ==
  ASSUME NEW a \in LayerId, NEW b \in LayerId, IsComplete[b], SameValues(a, b),
         NEW d \in ToSet(ShownData(a))
  PROVE  HasPoint(ShownData(b), d.params)
<1>1. d \in ToSet(DataOf[a]) /\ Agrees(d.params)
  BY ShownPoint
<1>2. OnAxes(d.params, a)
  BY <1>1, PointsOnAxes
<1>3. OnAxes(d.params, b)
  BY <1>2, Zenon DEF OnAxes, SameValues
<1>4. QED
  BY <1>1, <1>3, ShownHas

(* Layers of the same axes have grids of the same axes.                    *)
LEMMA SameParams ==
  ASSUME NEW a \in LayerId, NEW b \in LayerId, IsComplete[b], SameValues(a, b), NEW x
  PROVE  ParamsOn(ShownData(a), x) \subseteq ParamsOn(ShownData(b), x)
<1>1. SUFFICES ASSUME NEW v \in ParamsOn(ShownData(a), x)
               PROVE  v \in ParamsOn(ShownData(b), x)
  OBVIOUS
<1>2. PICK d \in ToSet(ShownData(a)) : v = At(d.params, x)
  BY DEF ParamsOn, ToSet, Param, At
<1>3. HasPoint(ShownData(b), d.params)
  BY SameShown
<1>4. PICK e \in ToSet(ShownData(b)) : e.params = d.params
  BY <1>3 DEF HasPoint
<1>5. QED
  BY <1>2, <1>4 DEF ParamsOn, ToSet, Param, At

(* s has a point with these two parameters.                                *)
HasCell(s, x, y, vx, vy) == \E d \in ToSet(s) : Param(d, x) = vx /\ Param(d, y) = vy

(* A row and a column of the grid of a layer without holes meet in a       *)
(* point.                                                                  *)
LEMMA CellsMeet ==
  ASSUME NEW id \in LayerId, IsComplete[id], tab.xAxisName # tab.yAxisName,
         NEW d \in ToSet(ShownData(id)), NEW e \in ToSet(ShownData(id))
  PROVE  HasCell(ShownData(id), tab.xAxisName, tab.yAxisName,
                 Param(d, tab.xAxisName), Param(e, tab.yAxisName))
<1>1. PICK A : A = LayerAxes(id)
  OBVIOUS
<1>2. PICK x, y : x = tab.xAxisName /\ y = tab.yAxisName
  OBVIOUS
<1>3. x # y
  BY <1>2
<1>4. OnAxes(d.params, id) /\ OnAxes(e.params, id) /\ Agrees(d.params)
  BY ShownPoint, PointsOnAxes
<1>5. DOMAIN d.params = A /\ DOMAIN e.params = A
  BY <1>1, <1>4 DEF OnAxes
<1>6. PICK f : f = [a \in A |-> IF a = y THEN e.params[a] ELSE d.params[a]]
  OBVIOUS
<1>7. DOMAIN f = A /\ \A a \in A : f[a] = IF a = y THEN e.params[a] ELSE d.params[a]
  BY <1>6
<1>8. OnAxes(f, id)
  <2>1. f = [a \in A |-> f[a]]
    BY <1>6
  <2>2. QED
    BY <1>1, <1>4, <1>7, <2>1 DEF OnAxes
<1>9. Agrees(f)
  <2>1. ASSUME NEW a, a # y PROVE At(f, a) = At(d.params, a)
    BY <1>5, <1>7, <2>1 DEF At
  <2>2. QED
    BY <1>2, <1>4, <2>1 DEF Agrees
<1>10. HasPoint(ShownData(id), f)
  BY <1>8, <1>9, ShownHas
<1>11. PICK p \in ToSet(ShownData(id)) : p.params = f
  BY <1>10 DEF HasPoint
<1>12. Param(p, x) = Param(d, x)
  BY <1>3, <1>5, <1>7, <1>11 DEF Param
<1>13. Param(p, y) = Param(e, y)
  BY <1>5, <1>7, <1>11 DEF Param
<1>14. QED
  BY <1>2, <1>12, <1>13 DEF HasCell

(* The point of a layer that a cell shows.                                 *)
PointAt(id, vx, vy) ==
  CHOOSE d \in ToSet(ShownData(id)) :
    Param(d, tab.xAxisName) = vx /\ Param(d, tab.yAxisName) = vy

(* The rate in a cell is that of the one point there.                      *)
LEMMA CellShowsPoint ==
  ASSUME RowsDiffer, IInv, Repaired, NEW id \in LayerId, id \in ToSet(VisibleIds),
         NEW vx, NEW vy,
         HasCell(ShownData(id), tab.xAxisName, tab.yAxisName, vx, vy)
  PROVE  CellAt(ShownData(id), tab.xAxisName, tab.yAxisName, vx, vy) = PointAt(id, vx, vy).lepr
<1>1. PICK s \in Seq(AnyDatum) : s = ShownData(id)
  BY GridOfIs
<1>2. PICK x, y : x = tab.xAxisName /\ y = tab.yAxisName
  OBVIOUS
<1>3. PICK n \in Nat : n = Len(s) /\ DOMAIN s = 1..n
  BY LenProperties
<1>4. CellsAreDistinct
  BY CellsDiffer
<1>5. \A i, j \in 1..n : i # j => Cell(s[i]) # Cell(s[j])
  BY <1>1, <1>3, <1>4 DEF CellsAreDistinct, Cell
<1>6. PICK d : d = PointAt(id, vx, vy)
  OBVIOUS
<1>7. d \in ToSet(s) /\ Param(d, x) = vx /\ Param(d, y) = vy
  BY <1>1, <1>2, <1>6, Zenon DEF HasCell, PointAt
<1>8. PICK j \in 1..n : d = s[j]
  BY <1>3, <1>7 DEF ToSet
<1>9. PICK S : S = PlacesAt(s, x, y, vx, vy)
  OBVIOUS
<1>10. j \in S
  BY <1>3, <1>7, <1>8, <1>9 DEF PlacesAt
<1>11. IsRateAt(CellAt(s, x, y, vx, vy), s, S)
  BY <1>9, CellAtIs
<1>12. PICK i \in S : CellAt(s, x, y, vx, vy) = s[i].lepr
  BY <1>10, <1>11 DEF IsRateAt
<1>13. i \in 1..n /\ Param(s[i], x) = vx /\ Param(s[i], y) = vy
  BY <1>3, <1>9, <1>12 DEF PlacesAt
<1>14. Cell(s[i]) = Cell(s[j])
  BY <1>2, <1>7, <1>8, <1>13 DEF Cell
<1>15. i = j
  BY <1>5, <1>13, <1>14
<1>16. QED
  BY <1>1, <1>2, <1>6, <1>8, <1>12, <1>15

(* The ratio grid of layers a and b is aligned.                            *)
IsAligned(a, b) ==
  LET gridA == GridOf(a)
      gridB == GridOf(b)
      ratio == RatioGrid(gridA, gridB) IN
  /\ Comparable(gridA, gridB)
  /\ \A j \in DOMAIN ratio.x, i \in DOMAIN ratio.y :
       tab.xAxisName # tab.yAxisName =>
       ratio.z[i][j] = LogRatio(PointAt(a, ratio.x[j], ratio.y[i]).lepr,
                                PointAt(b, ratio.x[j], ratio.y[i]).lepr)

(* Layers without holes and with the same axes have aligned grids.         *)
LEMMA SameAxesAlign ==
  ASSUME RowsDiffer, IInv, Repaired, NEW a \in LayerId, NEW b \in LayerId,
         a \in ToSet(VisibleIds), b \in ToSet(VisibleIds),
         IsComplete[a], IsComplete[b], SameValues(a, b)
  PROVE  IsAligned(a, b)
<1>1. PICK x, y : x = tab.xAxisName /\ y = tab.yAxisName
  OBVIOUS
<1>2. PICK s, t : s = ShownData(a) /\ t = ShownData(b)
  OBVIOUS
<1>3. PICK gridA, gridB : gridA = GridOf(a) /\ gridB = GridOf(b)
  OBVIOUS
<1>4. IsGrid(gridA, s, x, y) /\ IsGrid(gridB, t, x, y)
  BY <1>1, <1>2, <1>3, GridOfIs
<1>5. ASSUME NEW v PROVE ParamsOn(s, v) = ParamsOn(t, v)
  <2>1. SameValues(b, a)
    BY DEF SameValues
  <2>2. ParamsOn(ShownData(a), v) \subseteq ParamsOn(ShownData(b), v)
    BY SameParams
  <2>3. ParamsOn(ShownData(b), v) \subseteq ParamsOn(ShownData(a), v)
    BY <2>1, SameParams
  <2>4. QED
    BY <1>2, <2>2, <2>3
<1>6. gridA.x = gridB.x /\ gridA.y = gridB.y
  BY <1>4, <1>5, Zenon DEF IsGrid
<1>7. gridA.z \in Seq(Seq(Rate)) /\ gridB.z \in Seq(Seq(Rate)) /\ DOMAIN gridA = {"x", "y", "z"}
  BY <1>4 DEF IsGrid
<1>8. DOMAIN gridA.z = DOMAIN gridA.y /\ DOMAIN gridB.z = DOMAIN gridA.y
  BY <1>4, <1>6, Zenon DEF IsGrid
<1>9. Comparable(gridA, gridB)
  <2>1. Len(gridA.z) \in Nat /\ DOMAIN gridA.z = 1..Len(gridA.z)
    BY <1>7, LenProperties
  <2>2. Len(gridB.z) \in Nat /\ DOMAIN gridB.z = 1..Len(gridB.z)
    BY <1>7, LenProperties
  <2>3. 1..Len(gridA.z) = 1..Len(gridB.z)
    BY <1>8, <2>1, <2>2, Zenon
  <2>4. QED
    BY <2>1, <2>2, <2>3 DEF Comparable
<1>10. PICK ratio : ratio = RatioGrid(gridA, gridB)
  OBVIOUS
<1>11. IsRatio(ratio, gridA, gridB)
  BY <1>7, <1>9, <1>10, RatioIs
<1>12. ASSUME NEW j \in DOMAIN ratio.x, NEW i \in DOMAIN ratio.y, tab.xAxisName # tab.yAxisName
       PROVE  ratio.z[i][j] = LogRatio(PointAt(a, ratio.x[j], ratio.y[i]).lepr,
                                       PointAt(b, ratio.x[j], ratio.y[i]).lepr)
  <2>1. ratio.x = gridA.x /\ ratio.y = gridA.y
    BY <1>11, Zenon DEF IsRatio
  <2>2. PICK vx, vy : vx = gridA.x[j] /\ vy = gridA.y[i]
    OBVIOUS
  <2>3. j \in DOMAIN gridA.x /\ i \in DOMAIN gridA.y
    BY <1>12, <2>1
  <2>4. vx \in ParamsOn(s, x) /\ vy \in ParamsOn(s, y)
    BY <1>4, <2>2, <2>3 DEF IsGrid, ToSet
  <2>5. HasCell(s, x, y, vx, vy)
    <3>1. PICK d \in ToSet(s) : vx = Param(d, x)
      BY <2>4 DEF ParamsOn, ToSet
    <3>2. PICK e \in ToSet(s) : vy = Param(e, y)
      BY <2>4 DEF ParamsOn, ToSet
    <3>3. QED
      BY <1>1, <1>2, <1>12, <3>1, <3>2, CellsMeet
  <2>6. HasCell(t, x, y, vx, vy)
    <3>1. vx \in ParamsOn(t, x) /\ vy \in ParamsOn(t, y)
      BY <1>5, <2>4
    <3>2. PICK d \in ToSet(t) : vx = Param(d, x)
      BY <3>1 DEF ParamsOn, ToSet
    <3>3. PICK e \in ToSet(t) : vy = Param(e, y)
      BY <3>1 DEF ParamsOn, ToSet
    <3>4. QED
      BY <1>1, <1>2, <1>12, <3>2, <3>3, CellsMeet
  <2>7. CellAt(s, x, y, vx, vy) = PointAt(a, vx, vy).lepr
    BY <1>1, <1>2, <2>5, CellShowsPoint
  <2>8. CellAt(t, x, y, vx, vy) = PointAt(b, vx, vy).lepr
    BY <1>1, <1>2, <2>6, CellShowsPoint
  <2>9. gridA.z[i][j] = CellAt(s, x, y, vx, vy)
    BY <1>4, <2>2, <2>3, Zenon DEF IsGrid
  <2>10. gridB.z[i][j] = CellAt(t, x, y, vx, vy)
    <3>1. j \in DOMAIN gridB.x /\ i \in DOMAIN gridB.y /\ vx = gridB.x[j] /\ vy = gridB.y[i]
      BY <1>6, <2>2, <2>3
    <3>2. QED
      BY <1>4, <3>1, Zenon DEF IsGrid
  <2>11. /\ i \in DOMAIN gridA.z /\ j \in DOMAIN gridA.z[i]
         /\ j \in DOMAIN gridB.z[i]
    BY <1>4, <1>6, <1>8, <2>3, Zenon DEF IsGrid
  <2>12. ratio.z[i][j] = LogRatio(gridA.z[i][j], gridB.z[i][j])
    BY <1>11, <2>11, Zenon DEF IsRatio
  <2>13. QED
    BY <2>1, <2>2, <2>7, <2>8, <2>9, <2>10, <2>12
<1>13. QED
  BY <1>3, <1>9, <1>10, <1>12, Zenon DEF IsAligned

(* Drawn comparisons are of layers on screen, which share their axes.      *)
LEMMA DrawnAre ==
  ASSUME IInv, tab # Null, ~moved, NEW n \in DrawnComparisons
  PROVE  /\ tab.comparisons[n].id[1] \in LayerId /\ tab.comparisons[n].id[2] \in LayerId
         /\ tab.comparisons[n].id[1] \in ToSet(VisibleIds)
         /\ tab.comparisons[n].id[2] \in ToSet(VisibleIds)
         /\ SameValues(tab.comparisons[n].id[1], tab.comparisons[n].id[2])
<1>1. tab.comparisons \in Seq(Comparison)
  BY DEF IInv, GoodTab, IsTab
<1>2. n \in DOMAIN tab.comparisons /\ ToSet(tab.comparisons[n].id) \subseteq ToSet(VisibleIds)
  BY DEF DrawnComparisons
<1>3. tab.comparisons[n] \in Comparison
  BY <1>1, <1>2, LenProperties, ElementOfSeq
<1>4. PICK p \in LayerId \X LayerId : p = tab.comparisons[n].id
  BY <1>3 DEF Comparison
<1>5. PICK a \in LayerId, b \in LayerId : p = <<a, b>>
  OBVIOUS
<1>6. a \in ToSet(p) /\ b \in ToSet(p) /\ p[1] = a /\ p[2] = b
  BY <1>5 DEF ToSet
<1>7. a \in ToSet(VisibleIds) /\ b \in ToSet(VisibleIds)
  BY <1>2, <1>4, <1>6
<1>8. PICK l \in ToSet(tab.layers) : l.id = a
  BY <1>7, VisibleAre
<1>9. PICK m \in ToSet(tab.layers) : m.id = b
  BY <1>7, VisibleAre
<1>10. SharesAxes(tab)
  BY DEF IInv
<1>11. /\ IsCompatible(tab.axisSignature, SignatureOf[SourceTask(a)])
       /\ IsCompatible(tab.axisSignature, SignatureOf[SourceTask(b)])
  BY <1>8, <1>9, <1>10 DEF SharesAxes
<1>12. SameValues(a, b)
  BY <1>11, CompatibleAre
<1>13. QED
  BY <1>4, <1>5, <1>6, <1>7, <1>12

(* A ratio on screen divides the rates of the two layers at the same       *)
(* parameters, although the grids are matched by position: for layers      *)
(* without holes, whatever was imported, removed, hidden, moved or sliced. *)
THEOREM Ratios ==
  ASSUME RowsDiffer
  PROVE  Spec => []RatioAligned
<1>1. IInv => RatioAligned
  <2>1. SUFFICES ASSUME IInv, Repaired, ~moved, NEW n \in DrawnComparisons,
                        IsComplete[tab.comparisons[n].id[1]],
                        IsComplete[tab.comparisons[n].id[2]]
                 PROVE  IsAligned(tab.comparisons[n].id[1], tab.comparisons[n].id[2])
    BY Zenon DEF RatioAligned, IsAligned, PointAt
  <2>2. tab # Null
    BY <2>1 DEF Repaired
  <2>3. QED
    BY <2>1, <2>2, DrawnAre, SameAxesAlign
<1>2. QED
  BY <1>1, Invariance, PTL

=============================================================================
