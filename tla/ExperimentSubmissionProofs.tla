--------------------- MODULE ExperimentSubmissionProofs ---------------------
(***************************************************************************)
(* Theorems about ExperimentSubmission, for any configs and any number of  *)
(* clients, on lemmas about the expansion of a sweep.                      *)
(***************************************************************************)
EXTENDS ExperimentSubmission, FoldProofs, FiniteSetTheorems

Point == UNION {[K -> Atom] : K \in SUBSET Text}

LEMMA EntryIs ==
  ASSUME NEW e \in Entry
  PROVE  /\ e.key \in Text
         /\ e.kind \in {"num", "str", "list", "space"}
         /\ e.items \in Seq(Atom)
         /\ Len(e.items) \in Nat /\ \A m \in 1..Len(e.items) : e.items[m] \in Atom
         /\ e.kind \in {"num", "str"} => Len(e.items) = 1
         /\ e.kind = "str" => e.items[1] \in Text
<1>1. ASSUME NEW v \in Atom, e.items = <<v>>
      PROVE  e.items \in Seq(Atom) /\ Len(e.items) = 1 /\ e.items[1] = v
  BY <1>1
<1>2. Number \subseteq Atom /\ Text \subseteq Atom
  BY DEF Atom
<1>3. CASE e \in [key : Text, kind : {"num"}, items : {<<v>> : v \in Number}]
  <2>1. PICK v \in Number : e.items = <<v>>
    BY <1>3
  <2>2. e.items \in Seq(Atom) /\ Len(e.items) = 1 /\ e.items[1] = v /\ v \in Atom
    BY <1>1, <1>2, <2>1
  <2>3. QED
    BY <1>3, <2>2
<1>4. CASE e \in [key : Text, kind : {"str"}, items : {<<v>> : v \in Text}]
  <2>1. PICK v \in Text : e.items = <<v>>
    BY <1>4
  <2>2. e.items \in Seq(Atom) /\ Len(e.items) = 1 /\ e.items[1] = v /\ v \in Atom
    BY <1>1, <1>2, <2>1
  <2>3. QED
    BY <1>4, <2>2
<1>5. CASE e \in [key : Text, kind : {"list"}, items : Seq(Atom)]
  BY <1>5, LenProperties, ElementOfSeq
<1>6. CASE e \in [key : Text, kind : {"space"}, items : Seq(Number)]
  <2>1. e.items \in Seq(Number)
    BY <1>6
  <2>2. e.items \in Seq(Atom)
    BY <1>2, <2>1, SeqMonotonic
  <2>3. QED
    BY <1>6, <2>2, LenProperties, ElementOfSeq
<1>7. QED
  BY <1>3, <1>4, <1>5, <1>6 DEF Entry

(* Putting a value into a point.                                           *)
LEMMA PutIs ==
  ASSUME NEW p \in Point, NEW k \in Text, NEW v \in Atom
  PROVE  /\ Put(p, k, v) \in Point
         /\ DOMAIN Put(p, k, v) = DOMAIN p \cup {k}
         /\ Put(p, k, v)[k] = v
         /\ \A x \in DOMAIN p : x # k => Put(p, k, v)[x] = p[x]
<1>1. PICK K \in SUBSET Text : p \in [K -> Atom]
  BY DEF Point
<1>2. Put(p, k, v) \in [K \cup {k} -> Atom]
  BY <1>1 DEF Put
<1>3. QED
  BY <1>1, <1>2 DEF Put, Point

LEMMA EmptyPointIs == EmptyPoint \in Point /\ DOMAIN EmptyPoint = {}
<1>1. <<>> \in [1..0 -> Atom] /\ 1..0 = {} /\ DOMAIN <<>> = 1..0
  <2>1. <<>> \in Seq(Atom) /\ Len(<<>>) = 0
    BY EmptySeq
  <2>2. QED
    BY <2>1, LenProperties
<1>2. QED
  BY <1>1 DEF EmptyPoint, Point

(* The points after one more axis, in the order of the cartesian product.  *)
LEMMA AddAxisIs ==
  ASSUME NEW points \in Seq(Point), NEW e \in Entry
  PROVE  /\ AddAxis(points, e) \in Seq(Point)
         /\ Len(AddAxis(points, e)) = Len(points) * Len(e.items)
         /\ \A n \in 1..Len(points), m \in 1..Len(e.items) :
              AddAxis(points, e)[(n - 1) * Len(e.items) + m] = Put(points[n], e.key, e.items[m])
<1>1. PICK l \in Nat : l = Len(points) /\ \A n \in 1..l : points[n] \in Point
  BY LenProperties, ElementOfSeq
<1>2. PICK i \in Nat : i = Len(e.items) /\ \A m \in 1..i : e.items[m] \in Atom
  BY EntryIs
<1> DEFINE Block(n) == [m \in 1..i |-> Put(points[n], e.key, e.items[m])]
           ss == [n \in 1..Len(points) |->
                    [m \in 1..Len(e.items) |-> Put(points[n], e.key, e.items[m])]]
<1>3. ASSUME NEW n \in 1..l, NEW m \in 1..i
      PROVE  Put(points[n], e.key, e.items[m]) \in Point
  BY <1>1, <1>2, EntryIs, PutIs
<1>4. ASSUME NEW n \in 1..l
      PROVE  Block(n) \in Seq(Point) /\ Len(Block(n)) = i
  BY <1>3
<1>5. ss \in Seq(Seq(Point)) /\ Len(ss) = l /\ \A n \in 1..l : ss[n] = Block(n)
  <2>1. ss = [n \in 1..l |-> Block(n)]
    BY <1>1, <1>2
  <2> HIDE DEF Block, ss
  <2>2. QED
    BY <1>4, <2>1
<1>6. AreOfLength(ss, i)
  <2> HIDE DEF Block
  <2>1. QED
    BY <1>4, <1>5 DEF AreOfLength
<1>7. AddAxis(points, e) = FlattenSeq(ss)
  BY Zenon DEF AddAxis
<1> HIDE DEF ss
<1>8. \A n \in 1..l, m \in 1..i : ss[n][m] = Put(points[n], e.key, e.items[m])
  BY <1>5
<1>9. FlattenSeq(ss) \in Seq(Point) /\ IsUnion(FlattenSeq(ss), ss)
  BY <1>5, FlattenIsUnion
<1>10. HasBlocks(FlattenSeq(ss), ss, i)
  BY <1>2, <1>5, <1>6, FlattenBlocks
<1>11. Len(FlattenSeq(ss)) = l * i
  BY <1>5, <1>10 DEF HasBlocks
<1>12. \A n \in 1..l, m \in 1..i :
         FlattenSeq(ss)[(n - 1) * i + m] = Put(points[n], e.key, e.items[m])
  <2>1. \A n \in 1..l, m \in 1..i : FlattenSeq(ss)[(n - 1) * i + m] = ss[n][m]
    BY <1>5, <1>10, Zenon DEF HasBlocks
  <2>2. QED
    BY <1>8, <2>1, Zenon
<1>13. QED
  BY <1>1, <1>2, <1>7, <1>9, <1>11, <1>12, Zenon

(* As a set: every point with every value.                                 *)
Extends(x, S, e) == \E p \in S, v \in ToSet(e.items) : x = Put(p, e.key, v)

LEMMA AddAxisSet ==
  ASSUME NEW points \in Seq(Point), NEW e \in Entry, NEW x
  PROVE  x \in ToSet(AddAxis(points, e)) <=> Extends(x, ToSet(points), e)
<1>1. PICK l \in Nat : l = Len(points) /\ DOMAIN points = 1..l
  BY LenProperties
<1>2. PICK i \in Nat : i = Len(e.items) /\ DOMAIN e.items = 1..i
  BY EntryIs, LenProperties
<1>3. PICK r \in Seq(Point) : r = AddAxis(points, e)
  BY AddAxisIs
<1>4. Len(r) = l * i
  BY <1>1, <1>2, <1>3, AddAxisIs
<1>5. \A n \in 1..l, m \in 1..i : r[(n - 1) * i + m] = Put(points[n], e.key, e.items[m])
  BY <1>1, <1>2, <1>3, AddAxisIs
<1>6. PICK t \in Nat : t = l * i /\ DOMAIN r = 1..t
  <2>1. l * i \in Nat
    OBVIOUS
  <2>2. DOMAIN r = 1..Len(r)
    BY <1>3, LenProperties
  <2>3. QED
    BY <1>4, <2>1, <2>2
<1>7. ASSUME x \in ToSet(r)
      PROVE  Extends(x, ToSet(points), e)
  <2>1. PICK k \in 1..t : x = r[k]
    BY <1>6, <1>7 DEF ToSet
  <2>2. i # 0
    <3>1. SUFFICES ASSUME i = 0 PROVE FALSE
      OBVIOUS
    <3>2. l * i = 0
      BY <3>1
    <3>3. QED
      BY <1>6, <2>1, <3>2
  <2>3. PICK a \in Nat : k = a + 1 /\ a < t
    <3>1. k - 1 \in Nat /\ k = (k - 1) + 1 /\ k - 1 < t
      BY <2>1
    <3>2. QED
      BY <3>1
  <2>4. a \div i \in Nat /\ a \div i < l
    BY <1>6, <2>2, <2>3, QuotientBelow
  <2>5. a % i \in 0..(i - 1) /\ a = (a \div i) * i + (a % i)
    BY <2>2, Division
  <2>6. PICK n \in 1..l : n - 1 = a \div i
    <3>1. \A q \in Nat : q < l => q + 1 \in 1..l /\ (q + 1) - 1 = q
      OBVIOUS
    <3>2. QED
      BY <2>4, <3>1
  <2>7. PICK m \in 1..i : m - 1 = a % i
    <3>1. \A q \in 0..(i - 1) : q + 1 \in 1..i /\ (q + 1) - 1 = q
      OBVIOUS
    <3>2. QED
      BY <2>5, <3>1
  <2>8. k = (n - 1) * i + m
    <3>1. PICK c \in Nat : c = (a \div i) * i
      BY <2>4
    <3>2. k = c + m
      BY <2>3, <2>5, <2>7, <3>1
    <3>3. QED
      BY <2>6, <3>1, <3>2
  <2>9. x = Put(points[n], e.key, e.items[m])
    BY <1>5, <2>1, <2>8, Zenon
  <2>10. points[n] \in ToSet(points) /\ e.items[m] \in ToSet(e.items)
    BY <1>1, <1>2 DEF ToSet
  <2>11. QED
    BY <2>9, <2>10, Zenon DEF Extends
<1>8. ASSUME NEW p \in ToSet(points), NEW v \in ToSet(e.items)
      PROVE  Put(p, e.key, v) \in ToSet(r)
  <2>1. PICK n \in 1..l, m \in 1..i : p = points[n] /\ v = e.items[m]
    BY <1>1, <1>2 DEF ToSet
  <2>2. (n - 1) * i + m \in 1..t
    <3>1. PICK a \in Nat : a = n - 1
      OBVIOUS
    <3>2. a * i \in Nat /\ (a + 1) * i <= l * i /\ (a + 1) * i = a * i + i
      BY <3>1, MultiplesGrow
    <3>3. PICK b \in Nat, c \in Nat : b = a * i /\ c = l * i
      OBVIOUS
    <3>4. b + m \in 1..c
      BY <3>2, <3>3
    <3>5. QED
      BY <1>6, <3>1, <3>3, <3>4
  <2>3. r[(n - 1) * i + m] \in ToSet(r)
    BY <1>6, <2>2, Zenon DEF ToSet
  <2>4. QED
    BY <1>5, <2>1, <2>3, Zenon
<1>9. QED
  BY <1>3, <1>7, <1>8, Zenon DEF Extends

LEMMA ResolveIs ==
  ASSUME NEW p \in Point, NEW e \in Entry, e.kind = "str"
  PROVE  Resolve(p, e) \in Point
<1>1. e.key \in Text /\ e.items[1] \in Text
  BY EntryIs
<1>2. (IF e.items[1] \in DOMAIN p THEN p[e.items[1]] ELSE e.items[1]) \in Atom
  BY <1>1 DEF Point, Atom
<1>3. QED
  BY <1>1, <1>2, PutIs DEF Resolve

Formula == {e \in Entry : IsFormula(e)}

LEMMA FirstProduct == <<EmptyPoint>> \in Seq(Point) /\ Len(<<EmptyPoint>>) = 1
  BY EmptyPointIs

(* ProductOf, one axis at a time.                                          *)
IsProductRun(p, axes) ==
  /\ p \in [0..Len(axes) -> Seq(Point)]
  /\ p[0] = <<EmptyPoint>>
  /\ \A k \in 1..Len(axes) : p[k] = AddAxis(p[k - 1], axes[k])
  /\ ProductOf(axes) = p[Len(axes)]

LEMMA ProductSteps ==
  ASSUME NEW axes \in Seq(Entry)
  PROVE  \E p : IsProductRun(p, axes)
<1>1. PICK n \in Nat : n = Len(axes) /\ DOMAIN axes = 1..n /\ \A k \in 1..n : axes[k] \in Entry
  BY LenProperties, ElementOfSeq
<1> DEFINE Solves(it) == it = [d \in SUBSET (DOMAIN axes) |->
             IF d = {} THEN <<EmptyPoint>>
             ELSE AddAxis(it[d \ {Max(d)}], axes[Max(d)])]
           G == [e \in (1..n) \X Seq(Point) |-> AddAxis(e[2], axes[e[1]])]
<1>2. G \in [(1..n) \X Seq(Point) -> Seq(Point)]
  BY <1>1, AddAxisIs
<1>3. PICK h \in [SUBSET (1..n) -> Seq(Point)] : IsFoldTable(h, n, <<EmptyPoint>>, G)
  <2>1. <<EmptyPoint>> \in Seq(Point)
    BY FirstProduct
  <2> HIDE DEF G
  <2>2. QED
    BY <1>2, <2>1, FoldTable, Zenon
<1>4. ASSUME NEW d \in SUBSET (1..n), d # {}
      PROVE  Max(d) \in 1..n /\ d \ {Max(d)} \in SUBSET (1..n)
  BY <1>4, MaxOf
<1>5. Solves(h)
  <2>1. ASSUME NEW d \in SUBSET (1..n)
        PROVE  h[d] = IF d = {} THEN <<EmptyPoint>>
                      ELSE AddAxis(h[d \ {Max(d)}], axes[Max(d)])
    <3>1. CASE d = {}
      BY <1>3, <3>1, Zenon DEF IsFoldTable
    <3>2. CASE d # {}
      <4>1. PICK m \in 1..n : m = Max(d) /\ d \ {m} \in SUBSET (1..n)
        BY <1>4, <3>2, Zenon
      <4>2. PICK v \in Seq(Point) : v = h[d \ {m}]
        BY <1>3, <4>1, Zenon
      <4>3. h[d] = G[<<m, v>>]
        BY <1>3, <3>2, <4>1, <4>2, Zenon DEF IsFoldTable
      <4>4. h[d] = AddAxis(v, axes[m])
        BY <4>3
      <4>5. QED
        BY <3>2, <4>1, <4>2, <4>4, Zenon
    <3>3. QED
      BY <3>1, <3>2
  <2>2. QED
    BY <1>1, <1>3, <2>1, Zenon
<1>6. PICK it : Solves(it) /\ ProductOf(axes) = it[DOMAIN axes]
  <2>1. Solves(CHOOSE it : Solves(it))
    <3> HIDE DEF Solves
    <3>1. QED
      BY <1>5, Zenon
  <2>2. QED
    BY <2>1, Zenon DEF ProductOf, FoldLeft, MapThenFoldSet
<1> DEFINE p == [k \in 0..n |-> it[1..k]]
<1>7. p[0] = <<EmptyPoint>>
  <2>1. {} \in SUBSET (1..n) /\ 1..0 = {} /\ 0 \in 0..n
    OBVIOUS
  <2>2. it[{}] = <<EmptyPoint>>
    BY <1>1, <1>6, <2>1, Zenon
  <2>3. QED
    BY <2>1, <2>2, Zenon
<1>8. ASSUME NEW k \in 1..n PROVE p[k] = AddAxis(p[k - 1], axes[k])
  <2>1. /\ 1..k # {} /\ 1..k \in SUBSET (1..n) /\ Max(1..k) = k
        /\ (1..k) \ {k} = 1..(k - 1)
    BY LastPlace
  <2>2. it[1..k] = AddAxis(it[1..(k - 1)], axes[k])
    BY <1>1, <1>6, <2>1, Zenon
  <2>3. k \in 0..n /\ k - 1 \in 0..n
    OBVIOUS
  <2>4. QED
    BY <2>2, <2>3, Zenon
<1> HIDE DEF p
<1>9. \A k \in 0..n : p[k] \in Seq(Point)
  <2> DEFINE T == {m \in 0..n : p[m] \in Seq(Point)}
  <2>1. 0 \in T
    <3>1. 0 \in 0..n /\ <<EmptyPoint>> \in Seq(Point)
      BY FirstProduct
    <3>2. QED
      BY <1>7, <3>1, Zenon
  <2>2. ASSUME NEW k \in 1..n, k - 1 \in T PROVE k \in T
    <3>1. k \in 0..n
      OBVIOUS
    <3>2. p[k - 1] \in Seq(Point) /\ axes[k] \in Entry
      BY <1>1, <2>2, Zenon
    <3>3. AddAxis(p[k - 1], axes[k]) \in Seq(Point)
      BY <3>2, AddAxisIs
    <3>4. QED
      BY <1>8, <3>1, <3>3, Zenon
  <2> HIDE DEF T
  <2>3. \A k \in 0..n : k \in T
    BY <2>1, <2>2, InductionTo
  <2>4. QED
    BY <2>3 DEF T
<1>10. p \in [0..n -> Seq(Point)]
  BY <1>9 DEF p
<1>11. ProductOf(axes) = p[n]
  BY <1>1, <1>6 DEF p
<1>12. QED
  BY <1>1, <1>7, <1>8, <1>10, <1>11, Zenon DEF IsProductRun

(* WithFormulas, one formula at a time.                                    *)
IsFormulaRun(p, point, formulas) ==
  /\ p \in [0..Len(formulas) -> Point]
  /\ p[0] = point
  /\ \A k \in 1..Len(formulas) : p[k] = Resolve(p[k - 1], formulas[k])
  /\ WithFormulas(point, formulas) = p[Len(formulas)]

LEMMA FormulaSteps ==
  ASSUME NEW point \in Point, NEW formulas \in Seq(Formula)
  PROVE  \E p : IsFormulaRun(p, point, formulas)
<1>1. PICK n \in Nat : n = Len(formulas) /\ DOMAIN formulas = 1..n /\ \A k \in 1..n : formulas[k] \in Formula
  BY LenProperties, ElementOfSeq
<1> DEFINE Solves(it) == it = [d \in SUBSET (DOMAIN formulas) |->
             IF d = {} THEN point
             ELSE Resolve(it[d \ {Max(d)}], formulas[Max(d)])]
           G == [e \in (1..n) \X Point |-> Resolve(e[2], formulas[e[1]])]
<1>2. G \in [(1..n) \X Point -> Point]
  BY <1>1, ResolveIs DEF Formula, IsFormula
<1>3. PICK h \in [SUBSET (1..n) -> Point] : IsFoldTable(h, n, point, G)
  <2>1. point \in Point
    OBVIOUS
  <2> HIDE DEF G
  <2>2. QED
    BY <1>2, <2>1, FoldTable, Zenon
<1>4. ASSUME NEW d \in SUBSET (1..n), d # {}
      PROVE  Max(d) \in 1..n /\ d \ {Max(d)} \in SUBSET (1..n)
  BY <1>4, MaxOf
<1>5. Solves(h)
  <2>1. ASSUME NEW d \in SUBSET (1..n)
        PROVE  h[d] = IF d = {} THEN point
                      ELSE Resolve(h[d \ {Max(d)}], formulas[Max(d)])
    <3>1. CASE d = {}
      BY <1>3, <3>1, Zenon DEF IsFoldTable
    <3>2. CASE d # {}
      <4>1. PICK m \in 1..n : m = Max(d) /\ d \ {m} \in SUBSET (1..n)
        BY <1>4, <3>2, Zenon
      <4>2. PICK v \in Point : v = h[d \ {m}]
        BY <1>3, <4>1, Zenon
      <4>3. h[d] = G[<<m, v>>]
        BY <1>3, <3>2, <4>1, <4>2, Zenon DEF IsFoldTable
      <4>4. h[d] = Resolve(v, formulas[m])
        BY <4>3
      <4>5. QED
        BY <3>2, <4>1, <4>2, <4>4, Zenon
    <3>3. QED
      BY <3>1, <3>2
  <2>2. QED
    BY <1>1, <1>3, <2>1, Zenon
<1>6. PICK it : Solves(it) /\ WithFormulas(point, formulas) = it[DOMAIN formulas]
  <2>1. Solves(CHOOSE it : Solves(it))
    <3> HIDE DEF Solves
    <3>1. QED
      BY <1>5, Zenon
  <2>2. QED
    BY <2>1, Zenon DEF WithFormulas, FoldLeft, MapThenFoldSet
<1> DEFINE p == [k \in 0..n |-> it[1..k]]
<1>7. p[0] = point
  <2>1. {} \in SUBSET (1..n) /\ 1..0 = {} /\ 0 \in 0..n
    OBVIOUS
  <2>2. it[{}] = point
    BY <1>1, <1>6, <2>1, Zenon
  <2>3. QED
    BY <2>1, <2>2, Zenon
<1>8. ASSUME NEW k \in 1..n PROVE p[k] = Resolve(p[k - 1], formulas[k])
  <2>1. /\ 1..k # {} /\ 1..k \in SUBSET (1..n) /\ Max(1..k) = k
        /\ (1..k) \ {k} = 1..(k - 1)
    BY LastPlace
  <2>2. it[1..k] = Resolve(it[1..(k - 1)], formulas[k])
    BY <1>1, <1>6, <2>1, Zenon
  <2>3. k \in 0..n /\ k - 1 \in 0..n
    OBVIOUS
  <2>4. QED
    BY <2>2, <2>3, Zenon
<1> HIDE DEF p
<1>9. \A k \in 0..n : p[k] \in Point
  <2> DEFINE T == {m \in 0..n : p[m] \in Point}
  <2>1. 0 \in T
    <3>1. 0 \in 0..n /\ point \in Point
      OBVIOUS
    <3>2. QED
      BY <1>7, <3>1, Zenon
  <2>2. ASSUME NEW k \in 1..n, k - 1 \in T PROVE k \in T
    <3>1. k \in 0..n
      OBVIOUS
    <3>2. p[k - 1] \in Point /\ formulas[k] \in Formula
      BY <1>1, <2>2, Zenon
    <3>3. Resolve(p[k - 1], formulas[k]) \in Point
      BY <3>2, ResolveIs DEF Formula, IsFormula
    <3>4. QED
      BY <1>8, <3>1, <3>3, Zenon
  <2> HIDE DEF T
  <2>3. \A k \in 0..n : k \in T
    BY <2>1, <2>2, InductionTo
  <2>4. QED
    BY <2>3 DEF T
<1>10. p \in [0..n -> Point]
  BY <1>9 DEF p
<1>11. WithFormulas(point, formulas) = p[n]
  BY <1>1, <1>6 DEF p
<1>12. QED
  BY <1>1, <1>7, <1>8, <1>10, <1>11, Zenon DEF IsFormulaRun

LEMMA AxesAre ==
  ASSUME NEW params \in Params
  PROVE  /\ Axes(params) \in Seq(Entry)
         /\ ToSet(Axes(params)) = {e \in ToSet(params) : IsAxis(e)}
<1>1. params \in Seq(Entry)
  BY DEF Params
<1>2. QED
  BY <1>1, KeepSet DEF Axes

LEMMA FormulasAre ==
  ASSUME NEW params \in Params
  PROVE  /\ Formulas(params) \in Seq(Formula)
         /\ ToSet(Formulas(params)) = {e \in ToSet(params) : IsFormula(e)}
<1>1. params \in Seq(Entry)
  BY DEF Params
<1> DEFINE S == {e \in ToSet(params) : IsFormula(e)}
<1>2. Keep(params, S) \in Seq(Entry) /\ ToSet(Keep(params, S)) = ToSet(params) \cap S
  BY <1>1, KeepSet
<1>3. PICK s \in Seq(Entry) : s = Keep(params, S) /\ ToSet(s) = S
  BY <1>2
<1>4. s \in Seq(Formula)
  <2>1. PICK n \in Nat : n = Len(s) /\ s \in [1..n -> Entry] /\ DOMAIN s = 1..n
    BY LenProperties
  <2>2. \A i \in 1..n : IsFormula(s[i])
    BY <1>3, <2>1 DEF ToSet
  <2>3. s \in [1..n -> Formula]
    BY <2>1, <2>2 DEF Formula
  <2>4. QED
    BY <2>1, <2>3, SeqDef
<1>5. QED
  BY <1>3, <1>4 DEF Formulas

LEMMA ProductIs ==
  ASSUME NEW axes \in Seq(Entry)
  PROVE  ProductOf(axes) \in Seq(Point)
<1>1. PICK n \in Nat : n = Len(axes)
  BY LenProperties
<1>2. n \in 0..n
  OBVIOUS
<1>3. PICK p : IsProductRun(p, axes)
  BY ProductSteps
<1>4. QED
  BY <1>1, <1>2, <1>3, Zenon DEF IsProductRun

LEMMA WithFormulasIs ==
  ASSUME NEW point \in Point, NEW formulas \in Seq(Formula)
  PROVE  WithFormulas(point, formulas) \in Point
<1>1. PICK n \in Nat : n = Len(formulas)
  BY LenProperties
<1>2. n \in 0..n
  OBVIOUS
<1>3. PICK p : IsFormulaRun(p, point, formulas)
  BY FormulaSteps
<1>4. QED
  BY <1>1, <1>2, <1>3, Zenon DEF IsFormulaRun

(* The points of some params: at least one.                                *)
LEMMA ExpandParamsIs ==
  ASSUME NEW params \in Params
  PROVE  ExpandParams(params) \in Seq(Point) /\ Len(ExpandParams(params)) \in Nat \ {0}
<1> DEFINE product == ProductOf(Axes(params))
           At(n) == WithFormulas(product[n], Formulas(params))
           expanded == [n \in 1..Len(product) |-> At(n)]
<1>1. PICK l \in Nat : l = Len(product) /\ \A n \in 1..l : product[n] \in Point
  BY AxesAre, ProductIs, LenProperties, ElementOfSeq
<1>2. \A n \in 1..l : At(n) \in Point
  BY <1>1, FormulasAre, WithFormulasIs
<1>3. expanded \in Seq(Point)
  <2> HIDE DEF At, product
  <2>1. [n \in 1..l |-> At(n)] \in [1..l -> Point]
    BY <1>2
  <2>2. QED
    BY <1>1, <2>1, SeqDef
<1>4. ExpandParams(params) = IF expanded = <<>> THEN <<EmptyPoint>> ELSE expanded
  BY Zenon DEF ExpandParams
<1> HIDE DEF expanded
<1>5. CASE expanded = <<>>
  BY <1>4, <1>5, FirstProduct
<1>6. CASE expanded # <<>>
  BY <1>3, <1>4, <1>6, EmptySeq
<1>7. QED
  BY <1>5, <1>6

Job == [circuit : Point, noise : Point, decoder : Point]

(* The jobs of a config are its combinations, as often as they repeat.     *)
IsJobList(list, c) ==
  /\ list \in Seq(Job)
  /\ Len(list) = Len(ExpandParams(c.circuit)) * (Len(ExpandParams(c.noise)) * Len(ExpandParams(c.decoder)))
  /\ ToSet(list) = [circuit : ToSet(ExpandParams(c.circuit)),
                    noise : ToSet(ExpandParams(c.noise)),
                    decoder : ToSet(ExpandParams(c.decoder))]

LEMMA ExpandJobsIs ==
  ASSUME NEW c \in Config
  PROVE  IsJobList(ExpandJobs(c), c)
<1>1. PICK cps \in Seq(Point), nps \in Seq(Point), dps \in Seq(Point) :
        /\ cps = ExpandParams(c.circuit) /\ Len(cps) \in Nat \ {0}
        /\ nps = ExpandParams(c.noise) /\ Len(nps) \in Nat \ {0}
        /\ dps = ExpandParams(c.decoder) /\ Len(dps) \in Nat \ {0}
  BY ConfigAssumption, ExpandParamsIs
<1>2. PICK C \in Nat \ {0}, N \in Nat \ {0}, D \in Nat \ {0} :
        C = Len(cps) /\ N = Len(nps) /\ D = Len(dps)
  BY <1>1
<1>3. PICK size \in Nat : size = C * (N * D) /\ size = C * N * D
  <2>1. C * N * D = C * (N * D)
    OBVIOUS
  <2>2. N * D \in Nat
    OBVIOUS
  <2>3. C * (N * D) \in Nat
    BY <2>2
  <2>4. QED
    BY <2>1, <2>3
<1> DEFINE at(k) == [circuit |-> cps[((k - 1) \div (N * D)) + 1],
                     noise |-> nps[(((k - 1) \div D) % N) + 1],
                     decoder |-> dps[((k - 1) % D) + 1]]
           list == [k \in 1..size |-> at(k)]
<1>4. ExpandJobs(c) = list
  BY <1>1, <1>2, <1>3, Zenon DEF ExpandJobs
<1>5. /\ \A i \in 1..C : cps[i] \in Point
      /\ \A i \in 1..N : nps[i] \in Point
      /\ \A i \in 1..D : dps[i] \in Point
  BY <1>2, ElementOfSeq
<1>6. /\ ToSet(cps) = {cps[i] : i \in 1..C}
      /\ ToSet(nps) = {nps[i] : i \in 1..N}
      /\ ToSet(dps) = {dps[i] : i \in 1..D}
  BY <1>2, LenProperties DEF ToSet
<1>7. ASSUME NEW k \in 1..size
      PROVE  at(k) \in [circuit : ToSet(cps), noise : ToSet(nps), decoder : ToSet(dps)]
  <2>1. /\ ((k - 1) \div (N * D)) + 1 \in 1..C
        /\ (((k - 1) \div D) % N) + 1 \in 1..N
        /\ ((k - 1) % D) + 1 \in 1..D
    BY <1>3, ThreePlaces
  <2>2. /\ cps[((k - 1) \div (N * D)) + 1] \in ToSet(cps)
        /\ nps[(((k - 1) \div D) % N) + 1] \in ToSet(nps)
        /\ dps[((k - 1) % D) + 1] \in ToSet(dps)
    BY <1>6, <2>1, Zenon
  <2>3. QED
    BY <2>2
<1>8. /\ ToSet(cps) \subseteq Point
      /\ ToSet(nps) \subseteq Point
      /\ ToSet(dps) \subseteq Point
  BY <1>5, <1>6
<1>9. list \in Seq(Job) /\ Len(list) = size
  <2>1. \A k \in 1..size : at(k) \in Job
    <3> HIDE DEF at
    <3>1. QED
      BY <1>7, <1>8 DEF Job
  <2> HIDE DEF at
  <2>2. QED
    BY <2>1
<1>10. ASSUME NEW j \in [circuit : ToSet(cps), noise : ToSet(nps), decoder : ToSet(dps)]
       PROVE  \E k \in 1..size : at(k) = j
  <2>1. PICK x \in 1..C, y \in 1..N, z \in 1..D :
          j = [circuit |-> cps[x], noise |-> nps[y], decoder |-> dps[z]]
    <3>1. j.circuit \in ToSet(cps) /\ j.noise \in ToSet(nps) /\ j.decoder \in ToSet(dps)
          /\ j = [circuit |-> j.circuit, noise |-> j.noise, decoder |-> j.decoder]
      OBVIOUS
    <3>2. PICK x \in 1..C, y \in 1..N, z \in 1..D :
            j.circuit = cps[x] /\ j.noise = nps[y] /\ j.decoder = dps[z]
      BY <1>6, <3>1
    <3>3. QED
      BY <3>1, <3>2
  <2>2. PICK k \in 1..(C * (N * D)) : IsMeeting(k, N, D, x, y, z)
    BY ThreePlacesMeet
  <2>3. QED
    BY <1>3, <2>1, <2>2, Zenon DEF IsMeeting
<1>11. ToSet(list) = {at(k) : k \in 1..size}
  <2>1. DOMAIN list = 1..size
    OBVIOUS
  <2> HIDE DEF at
  <2>2. QED
    BY <2>1 DEF ToSet
<1>12. ToSet(list) = [circuit : ToSet(cps), noise : ToSet(nps), decoder : ToSet(dps)]
  <2> HIDE DEF at, list
  <2>1. QED
    BY <1>7, <1>10, <1>11
<1> HIDE DEF list
<1>13. QED
  BY <1>1, <1>2, <1>3, <1>4, <1>9, <1>12, Zenon DEF IsJobList

Row == [circuit : Point, noise : Point, runner : {AsDict(c.runner) : c \in Config}]
JobRow == [experiment : Nat, data : Nat, decoder : Point]

RowsWellFormed ==
  /\ config \in [Client -> Config]
  /\ experiments \in Seq(Config)
  /\ data \in Seq(Row)
  /\ jobs \in Seq(JobRow)

RowsRefer ==
  \A k \in 1..Len(jobs) :
    jobs[k].experiment \in 1..Len(experiments) /\ jobs[k].data \in 1..Len(data)

(* The rows of experiment i follow row b, one for each job of its config.  *)
RowsStartAfter(i, b) ==
  LET list == ExpandJobs(experiments[i]) IN
  /\ b + Len(list) <= Len(jobs)
  /\ \A k \in 1..Len(jobs) : k \in JobsOf(i) <=> b < k /\ k <= b + Len(list)
  /\ \A k \in 1..Len(list) :
       /\ jobs[b + k].decoder = list[k].decoder
       /\ data[jobs[b + k].data] = DataSpec(experiments[i], list[k])

RowsFollow == \A i \in 1..Len(experiments) : \E b \in Nat : RowsStartAfter(i, b)

ExistingIsKnown == \A c \in Client : request[c] = "existing" => Known(config[c])

RequestsWellFormed ==
  request \in [Client -> {"received", "existing", "new", "refused", "valid", "created", "error"}]

SubmissionInv ==
  RequestsWellFormed /\ RowsWellFormed /\ RowsRefer /\ RowsFollow /\ ExistingIsKnown /\ DataIsShared

LEMMA DataSpecIs ==
  ASSUME NEW c \in Config, NEW job \in Job
  PROVE  DataSpec(c, job) \in Row
  BY DEF DataSpec, Row, Job

(* What Create writes: the list of jobs, the data rows, and the new        *)
(* decoding rows.                                                          *)
IsInsert(c, list, rows, new) ==
  /\ c \in Config
  /\ list = ExpandJobs(c) /\ list \in Seq(Job)
  /\ rows \in Seq(Row)
  /\ IsExtension(rows, data, SpecsOf(c), Len(list))
  /\ new \in Seq(JobRow) /\ Len(new) = Len(list)
  /\ \A k \in 1..Len(list) :
       /\ SpecsOf(c)[k] = DataSpec(c, list[k])
       /\ new[k].experiment = Len(experiments) + 1
       /\ new[k].data \in 1..Len(rows)
       /\ rows[new[k].data] = DataSpec(c, list[k])
       /\ new[k].decoder = list[k].decoder
  /\ experiments' = Append(experiments, c)
  /\ data' = rows
  /\ jobs' = jobs \o new

LEMMA CreateInserts ==
  ASSUME RowsWellFormed, NEW c \in Client, Create(c), ~Known(config[c])
  PROVE  \E list, rows, new : IsInsert(config[c], list, rows, new)
<1>1. PICK cfg \in Config : cfg = config[c]
  BY DEF RowsWellFormed
<1>2. PICK list \in Seq(Job) : list = ExpandJobs(cfg)
  BY ExpandJobsIs DEF IsJobList
<1>3. PICK n \in Nat : n = Len(list) /\ DOMAIN list = 1..n /\ \A k \in 1..n : list[k] \in Job
  BY LenProperties, ElementOfSeq
<1>4. ASSUME NEW k \in 1..n PROVE DataSpec(cfg, list[k]) \in Row
  BY <1>3, DataSpecIs
<1>5. PICK specs \in Seq(Row) : specs = SpecsOf(cfg) /\ Len(specs) = n
                                /\ \A k \in 1..n : specs[k] = DataSpec(cfg, list[k])
  <2>1. SpecsOf(cfg) = [k \in 1..n |-> DataSpec(cfg, list[k])]
    BY <1>2, <1>3, Zenon DEF SpecsOf
  <2>2. [k \in 1..n |-> DataSpec(cfg, list[k])] \in Seq(Row)
    BY <1>4
  <2>3. QED
    BY <2>1, <2>2
<1>6. PICK rows \in Seq(Row) : rows = NewData(cfg) /\ IsExtension(rows, data, specs, n)
  <2>1. data \in Seq(Row)
    BY DEF RowsWellFormed
  <2>2. AppendNew(data, specs) \in Seq(Row) /\ IsExtension(AppendNew(data, specs), data, specs, n)
    BY <1>5, <2>1, AppendNewIs
  <2>3. NewData(cfg) = AppendNew(data, specs)
    BY <1>5 DEF NewData
  <2>4. QED
    BY <2>2, <2>3
<1>7. ASSUME NEW k \in 1..n
      PROVE  /\ RowOf(rows, DataSpec(cfg, list[k])) \in 1..Len(rows)
             /\ rows[RowOf(rows, DataSpec(cfg, list[k]))] = DataSpec(cfg, list[k])
  <2>1. \E i \in 1..Len(rows) : rows[i] = specs[k]
    BY <1>6 DEF IsExtension
  <2>2. \E i \in 1..Len(rows) : rows[i] = DataSpec(cfg, list[k])
    BY <1>5, <2>1, Zenon
  <2>3. QED
    BY <2>2, Zenon DEF RowOf
<1> DEFINE at(k) == [experiment |-> Len(experiments) + 1,
                     data |-> RowOf(rows, DataSpec(cfg, list[k])),
                     decoder |-> list[k].decoder]
           new == [k \in 1..n |-> at(k)]
<1>8. new \in Seq(JobRow) /\ Len(new) = n
  <2>1. Len(experiments) \in Nat /\ Len(rows) \in Nat
    BY LenProperties DEF RowsWellFormed
  <2>2. \A k \in 1..n : at(k) \in JobRow
    BY <1>3, <1>7, <2>1 DEF JobRow, Job
  <2> HIDE DEF at
  <2>3. QED
    BY <2>2
<1>9. ASSUME NEW k \in 1..n
      PROVE  /\ new[k].experiment = Len(experiments) + 1
             /\ new[k].data \in 1..Len(rows)
             /\ rows[new[k].data] = DataSpec(cfg, list[k])
             /\ new[k].decoder = list[k].decoder
  BY <1>7
<1>10. experiments' = Append(experiments, cfg) /\ data' = rows /\ jobs' = jobs \o new
  BY <1>1, <1>2, <1>3, <1>6, Zenon DEF Create
<1> HIDE DEF new
<1>11. IsInsert(cfg, list, rows, new)
  BY <1>2, <1>3, <1>5, <1>6, <1>8, <1>9, <1>10 DEF IsInsert
<1>12. QED
  BY <1>1, <1>11, Zenon

(* The two parts of DataIsShared.                                          *)
LEMMA SharedIs == DataIsShared <=>
  IsDistinct(data) /\ \A i \in 1..Len(data) : \E k \in 1..Len(jobs) : jobs[k].data = i
  BY DEF DataIsShared, IsDistinct

LEMMA InsertKeepsInv ==
  ASSUME SubmissionInv, config' = config, NEW c, NEW list, NEW rows, NEW new,
         IsInsert(c, list, rows, new)
  PROVE  RowsWellFormed' /\ RowsRefer' /\ RowsFollow' /\ DataIsShared'
<1>1. PICK e \in Nat, d \in Nat, j \in Nat, n \in Nat, r \in Nat :
        /\ e = Len(experiments) /\ d = Len(data) /\ j = Len(jobs)
        /\ n = Len(list) /\ r = Len(rows)
  BY LenProperties DEF SubmissionInv, RowsWellFormed, IsInsert
<1>2. /\ experiments' \in Seq(Config) /\ Len(experiments') = e + 1
      /\ \A i \in 1..e : experiments'[i] = experiments[i]
      /\ experiments'[e + 1] = c
  BY <1>1, AppendProperties DEF SubmissionInv, RowsWellFormed, IsInsert
<1>3. /\ jobs' \in Seq(JobRow) /\ Len(jobs') = j + n
      /\ \A k \in 1..j : jobs'[k] = jobs[k]
      /\ \A k \in 1..n : jobs'[j + k] = new[k]
  <2>1. jobs \in Seq(JobRow) /\ new \in Seq(JobRow) /\ Len(new) = n /\ jobs' = jobs \o new
    BY <1>1 DEF SubmissionInv, RowsWellFormed, IsInsert
  <2>2. /\ jobs \o new \in Seq(JobRow) /\ Len(jobs \o new) = j + n
        /\ \A k \in 1..(j + n) : (jobs \o new)[k] = IF k <= j THEN jobs[k] ELSE new[k - j]
    <3>1. Len(jobs) = j
      BY <1>1
    <3>2. QED
      BY <2>1, <3>1, ConcatProperties
  <2>3. \A k \in 1..n : j + k \in 1..(j + n) /\ ~(j + k <= j) /\ (j + k) - j = k
    OBVIOUS
  <2>4. \A k \in 1..j : k \in 1..(j + n) /\ k <= j
    OBVIOUS
  <2>5. QED
    BY <2>1, <2>2, <2>3, <2>4
<1>4. /\ data' \in Seq(Row) /\ data' = rows /\ Len(data') = r /\ r >= d
      /\ \A i \in 1..d : data'[i] = data[i]
  BY <1>1 DEF IsInsert, IsExtension
<1>5. RowsWellFormed'
  BY <1>2, <1>3, <1>4 DEF SubmissionInv, RowsWellFormed
<1>6. \A k \in 1..(j + n) : k \in 1..j \/ (k - j \in 1..n /\ k = j + (k - j))
  OBVIOUS
<1>7. \A k \in 1..j : jobs[k].experiment \in 1..e /\ jobs[k].data \in 1..d
  BY <1>1 DEF SubmissionInv, RowsRefer
<1>8. \A k \in 1..n : /\ new[k].experiment = e + 1 /\ new[k].data \in 1..r
                      /\ rows[new[k].data] = DataSpec(c, list[k])
                      /\ new[k].decoder = list[k].decoder
  BY <1>1 DEF IsInsert
<1>9. RowsRefer'
  <2>1. ASSUME NEW k \in 1..(j + n)
        PROVE  jobs'[k].experiment \in 1..(e + 1) /\ jobs'[k].data \in 1..r
    <3>1. CASE k \in 1..j
      <4>1. jobs'[k] = jobs[k] /\ jobs[k].experiment \in 1..e /\ jobs[k].data \in 1..d
        BY <1>3, <1>7, <3>1
      <4>2. 1..e \subseteq 1..(e + 1) /\ 1..d \subseteq 1..r
        BY <1>4
      <4>3. QED
        BY <4>1, <4>2, Zenon
    <3>2. CASE k - j \in 1..n /\ k = j + (k - j)
      <4>1. PICK m \in 1..n : k = j + m
        BY <3>2
      <4>2. jobs'[k] = new[m] /\ e + 1 \in 1..(e + 1)
        BY <1>3, <4>1
      <4>3. QED
        BY <1>8, <4>2
    <3>3. QED
      BY <1>6, <3>1, <3>2
  <2>2. QED
    BY <1>2, <1>3, <1>4, <2>1 DEF RowsRefer
<1>10. ASSUME NEW i \in 1..(e + 1) PROVE \E b \in Nat : RowsStartAfter(i, b)'
  <2>1. CASE i \in 1..e
    <3>1. PICK b \in Nat : RowsStartAfter(i, b)
      BY <1>1, <2>1 DEF SubmissionInv, RowsFollow
    <3>2. PICK old \in Seq(Job) : old = ExpandJobs(experiments[i]) /\ experiments'[i] = experiments[i]
      <4>1. experiments[i] \in Config
        BY <1>1, <2>1, ElementOfSeq DEF SubmissionInv, RowsWellFormed
      <4>2. QED
        BY <1>2, <2>1, <4>1, ExpandJobsIs DEF IsJobList
    <3>3. PICK m \in Nat : m = Len(old) /\ b + m <= j
      BY <1>1, <3>1, <3>2, LenProperties DEF RowsStartAfter
    <3>4. ASSUME NEW k \in 1..(j + n)
          PROVE  jobs'[k].experiment = i <=> b < k /\ k <= b + m
      <4>1. CASE k \in 1..j
        BY <1>1, <1>3, <3>1, <3>2, <3>3, <4>1 DEF RowsStartAfter, JobsOf
      <4>2. CASE k - j \in 1..n /\ k = j + (k - j)
        <5>1. jobs'[k].experiment = e + 1
          BY <1>3, <1>8, <4>2
        <5>2. QED
          BY <2>1, <3>3, <4>2, <5>1
      <4>3. QED
        BY <1>6, <4>1, <4>2
    <3>5. ASSUME NEW k \in 1..m
          PROVE  /\ jobs'[b + k].decoder = old[k].decoder
                 /\ data'[jobs'[b + k].data] = DataSpec(experiments'[i], old[k])
      <4>1. b + k \in 1..j
        BY <3>3
      <4>2. jobs'[b + k] = jobs[b + k] /\ jobs[b + k].data \in 1..d
        BY <1>3, <1>7, <4>1
      <4>3. /\ jobs[b + k].decoder = old[k].decoder
            /\ data[jobs[b + k].data] = DataSpec(experiments[i], old[k])
        BY <3>1, <3>2, <3>3, Zenon DEF RowsStartAfter
      <4>4. QED
        BY <1>4, <3>2, <4>2, <4>3
    <3>6. RowsStartAfter(i, b)'
      <4>1. b + m <= j + n
        BY <3>3
      <4>2. \A k \in 1..(j + n) : k \in JobsOf(i)' <=> b < k /\ k <= b + m
        BY <1>3, <3>4 DEF JobsOf
      <4>3. ExpandJobs(experiments'[i]) = old
        BY <3>2
      <4>4. QED
        BY <1>3, <3>3, <3>5, <4>1, <4>2, <4>3 DEF RowsStartAfter
    <3>7. QED
      BY <3>6
  <2>2. CASE i = e + 1
    <3>1. experiments'[i] = c /\ ExpandJobs(c) = list
      BY <1>2, <2>2 DEF IsInsert
    <3>2. ASSUME NEW k \in 1..(j + n)
          PROVE  jobs'[k].experiment = i <=> j < k /\ k <= j + n
      <4>1. CASE k \in 1..j
        BY <1>3, <1>7, <2>2, <4>1
      <4>2. CASE k - j \in 1..n /\ k = j + (k - j)
        <5>1. PICK m \in 1..n : k = j + m
          BY <4>2
        <5>2. jobs'[k] = new[m] /\ new[m].experiment = e + 1
          BY <1>3, <1>8, <5>1
        <5>3. j < k /\ k <= j + n
          BY <4>2
        <5>4. QED
          BY <2>2, <5>2, <5>3
      <4>3. QED
        BY <1>6, <4>1, <4>2
    <3>3. ASSUME NEW k \in 1..n
          PROVE  /\ jobs'[j + k].decoder = list[k].decoder
                 /\ data'[jobs'[j + k].data] = DataSpec(c, list[k])
      BY <1>3, <1>4, <1>8
    <3>4. RowsStartAfter(i, j)'
      <4>1. \A k \in 1..(j + n) : k \in JobsOf(i)' <=> j < k /\ k <= j + n
        BY <1>3, <3>2 DEF JobsOf
      <4>2. QED
        BY <1>1, <1>3, <3>1, <3>3, <4>1 DEF RowsStartAfter
    <3>5. QED
      BY <3>4
  <2>3. QED
    BY <2>1, <2>2
<1>11. RowsFollow'
  BY <1>2, <1>10 DEF RowsFollow
<1>12. IsDistinct(rows)
  BY SharedIs DEF SubmissionInv, IsInsert, IsExtension
<1>13. ASSUME NEW i \in 1..r PROVE \E k \in 1..(j + n) : jobs'[k].data = i
  <2>1. CASE i \in 1..d
    <3>1. PICK k \in 1..j : jobs[k].data = i
      BY <1>1, <2>1 DEF SubmissionInv, DataIsShared
    <3>2. k \in 1..(j + n) /\ jobs'[k].data = i
      BY <1>3, <3>1
    <3>3. QED
      BY <3>2
  <2>2. CASE i > d
    <3>1. PICK k \in 1..n : rows[i] = DataSpec(c, list[k])
      BY <1>1, <2>2 DEF IsInsert, IsExtension
    <3>2. new[k].data = i
      <4>1. new[k].data \in 1..r /\ rows[new[k].data] = rows[i]
        BY <1>8, <3>1
      <4>2. QED
        BY <1>1, <1>12, <4>1 DEF IsDistinct
    <3>3. j + k \in 1..(j + n) /\ jobs'[j + k].data = i
      BY <1>3, <3>2
    <3>4. QED
      BY <3>3
  <2>3. QED
    BY <1>4, <2>1, <2>2
<1>14. DataIsShared'
  BY <1>1, <1>3, <1>4, <1>12, <1>13 DEF DataIsShared, IsDistinct
<1>15. QED
  BY <1>5, <1>9, <1>11, <1>14

LEMMA SubmissionInit == Init => SubmissionInv
<1> SUFFICES ASSUME Init PROVE SubmissionInv
  OBVIOUS
<1>1. RowsWellFormed
  BY EmptySeq DEF Init, RowsWellFormed
<1>2. Len(experiments) = 0 /\ Len(data) = 0 /\ Len(jobs) = 0
  BY EmptySeq DEF Init
<1>3. RowsRefer /\ RowsFollow /\ DataIsShared
  BY <1>2 DEF RowsRefer, RowsFollow, DataIsShared
<1>4. ExistingIsKnown
  BY DEF Init, ExistingIsKnown
<1>5. RequestsWellFormed
  BY DEF Init, RequestsWellFormed
<1>6. QED
  BY <1>1, <1>3, <1>4, <1>5 DEF SubmissionInv

(* The steps that only move a request.                                     *)
LEMMA RequestKeepsRows ==
  ASSUME SubmissionInv, UNCHANGED <<config, experiments, data, jobs>>
  PROVE  (RowsWellFormed /\ RowsRefer /\ RowsFollow /\ DataIsShared)' /\ \A c : Known(c)' = Known(c)
<1>1. (RowsWellFormed /\ RowsRefer /\ DataIsShared)'
  BY DEF SubmissionInv, RowsWellFormed, RowsRefer, DataIsShared
<1>2. RowsFollow'
  <2>1. experiments' = experiments /\ data' = data /\ jobs' = jobs
    OBVIOUS
  <2>2. ASSUME NEW i, NEW b, RowsStartAfter(i, b) PROVE RowsStartAfter(i, b)'
    <3>1. JobsOf(i)' = JobsOf(i)
      BY <2>1 DEF JobsOf
    <3>2. QED
      BY <2>1, <2>2, <3>1 DEF RowsStartAfter
  <2>3. QED
    BY <2>1, <2>2 DEF SubmissionInv, RowsFollow
<1>3. \A c : Known(c)' = Known(c)
  BY DEF Known
<1>4. QED
  BY <1>1, <1>2, <1>3

(* An experiment stays known.                                              *)
LEMMA KnownStaysKnown ==
  ASSUME experiments \in Seq(Config), NEW cfg \in Config, NEW c,
         Known(c), experiments' = Append(experiments, cfg)
  PROVE  Known(c)'
<1>1. PICK e \in Nat : e = Len(experiments)
  BY LenProperties
<1>2. PICK i \in 1..e : Hash(experiments[i]) = Hash(c)
  BY <1>1 DEF Known
<1>3. Len(experiments') = e + 1 /\ experiments'[i] = experiments[i]
  BY <1>1, AppendProperties
<1>4. i \in 1..(e + 1)
  BY <1>1
<1>5. QED
  BY <1>2, <1>3, <1>4 DEF Known

LEMMA SubmissionStep == SubmissionInv /\ [Next]_vars => SubmissionInv'
<1> SUFFICES ASSUME SubmissionInv, [Next]_vars PROVE SubmissionInv'
  OBVIOUS
<1>1. RequestsWellFormed'
  BY DEF SubmissionInv, RequestsWellFormed, Next, LookUp, Validate, Create, vars
<1>2. ASSUME NEW c \in Client, LookUp(c) PROVE SubmissionInv'
  <2>1. UNCHANGED <<config, experiments, data, jobs>>
    BY <1>2 DEF LookUp
  <2>2. ExistingIsKnown'
    <3>1. ASSUME NEW d \in Client, request'[d] = "existing" PROVE Known(config[d])
      <4>1. CASE d = c
        BY <1>2, <3>1, <4>1 DEF LookUp, SubmissionInv, RequestsWellFormed
      <4>2. CASE d # c
        BY <1>2, <3>1, <4>2 DEF LookUp, SubmissionInv, RequestsWellFormed, ExistingIsKnown
      <4>3. QED
        BY <4>1, <4>2
    <3>2. QED
      BY <2>1, <3>1, RequestKeepsRows DEF ExistingIsKnown
  <2>3. QED
    BY <2>1, <2>2, RequestKeepsRows, <1>1 DEF SubmissionInv
<1>3. ASSUME NEW c \in Client, Validate(c) PROVE SubmissionInv'
  <2>1. UNCHANGED <<config, experiments, data, jobs>>
    BY <1>3 DEF Validate
  <2>2. \A d \in Client : request'[d] = "existing" => request[d] = "existing"
    BY <1>3 DEF Validate, SubmissionInv, RequestsWellFormed
  <2>3. ExistingIsKnown'
    BY <2>1, <2>2, RequestKeepsRows DEF ExistingIsKnown, SubmissionInv
  <2>4. QED
    BY <2>1, <2>3, RequestKeepsRows, <1>1 DEF SubmissionInv
<1>4. ASSUME NEW c \in Client, Create(c) PROVE SubmissionInv'
  <2>1. config' = config
    BY <1>4 DEF Create
  <2>2. \A d \in Client : request'[d] = "existing" => request[d] = "existing"
    BY <1>4 DEF Create, SubmissionInv, RequestsWellFormed
  <2>3. CASE Known(config[c])
    <3>1. UNCHANGED <<config, experiments, data, jobs>>
      BY <1>4, <2>1, <2>3 DEF Create
    <3>2. ExistingIsKnown'
      BY <2>2, <3>1, RequestKeepsRows DEF ExistingIsKnown, SubmissionInv
    <3>3. QED
      BY <3>1, <3>2, RequestKeepsRows, <1>1 DEF SubmissionInv
  <2>4. CASE ~Known(config[c])
    <3>1. RowsWellFormed
      BY DEF SubmissionInv
    <3>2. PICK list, rows, new : IsInsert(config[c], list, rows, new)
      BY <1>4, <2>4, <3>1, CreateInserts
    <3>3. (RowsWellFormed /\ RowsRefer /\ RowsFollow /\ DataIsShared)'
      BY <2>1, <3>2, InsertKeepsInv
    <3>4. \A d \in Client : Known(config[d]) => Known(config[d])'
      BY <2>1, <3>1, <3>2, KnownStaysKnown DEF IsInsert, RowsWellFormed
    <3>5. ExistingIsKnown'
      BY <2>2, <3>4 DEF ExistingIsKnown, SubmissionInv
    <3>6. QED
      BY <1>1, <3>3, <3>5 DEF SubmissionInv
  <2>5. QED
    BY <2>3, <2>4
<1>5. CASE UNCHANGED vars
  <2>1. UNCHANGED <<config, experiments, data, jobs>> /\ request' = request
    BY <1>5 DEF vars
  <2>2. ExistingIsKnown'
    BY <2>1, RequestKeepsRows DEF ExistingIsKnown, SubmissionInv
  <2>3. QED
    BY <2>1, <2>2, RequestKeepsRows, <1>1 DEF SubmissionInv
<1>6. QED
  BY <1>2, <1>3, <1>4, <1>5 DEF Next

(* The rows are well formed and refer to each other, the decoding rows of  *)
(* an experiment are a block that lists its jobs, data rows are shared,    *)
(* and who was answered "existing" has a row: create_experiment_and_jobs   *)
(* keeps all of it, whatever other requests do between its check and its   *)
(* transaction.                                                            *)
THEOREM SubmissionInvariant == Spec => []SubmissionInv
<1>1. QED
  BY SubmissionInit, SubmissionStep, PTL DEF Spec

(* Data is generated once for each spec, whatever the configs are, however *)
(* many jobs and experiments share it and however many requests overlap:   *)
(* create_experiment_and_jobs looks every spec up among the rows it sees   *)
(* and among those it has just added.                                      *)
THEOREM DataShared == Spec => []DataIsShared
<1>1. SubmissionInv => DataIsShared
  BY DEF SubmissionInv
<1>2. QED
  BY <1>1, SubmissionInvariant, PTL

-----------------------------------------------------------------------------
(* What the loops of _expand_params compute                                *)

KeysTo(s, k) == {s[i].key : i \in 1..k}
AreDistinctKeys(s) == \A i, j \in 1..Len(s) : s[i].key = s[j].key => i = j

(* Axes and formulas share out the entries, and keep their order.          *)
LEMMA PlacesOfAxes ==
  ASSUME NEW params \in Params
  PROVE  \E f : ArePlaces(f, Axes(params), params)
<1>1. params \in Seq(Entry)
  BY DEF Params
<1>2. QED
  BY <1>1, KeepPlaces, Zenon DEF Axes, ArePlaces

LEMMA PlacesOfFormulas ==
  ASSUME NEW params \in Params
  PROVE  \E f : ArePlaces(f, Formulas(params), params)
<1>1. params \in Seq(Entry)
  BY DEF Params
<1>2. QED
  BY <1>1, KeepPlaces, Zenon DEF Formulas, ArePlaces

LEMMA PlacesKeepKeys ==
  ASSUME NEW params \in Params, NEW s \in Seq(Entry), NEW f, ArePlaces(f, s, params)
  PROVE  AreDistinctKeys(s)
<1>1. PICK n \in Nat : n = Len(s)
  BY LenProperties
<1>2. ASSUME NEW i \in 1..n, NEW j \in 1..n, s[i].key = s[j].key PROVE i = j
  <2>1. f[i] = f[j]
    BY <1>1, <1>2 DEF ArePlaces, Params
  <2>2. f[i] \in Int /\ f[j] \in Int
    BY <1>1 DEF ArePlaces
  <2>3. ~(i < j) /\ ~(j < i)
    BY <1>1, <2>1, <2>2 DEF ArePlaces
  <2>4. QED
    BY <2>3
<1>3. QED
  BY <1>1, <1>2 DEF AreDistinctKeys

(* Size, one axis at a time.                                               *)
IsSizeRun(p, axes) ==
  /\ p \in [0..Len(axes) -> Nat]
  /\ p[0] = 1
  /\ \A k \in 1..Len(axes) : p[k] = p[k - 1] * Len(axes[k].items)
  /\ Size(axes) = p[Len(axes)]

LEMMA SizeSteps ==
  ASSUME NEW axes \in Seq(Entry)
  PROVE  \E p : IsSizeRun(p, axes)
<1>1. PICK n \in Nat : n = Len(axes) /\ DOMAIN axes = 1..n /\ \A k \in 1..n : axes[k] \in Entry
  BY LenProperties, ElementOfSeq
<1> DEFINE Solves(it) == it = [d \in SUBSET (DOMAIN axes) |->
             IF d = {} THEN 1
             ELSE it[d \ {Max(d)}] * Len(axes[Max(d)].items)]
           G == [e \in (1..n) \X Nat |-> e[2] * Len(axes[e[1]].items)]
<1>2. G \in [(1..n) \X Nat -> Nat]
  BY <1>1, EntryIs
<1>3. PICK h \in [SUBSET (1..n) -> Nat] : IsFoldTable(h, n, 1, G)
  <2>1. 1 \in Nat
    OBVIOUS
  <2> HIDE DEF G
  <2>2. QED
    BY <1>2, <2>1, FoldTable, Zenon
<1>4. ASSUME NEW d \in SUBSET (1..n), d # {}
      PROVE  Max(d) \in 1..n /\ d \ {Max(d)} \in SUBSET (1..n)
  BY <1>4, MaxOf
<1>5. Solves(h)
  <2>1. ASSUME NEW d \in SUBSET (1..n)
        PROVE  h[d] = IF d = {} THEN 1
                      ELSE h[d \ {Max(d)}] * Len(axes[Max(d)].items)
    <3>1. CASE d = {}
      BY <1>3, <3>1, Zenon DEF IsFoldTable
    <3>2. CASE d # {}
      <4>1. PICK m \in 1..n : m = Max(d) /\ d \ {m} \in SUBSET (1..n)
        BY <1>4, <3>2, Zenon
      <4>2. PICK v \in Nat : v = h[d \ {m}]
        BY <1>3, <4>1, Zenon
      <4>3. h[d] = G[<<m, v>>]
        BY <1>3, <3>2, <4>1, <4>2, Zenon DEF IsFoldTable
      <4>4. h[d] = v * Len(axes[m].items)
        BY <4>3
      <4>5. QED
        BY <3>2, <4>1, <4>2, <4>4, Zenon
    <3>3. QED
      BY <3>1, <3>2
  <2>2. QED
    BY <1>1, <1>3, <2>1, Zenon
<1>6. PICK it : Solves(it) /\ Size(axes) = it[DOMAIN axes]
  <2>1. Solves(CHOOSE it : Solves(it))
    <3> HIDE DEF Solves
    <3>1. QED
      BY <1>5, Zenon
  <2>2. QED
    BY <2>1, Zenon DEF Size, FoldLeft, MapThenFoldSet
<1> DEFINE p == [k \in 0..n |-> it[1..k]]
<1>7. p[0] = 1
  <2>1. {} \in SUBSET (1..n) /\ 1..0 = {} /\ 0 \in 0..n
    OBVIOUS
  <2>2. it[{}] = 1
    BY <1>1, <1>6, <2>1, Zenon
  <2>3. QED
    BY <2>1, <2>2, Zenon
<1>8. ASSUME NEW k \in 1..n PROVE p[k] = p[k - 1] * Len(axes[k].items)
  <2>1. /\ 1..k # {} /\ 1..k \in SUBSET (1..n) /\ Max(1..k) = k
        /\ (1..k) \ {k} = 1..(k - 1)
    BY LastPlace
  <2>2. it[1..k] = it[1..(k - 1)] * Len(axes[k].items)
    BY <1>1, <1>6, <2>1, Zenon
  <2>3. k \in 0..n /\ k - 1 \in 0..n
    OBVIOUS
  <2>4. QED
    BY <2>2, <2>3, Zenon
<1> HIDE DEF p
<1>9. \A k \in 0..n : p[k] \in Nat
  <2> DEFINE T == {m \in 0..n : p[m] \in Nat}
  <2>1. 0 \in T
    <3>1. 0 \in 0..n /\ 1 \in Nat
      OBVIOUS
    <3>2. QED
      BY <1>7, <3>1, Zenon
  <2>2. ASSUME NEW k \in 1..n, k - 1 \in T PROVE k \in T
    <3>1. k \in 0..n
      OBVIOUS
    <3>2. p[k - 1] \in Nat /\ axes[k] \in Entry
      BY <1>1, <2>2, Zenon
    <3>3. p[k - 1] * Len(axes[k].items) \in Nat
      BY <3>2, EntryIs
    <3>4. QED
      BY <1>8, <3>1, <3>3, Zenon
  <2> HIDE DEF T
  <2>3. \A k \in 0..n : k \in T
    BY <2>1, <2>2, InductionTo
  <2>4. QED
    BY <2>3 DEF T
<1>10. p \in [0..n -> Nat]
  BY <1>9 DEF p
<1>11. Size(axes) = p[n]
  BY <1>1, <1>6 DEF p
<1>12. QED
  BY <1>1, <1>7, <1>8, <1>10, <1>11, Zenon DEF IsSizeRun


(* The number of points is the product of the numbers of values.           *)
LEMMA ProductLength ==
  ASSUME NEW axes \in Seq(Entry)
  PROVE  Len(ProductOf(axes)) = Size(axes)
<1>1. PICK n \in Nat : n = Len(axes) /\ \A k \in 1..n : axes[k] \in Entry
  BY LenProperties, ElementOfSeq
<1>2. PICK p : IsProductRun(p, axes)
  BY ProductSteps
<1>3. PICK q : IsSizeRun(q, axes)
  BY SizeSteps
<1> DEFINE T == {k \in 0..n : Len(p[k]) = q[k]}
<1>4. 0 \in T
  <2>1. p[0] = <<EmptyPoint>> /\ q[0] = 1
    BY <1>2, <1>3, Zenon DEF IsProductRun, IsSizeRun
  <2>2. Len(p[0]) = 1
    BY <2>1, FirstProduct, Zenon
  <2>3. 0 \in 0..n
    OBVIOUS
  <2>4. QED
    BY <2>1, <2>2, <2>3, Zenon
<1>5. ASSUME NEW k \in 1..n, k - 1 \in T PROVE k \in T
  <2>1. k \in 0..n /\ k - 1 \in 0..n
    OBVIOUS
  <2>2. p[k - 1] \in Seq(Point) /\ Len(p[k - 1]) = q[k - 1]
    BY <1>1, <1>2, <1>5, <2>1 DEF IsProductRun
  <2>3. Len(AddAxis(p[k - 1], axes[k])) = q[k - 1] * Len(axes[k].items)
    BY <1>1, <2>2, AddAxisIs
  <2>4. p[k] = AddAxis(p[k - 1], axes[k]) /\ q[k] = q[k - 1] * Len(axes[k].items)
    BY <1>1, <1>2, <1>3, Zenon DEF IsProductRun, IsSizeRun
  <2>5. QED
    BY <2>1, <2>3, <2>4, Zenon
<1> HIDE DEF T
<1>6. \A k \in 0..n : k \in T
  BY <1>4, <1>5, InductionTo
<1>7. n \in 0..n
  OBVIOUS
<1>8. Len(p[n]) = q[n]
  BY <1>6, <1>7 DEF T
<1>9. QED
  BY <1>1, <1>2, <1>3, <1>8, Zenon DEF IsProductRun, IsSizeRun

(* The points that have one value of each of the first n axes.             *)
Box(axes, n) ==
  {p \in [KeysTo(axes, n) -> Atom] : \A i \in 1..n : p[axes[i].key] \in ToSet(axes[i].items)}

LEMMA BoxStep ==
  ASSUME NEW axes \in Seq(Entry), AreDistinctKeys(axes), NEW k \in 1..Len(axes), NEW x
  PROVE  x \in Box(axes, k) <=> Extends(x, Box(axes, k - 1), axes[k])
<1>1. PICK n \in Nat : n = Len(axes) /\ k \in 1..n /\ \A i \in 1..n : axes[i] \in Entry
  BY LenProperties, ElementOfSeq
<1> DEFINE e == axes[k]
<1>2. KeysTo(axes, k) = KeysTo(axes, k - 1) \cup {e.key} /\ e.key \notin KeysTo(axes, k - 1)
  <2>1. KeysTo(axes, k) = KeysTo(axes, k - 1) \cup {e.key}
    <3>1. 1..k = 1..(k - 1) \cup {k}
      BY <1>1
    <3>2. QED
      BY <3>1, Zenon DEF KeysTo
  <2>2. ASSUME NEW i \in 1..(k - 1), axes[i].key = e.key PROVE FALSE
    <3>1. i \in 1..n /\ i # k
      BY <1>1
    <3>2. QED
      BY <1>1, <2>2, <3>1, Zenon DEF AreDistinctKeys
  <2>3. QED
    BY <2>1, <2>2, Zenon DEF KeysTo
<1>3. ToSet(e.items) \subseteq Atom
  <2>1. e.items \in Seq(Atom)
    BY <1>1, EntryIs
  <2>2. QED
    BY <2>1, LenProperties, ElementOfSeq DEF ToSet
<1>4. ASSUME NEW p \in Box(axes, k - 1), NEW v \in ToSet(e.items), x = Put(p, e.key, v)
      PROVE  x \in Box(axes, k)
  <2>1. p \in [KeysTo(axes, k - 1) -> Atom] /\ v \in Atom
    BY <1>3 DEF Box
  <2>2. x = [y \in KeysTo(axes, k) |-> IF y = e.key THEN v ELSE p[y]]
    BY <1>2, <1>4, <2>1 DEF Put
  <2>3. x \in [KeysTo(axes, k) -> Atom]
    BY <1>2, <2>1, <2>2
  <2>4. ASSUME NEW i \in 1..k PROVE x[axes[i].key] \in ToSet(axes[i].items)
    <3>1. CASE i = k
      BY <1>2, <1>4, <2>2, <3>1
    <3>2. CASE i # k
      <4>1. i \in 1..(k - 1)
        BY <1>1, <3>2
      <4>2. axes[i].key \in KeysTo(axes, k - 1) /\ p[axes[i].key] \in ToSet(axes[i].items)
        BY <4>1 DEF Box, KeysTo
      <4>3. x[axes[i].key] = p[axes[i].key]
        BY <1>2, <2>2, <4>2
      <4>4. QED
        BY <4>2, <4>3, Zenon
    <3>3. QED
      BY <3>1, <3>2
  <2>5. QED
    BY <2>3, <2>4 DEF Box
<1>5. ASSUME x \in Box(axes, k)
      PROVE  \E p \in Box(axes, k - 1), v \in ToSet(e.items) : x = Put(p, e.key, v)
  <2> DEFINE p == [y \in KeysTo(axes, k - 1) |-> x[y]]
  <2>1. /\ x \in [KeysTo(axes, k) -> Atom]
        /\ \A i \in 1..k : x[axes[i].key] \in ToSet(axes[i].items)
    BY <1>5 DEF Box
  <2>2. p \in [KeysTo(axes, k - 1) -> Atom]
    BY <1>2, <2>1
  <2>3. ASSUME NEW i \in 1..(k - 1) PROVE p[axes[i].key] \in ToSet(axes[i].items)
    <3>1. axes[i].key \in KeysTo(axes, k - 1) /\ i \in 1..k
      BY <1>1 DEF KeysTo
    <3>2. QED
      BY <2>1, <3>1
  <2>4. p \in Box(axes, k - 1)
    <3> HIDE DEF p
    <3>1. QED
      BY <2>2, <2>3 DEF Box
  <2>5. k \in 1..k
    BY <1>1
  <2>6. x[e.key] \in ToSet(e.items)
    BY <2>1, <2>5, Zenon
  <2>7. x = Put(p, e.key, x[e.key])
    <3>1. DOMAIN p = KeysTo(axes, k - 1) /\ \A y \in KeysTo(axes, k - 1) : p[y] = x[y]
      OBVIOUS
    <3> HIDE DEF p
    <3>2. Put(p, e.key, x[e.key]) = [y \in KeysTo(axes, k) |-> x[y]]
      BY <1>2, <3>1 DEF Put
    <3>3. QED
      BY <2>1, <3>2
  <2> HIDE DEF p
  <2>8. QED
    BY <2>4, <2>6, <2>7, Zenon
<1>6. QED
  BY <1>4, <1>5, Zenon DEF Extends

(* itertools.product leaves no combination out and makes none up.          *)
LEMMA ProductIsBox ==
  ASSUME NEW axes \in Seq(Entry), AreDistinctKeys(axes)
  PROVE  ToSet(ProductOf(axes)) = Box(axes, Len(axes))
<1>1. PICK n \in Nat : n = Len(axes) /\ \A k \in 1..n : axes[k] \in Entry
  BY LenProperties, ElementOfSeq
<1>2. PICK p : IsProductRun(p, axes)
  BY ProductSteps
<1> DEFINE T == {k \in 0..n : ToSet(p[k]) = Box(axes, k)}
<1>3. 0 \in T
  <2>1. KeysTo(axes, 0) = {} /\ EmptyPoint \in [{} -> Atom]
    BY EmptyPointIs DEF KeysTo, Point
  <2>2. \A f \in [{} -> Atom] : f = EmptyPoint
    BY <2>1
  <2>3. Box(axes, 0) = {EmptyPoint}
    <3>1. 1..0 = {}
      OBVIOUS
    <3>2. Box(axes, 0) = [{} -> Atom]
      BY <2>1, <3>1, Zenon DEF Box
    <3>3. QED
      BY <2>1, <2>2, <3>2
  <2>4. ToSet(<<EmptyPoint>>) = {EmptyPoint}
    <3>1. <<EmptyPoint>> = [i \in 1..1 |-> EmptyPoint] /\ 1..1 = {1}
      OBVIOUS
    <3>2. DOMAIN <<EmptyPoint>> = {1} /\ <<EmptyPoint>>[1] = EmptyPoint
      OBVIOUS
    <3>3. QED
      BY <3>2, Zenon DEF ToSet
  <2>5. p[0] = <<EmptyPoint>> /\ 0 \in 0..n
    BY <1>2 DEF IsProductRun
  <2>6. QED
    BY <2>3, <2>4, <2>5, Zenon
<1>4. ASSUME NEW k \in 1..n, k - 1 \in T PROVE k \in T
  <2>1. k \in 0..n /\ k - 1 \in 0..n
    OBVIOUS
  <2>2. p[k - 1] \in Seq(Point) /\ ToSet(p[k - 1]) = Box(axes, k - 1)
    BY <1>1, <1>2, <1>4, <2>1 DEF IsProductRun
  <2>3. p[k] = AddAxis(p[k - 1], axes[k])
    BY <1>1, <1>2, Zenon DEF IsProductRun
  <2>4. axes[k] \in Entry /\ k \in 1..Len(axes)
    BY <1>1
  <2>5. ASSUME NEW x PROVE x \in ToSet(p[k]) <=> x \in Box(axes, k)
    <3>1. x \in ToSet(AddAxis(p[k - 1], axes[k])) <=> Extends(x, ToSet(p[k - 1]), axes[k])
      BY <2>2, <2>4, AddAxisSet
    <3>2. x \in Box(axes, k) <=> Extends(x, Box(axes, k - 1), axes[k])
      BY <2>4, BoxStep
    <3>3. QED
      BY <2>2, <2>3, <3>1, <3>2, Zenon
  <2>6. QED
    BY <2>1, <2>5
<1> HIDE DEF T
<1>5. \A k \in 0..n : k \in T
  BY <1>3, <1>4, InductionTo
<1>6. n \in 0..n
  OBVIOUS
<1>7. ToSet(p[n]) = Box(axes, n)
  BY <1>5, <1>6 DEF T
<1>8. QED
  BY <1>1, <1>2, <1>7, Zenon DEF IsProductRun


(* The point w, after k formulas, extends the axes' values g: each formula *)
(* has the value of the key it names, when that key was there, or itself.  *)
Named(g, fs, k) == DOMAIN g \cup KeysTo(fs, k)

IsResolved(w, g, fs, k) ==
  /\ w \in [Named(g, fs, k) -> Atom]
  /\ \A y \in DOMAIN g : w[y] = g[y]
  /\ \A j \in 1..k :
       w[fs[j].key] = IF fs[j].items[1] \in Named(g, fs, j - 1)
                      THEN w[fs[j].items[1]] ELSE fs[j].items[1]

AreFormulasOver(fs, g) ==
  /\ fs \in Seq(Formula) /\ g \in Point
  /\ AreDistinctKeys(fs)
  /\ \A i \in 1..Len(fs) : fs[i].key \notin DOMAIN g

LEMMA FormulaIs ==
  ASSUME NEW e \in Formula
  PROVE  /\ e \in Entry /\ e.kind = "str" /\ e.key \in Text
         /\ e.items[1] \in Text /\ e.items[1] \in Atom /\ e.items = <<e.items[1]>>
<1>1. e \in Entry /\ e.kind = "str"
  BY DEF Formula, IsFormula
<1>2. QED
  BY <1>1, EntryIs DEF Atom

LEMMA NamedGrows ==
  ASSUME NEW fs, NEW g, NEW n \in Nat, NEW k \in 1..n
  PROVE  /\ Named(g, fs, k) = Named(g, fs, k - 1) \cup {fs[k].key}
         /\ \A j \in 1..k : Named(g, fs, j - 1) \subseteq Named(g, fs, k - 1)
         /\ \A j \in 1..(k - 1) : fs[j].key \in Named(g, fs, k - 1)
<1>1. 1..k = 1..(k - 1) \cup {k} /\ \A j \in 1..k : 1..(j - 1) \subseteq 1..(k - 1)
  OBVIOUS
<1>2. KeysTo(fs, k) = KeysTo(fs, k - 1) \cup {fs[k].key}
  BY <1>1, Zenon DEF KeysTo
<1>3. \A j \in 1..k : KeysTo(fs, j - 1) \subseteq KeysTo(fs, k - 1)
  BY <1>1, Zenon DEF KeysTo
<1>4. \A j \in 1..(k - 1) : fs[j].key \in KeysTo(fs, k - 1)
  BY Zenon DEF KeysTo
<1>5. QED
  BY <1>2, <1>3, <1>4, Zenon DEF Named

LEMMA ResolvedStep ==
  ASSUME NEW fs, NEW g, AreFormulasOver(fs, g), NEW k \in 1..Len(fs),
         NEW w, IsResolved(w, g, fs, k - 1)
  PROVE  IsResolved(Resolve(w, fs[k]), g, fs, k)
<1>1. PICK n \in Nat : n = Len(fs) /\ k \in 1..n /\ \A i \in 1..n : fs[i] \in Formula
  BY LenProperties, ElementOfSeq DEF AreFormulasOver
<1> DEFINE e == fs[k]
           new == IF e.items[1] \in DOMAIN w THEN w[e.items[1]] ELSE e.items[1]
           r == Put(w, e.key, new)
<1>2. /\ Named(g, fs, k) = Named(g, fs, k - 1) \cup {e.key}
      /\ \A j \in 1..k : Named(g, fs, j - 1) \subseteq Named(g, fs, k - 1)
      /\ \A j \in 1..(k - 1) : fs[j].key \in Named(g, fs, k - 1)
  BY <1>1, NamedGrows
<1>3. w \in [Named(g, fs, k - 1) -> Atom] /\ DOMAIN w = Named(g, fs, k - 1)
  BY DEF IsResolved
<1>4. e.key \notin Named(g, fs, k - 1)
  <2>1. e.key \notin DOMAIN g
    BY DEF AreFormulasOver
  <2>2. ASSUME NEW i \in 1..(k - 1), fs[i].key = e.key PROVE FALSE
    <3>1. i \in 1..n /\ i # k
      BY <1>1
    <3>2. QED
      BY <1>1, <2>2, <3>1 DEF AreFormulasOver, AreDistinctKeys
  <2>3. QED
    BY <2>1, <2>2, Zenon DEF Named, KeysTo
<1>5. e.items[1] \in Atom
  BY <1>1, FormulaIs
<1>6. new \in Atom
  BY <1>3, <1>5
<1> HIDE DEF new
<1>7. /\ r \in [Named(g, fs, k) -> Atom]
      /\ r[e.key] = new
      /\ \A y \in Named(g, fs, k - 1) : r[y] = w[y]
  <2>1. r = [y \in Named(g, fs, k) |-> IF y = e.key THEN new ELSE w[y]]
    BY <1>2, <1>3 DEF Put
  <2>2. e.key \in Named(g, fs, k) /\ Named(g, fs, k - 1) \subseteq Named(g, fs, k)
    BY <1>2
  <2> HIDE DEF r
  <2>3. r \in [Named(g, fs, k) -> Atom]
    BY <1>2, <1>3, <1>6, <2>1
  <2>4. QED
    BY <1>4, <2>1, <2>2, <2>3
<1>8. Resolve(w, e) = r
  BY DEF Resolve, new
<1> HIDE DEF r
<1>9. \A y \in DOMAIN g : r[y] = g[y]
  BY <1>7 DEF IsResolved, Named
<1>10. ASSUME NEW j \in 1..k
       PROVE  r[fs[j].key] = IF fs[j].items[1] \in Named(g, fs, j - 1)
                             THEN r[fs[j].items[1]] ELSE fs[j].items[1]
  <2>1. fs[j].items[1] \in Named(g, fs, j - 1) => r[fs[j].items[1]] = w[fs[j].items[1]]
    BY <1>2, <1>7
  <2>2. CASE j = k
    <3>1. r[e.key] = IF e.items[1] \in Named(g, fs, k - 1) THEN w[e.items[1]] ELSE e.items[1]
      BY <1>3, <1>7 DEF new
    <3>2. QED
      BY <2>1, <2>2, <3>1
  <2>3. CASE j # k
    <3>1. j \in 1..(k - 1)
      BY <1>1, <2>3
    <3>2. w[fs[j].key] = IF fs[j].items[1] \in Named(g, fs, j - 1)
                         THEN w[fs[j].items[1]] ELSE fs[j].items[1]
      BY <3>1 DEF IsResolved
    <3>3. r[fs[j].key] = w[fs[j].key]
      BY <1>2, <1>7, <3>1
    <3>4. QED
      BY <2>1, <3>2, <3>3
  <2>4. QED
    BY <2>2, <2>3
<1>11. IsResolved(r, g, fs, k)
  BY <1>7, <1>9, <1>10 DEF IsResolved
<1>12. QED
  BY <1>8, <1>11, Zenon

(* The loop over the formulas resolves them all.                           *)
LEMMA FormulasResolved ==
  ASSUME NEW fs, NEW g, AreFormulasOver(fs, g)
  PROVE  IsResolved(WithFormulas(g, fs), g, fs, Len(fs))
<1>1. PICK n \in Nat : n = Len(fs)
  BY LenProperties DEF AreFormulasOver
<1>2. PICK p : IsFormulaRun(p, g, fs)
  BY FormulaSteps DEF AreFormulasOver
<1> DEFINE T == {k \in 0..n : IsResolved(p[k], g, fs, k)}
<1>3. 0 \in T
  <2>1. 1..0 = {} /\ 0 \in 0..n
    OBVIOUS
  <2>2. Named(g, fs, 0) = DOMAIN g
    BY <2>1, Zenon DEF Named, KeysTo
  <2>3. g \in [DOMAIN g -> Atom]
    BY DEF AreFormulasOver, Point
  <2>4. IsResolved(g, g, fs, 0)
    BY <2>1, <2>2, <2>3, Zenon DEF IsResolved
  <2>5. QED
    BY <1>2, <2>1, <2>4, Zenon DEF IsFormulaRun
<1>4. ASSUME NEW k \in 1..n, k - 1 \in T PROVE k \in T
  <2>1. k \in 0..n /\ k \in 1..Len(fs)
    BY <1>1
  <2>2. IsResolved(p[k - 1], g, fs, k - 1)
    BY <1>4
  <2>3. p[k] = Resolve(p[k - 1], fs[k])
    BY <1>1, <1>2, Zenon DEF IsFormulaRun
  <2>4. IsResolved(Resolve(p[k - 1], fs[k]), g, fs, k)
    BY <2>1, <2>2, ResolvedStep
  <2>5. QED
    BY <2>1, <2>3, <2>4, Zenon
<1> HIDE DEF T
<1>5. \A k \in 0..n : k \in T
  BY <1>3, <1>4, InductionTo
<1>6. n \in 0..n
  OBVIOUS
<1>7. IsResolved(p[n], g, fs, n)
  BY <1>5, <1>6 DEF T
<1>8. QED
  BY <1>1, <1>2, <1>7, Zenon DEF IsFormulaRun

(* There is one way to resolve them.                                       *)
LEMMA ResolvedOnce ==
  ASSUME NEW fs, NEW g, NEW n \in Nat, NEW v, NEW w,
         IsResolved(v, g, fs, n), IsResolved(w, g, fs, n)
  PROVE  v = w
<1> DEFINE T == {k \in 0..n : \A y \in Named(g, fs, k) : v[y] = w[y]}
<1>1. 0 \in T
  <2>1. 1..0 = {} /\ 0 \in 0..n
    OBVIOUS
  <2>2. Named(g, fs, 0) = DOMAIN g
    BY <2>1, Zenon DEF Named, KeysTo
  <2>3. QED
    BY <2>1, <2>2 DEF IsResolved
<1>2. ASSUME NEW k \in 1..n, k - 1 \in T PROVE k \in T
  <2>1. \A y \in Named(g, fs, k - 1) : v[y] = w[y]
    BY <1>2
  <2>2. /\ v[fs[k].key] = IF fs[k].items[1] \in Named(g, fs, k - 1)
                          THEN v[fs[k].items[1]] ELSE fs[k].items[1]
        /\ w[fs[k].key] = IF fs[k].items[1] \in Named(g, fs, k - 1)
                          THEN w[fs[k].items[1]] ELSE fs[k].items[1]
    BY DEF IsResolved
  <2>3. v[fs[k].key] = w[fs[k].key]
    BY <2>1, <2>2
  <2>4. Named(g, fs, k) = Named(g, fs, k - 1) \cup {fs[k].key}
    BY NamedGrows
  <2>5. k \in 0..n
    OBVIOUS
  <2>6. QED
    BY <2>1, <2>3, <2>4, <2>5
<1> HIDE DEF T
<1>3. \A k \in 0..n : k \in T
  BY <1>1, <1>2, InductionTo
<1>4. n \in 0..n
  OBVIOUS
<1>5. \A y \in Named(g, fs, n) : v[y] = w[y]
  BY <1>3, <1>4 DEF T
<1>6. QED
  BY <1>5 DEF IsResolved


(* How the entries of params divide into axes and formulas.                *)
AreSplit(params, axes, fs) ==
  /\ axes \in Seq(Entry) /\ AreDistinctKeys(axes)
  /\ fs \in Seq(Formula) /\ AreDistinctKeys(fs)
  /\ axes = Axes(params) /\ fs = Formulas(params)
  /\ AxisKeys(params) = KeysTo(axes, Len(axes))
  /\ Keys(params) = KeysTo(axes, Len(axes)) \cup KeysTo(fs, Len(fs))
  /\ \A i \in 1..Len(fs) : fs[i].key \notin KeysTo(axes, Len(axes))

LEMMA ParamsSplit ==
  ASSUME NEW params \in Params
  PROVE  AreSplit(params, Axes(params), Formulas(params))
<1>1. PICK l \in Nat : /\ l = Len(params) /\ params \in Seq(Entry) /\ DOMAIN params = 1..l
                       /\ \A i \in 1..l : params[i] \in Entry
  BY LenProperties, ElementOfSeq DEF Params
<1>2. PICK axes \in Seq(Entry) :
        axes = Axes(params) /\ ToSet(axes) = {e \in ToSet(params) : IsAxis(e)}
  BY AxesAre
<1>3. PICK fs \in Seq(Formula) :
        fs = Formulas(params) /\ ToSet(fs) = {e \in ToSet(params) : IsFormula(e)}
  BY FormulasAre
<1>4. fs \in Seq(Entry)
  <2>1. Formula \subseteq Entry
    BY DEF Formula
  <2>2. QED
    BY <2>1, SeqMonotonic
<1>5. AreDistinctKeys(axes) /\ AreDistinctKeys(fs)
  BY <1>2, <1>3, <1>4, PlacesOfAxes, PlacesOfFormulas, PlacesKeepKeys
<1>6. ToSet(params) = {params[i] : i \in 1..l}
  BY <1>1 DEF ToSet
<1>7. ToSet(axes) = {axes[i] : i \in 1..Len(axes)} /\ ToSet(fs) = {fs[i] : i \in 1..Len(fs)}
  BY LenProperties DEF ToSet
<1>8. AxisKeys(params) = KeysTo(axes, Len(axes))
  BY <1>2, <1>7 DEF AxisKeys, KeysTo
<1>9. ASSUME NEW y
      PROVE  y \in Keys(params) <=> y \in KeysTo(axes, Len(axes)) \cup KeysTo(fs, Len(fs))
  <2>1. y \in Keys(params) <=> \E e \in ToSet(params) : e.key = y
    BY <1>1, <1>6 DEF Keys
  <2>2. y \in KeysTo(axes, Len(axes)) <=> \E e \in ToSet(axes) : e.key = y
    BY <1>7 DEF KeysTo
  <2>3. y \in KeysTo(fs, Len(fs)) <=> \E e \in ToSet(fs) : e.key = y
    BY <1>7 DEF KeysTo
  <2>4. QED
    BY <1>2, <1>3, <2>1, <2>2, <2>3 DEF IsAxis
<1>10. ASSUME NEW i \in 1..Len(fs), NEW j \in 1..Len(axes), fs[i].key = axes[j].key
       PROVE  FALSE
  <2>1. /\ fs[i] \in ToSet(params) /\ IsFormula(fs[i])
        /\ axes[j] \in ToSet(params) /\ IsAxis(axes[j])
    BY <1>2, <1>3, <1>7
  <2>2. PICK a \in 1..l, b \in 1..l : fs[i] = params[a] /\ axes[j] = params[b]
    BY <1>6, <2>1
  <2>3. a = b
    BY <1>1, <1>10, <2>2 DEF Params
  <2>4. QED
    BY <2>1, <2>2, <2>3 DEF IsAxis
<1>11. \A i \in 1..Len(fs) : fs[i].key \notin KeysTo(axes, Len(axes))
  BY <1>10 DEF KeysTo
<1>12. Keys(params) = KeysTo(axes, Len(axes)) \cup KeysTo(fs, Len(fs))
  BY <1>9
<1>13. QED
  BY <1>2, <1>3, <1>5, <1>8, <1>11, <1>12, Zenon DEF AreSplit

(* A formula sees all axes and the formulas before it.                     *)
SeenAt(params, fs, j, q) ==
  /\ q \in 1..Len(params) /\ params[q] = fs[j]
  /\ Visible(params, q) = AxisKeys(params) \cup KeysTo(fs, j - 1)

LEMMA FormulaSees ==
  ASSUME NEW params \in Params, NEW j \in 1..Len(Formulas(params))
  PROVE  \E q : SeenAt(params, Formulas(params), j, q)
<1>1. PICK l \in Nat : /\ l = Len(params) /\ params \in Seq(Entry) /\ DOMAIN params = 1..l
                       /\ \A i \in 1..l : params[i] \in Entry
  BY LenProperties, ElementOfSeq DEF Params
<1>2. PICK fs \in Seq(Formula) :
        fs = Formulas(params) /\ ToSet(fs) = {e \in ToSet(params) : IsFormula(e)}
  BY FormulasAre
<1>3. PICK m \in Nat : m = Len(fs) /\ DOMAIN fs = 1..m
  BY LenProperties
<1>4. PICK f : ArePlaces(f, fs, params)
  BY <1>2, PlacesOfFormulas
<1>5. /\ f \in [1..m -> 1..l]
      /\ \A i \in 1..m : fs[i] = params[f[i]]
      /\ \A h, i \in 1..m : h < i => f[h] < f[i]
  BY <1>1, <1>3, <1>4 DEF ArePlaces
<1>6. j \in 1..m
  BY <1>2, <1>3
<1>7. PICK q \in 1..l : q = f[j]
  BY <1>5, <1>6
<1>8. ASSUME NEW i \in 1..(q - 1), params[i].key \notin AxisKeys(params)
      PROVE  params[i].key \in KeysTo(fs, j - 1)
  <2>1. i \in 1..l /\ params[i] \in ToSet(params) /\ i < q
    BY <1>1 DEF ToSet
  <2>2. IsFormula(params[i])
    <3>1. IsAxis(params[i]) => params[i] \in ToSet(Axes(params))
      BY <2>1, AxesAre
    <3>2. QED
      BY <1>8, <3>1 DEF IsAxis, AxisKeys
  <2>3. PICK h \in 1..m : params[i] = fs[h]
    BY <1>2, <1>3, <2>1, <2>2 DEF ToSet
  <2>4. f[h] \in 1..l /\ params[f[h]].key = params[i].key
    BY <1>5, <2>3
  <2>5. f[h] = i
    BY <1>1, <2>1, <2>4 DEF Params
  <2>6. f[h] < f[j]
    BY <1>7, <2>1, <2>5
  <2>7. h # j /\ ~(j < h)
    <3>1. f[h] \in Int /\ f[j] \in Int
      BY <1>7, <2>4
    <3>2. j < h => f[j] < f[h]
      BY <1>5, <1>6
    <3>3. QED
      BY <2>6, <3>1, <3>2
  <2>8. h \in 1..(j - 1)
    BY <1>6, <2>7
  <2>9. QED
    BY <2>3, <2>8 DEF KeysTo
<1>9. ASSUME NEW h \in 1..(j - 1)
      PROVE  fs[h].key \in {params[i].key : i \in 1..(q - 1)}
  <2>1. h \in 1..m /\ h < j
    BY <1>6
  <2>2. f[h] \in 1..l /\ f[h] < q /\ fs[h] = params[f[h]]
    BY <1>5, <1>6, <1>7, <2>1
  <2>3. f[h] \in 1..(q - 1)
    BY <2>2
  <2>4. QED
    BY <2>2, <2>3
<1>10. Visible(params, q) = AxisKeys(params) \cup KeysTo(fs, j - 1)
  BY <1>8, <1>9 DEF Visible, KeysTo
<1>11. params[q] = fs[j]
  BY <1>5, <1>6, <1>7
<1>12. SeenAt(params, fs, j, q)
  BY <1>1, <1>10, <1>11 DEF SeenAt
<1>13. QED
  BY <1>2, <1>12, Zenon


IsReference(p, axes, fs) == \E g \in Box(axes, Len(axes)) : IsResolved(p, g, fs, Len(fs))

LEMMA BoxOver ==
  ASSUME NEW params, NEW axes, NEW fs, AreSplit(params, axes, fs),
         NEW g \in Box(axes, Len(axes))
  PROVE  AreFormulasOver(fs, g) /\ DOMAIN g = KeysTo(axes, Len(axes))
<1>1. PICK n \in Nat : n = Len(axes) /\ \A i \in 1..n : axes[i] \in Entry
  BY LenProperties, ElementOfSeq DEF AreSplit
<1>2. g \in [KeysTo(axes, n) -> Atom]
  BY <1>1 DEF Box
<1>3. KeysTo(axes, n) \subseteq Text
  BY <1>1, EntryIs DEF KeysTo
<1>4. g \in Point
  BY <1>2, <1>3 DEF Point
<1>5. QED
  BY <1>1, <1>2, <1>4 DEF AreSplit, AreFormulasOver

(* The set ReferencePoints gives without a loop is the set of the axes'    *)
(* combinations, each with the formulas resolved.                          *)
LEMMA ReferenceIs ==
  ASSUME NEW params \in Params, NEW axes, NEW fs, AreSplit(params, axes, fs), NEW p
  PROVE  p \in ReferencePoints(params) <=> IsReference(p, axes, fs)
<1>1. PICK l \in Nat : /\ l = Len(params) /\ params \in Seq(Entry) /\ DOMAIN params = 1..l
                       /\ \A i \in 1..l : params[i] \in Entry
  BY LenProperties, ElementOfSeq DEF Params
<1>2. PICK n \in Nat, m \in Nat :
        n = Len(axes) /\ DOMAIN axes = 1..n /\ m = Len(fs) /\ DOMAIN fs = 1..m
  BY LenProperties DEF AreSplit
<1>3. /\ ToSet(axes) = {e \in ToSet(params) : IsAxis(e)}
      /\ ToSet(fs) = {e \in ToSet(params) : IsFormula(e)}
  BY AxesAre, FormulasAre DEF AreSplit
<1>4. /\ \A i \in 1..n : axes[i] \in Entry /\ axes[i] \in ToSet(axes)
      /\ \A j \in 1..m : fs[j] \in Formula /\ fs[j] \in Entry /\ fs[j] \in ToSet(fs)
  <2>1. \A i \in 1..n : axes[i] \in Entry
    BY <1>2, ElementOfSeq DEF AreSplit
  <2>2. \A j \in 1..m : fs[j] \in Formula
    BY <1>2, ElementOfSeq DEF AreSplit
  <2>3. QED
    BY <1>2, <2>1, <2>2 DEF ToSet, Formula
<1>5. ToSet(params) = {params[i] : i \in 1..l}
  BY <1>1 DEF ToSet
<1>6. /\ AxisKeys(params) = KeysTo(axes, n)
      /\ Keys(params) = KeysTo(axes, n) \cup KeysTo(fs, m)
  BY <1>2 DEF AreSplit
<1>7. ASSUME NEW e \in ToSet(params) PROVE ToSet(e.items) \subseteq Atoms(params)
  BY <1>1, <1>5 DEF Atoms
<1>8. ASSUME NEW j \in 1..m
      PROVE  \E q \in 1..l : /\ params[q] = fs[j]
                             /\ Visible(params, q) = KeysTo(axes, n) \cup KeysTo(fs, j - 1)
  <2>1. PICK q : SeenAt(params, fs, j, q)
    BY <1>2, FormulaSees DEF AreSplit
  <2>2. QED
    BY <1>1, <1>6, <2>1 DEF SeenAt
<1>9. ASSUME NEW g \in Box(axes, n), IsResolved(p, g, fs, m)
      PROVE  p \in ReferencePoints(params)
  <2>1. DOMAIN g = KeysTo(axes, n)
    BY <1>2, BoxOver
  <2>2. /\ p \in [Keys(params) -> Atom]
        /\ \A y \in KeysTo(axes, n) : p[y] = g[y]
    BY <1>6, <1>9, <2>1 DEF IsResolved, Named
  <2>3. \A i \in 1..n : p[axes[i].key] \in ToSet(axes[i].items)
    BY <2>2 DEF Box, KeysTo
  <2> DEFINE T == {k \in 0..m : \A y \in Named(g, fs, k) : p[y] \in Atoms(params)}
  <2>4. 0 \in T
    <3>1. KeysTo(fs, 0) = {} /\ 0 \in 0..m
      BY DEF KeysTo
    <3>2. \A y \in KeysTo(axes, n) : \E i \in 1..n : y = axes[i].key
      BY DEF KeysTo
    <3>3. \A y \in KeysTo(axes, n) : p[y] \in Atoms(params)
      BY <1>3, <1>4, <1>7, <2>3, <3>2
    <3>4. QED
      BY <2>1, <3>1, <3>3 DEF Named
  <2>5. ASSUME NEW k \in 1..m, k - 1 \in T PROVE k \in T
    <3>1. Named(g, fs, k) = Named(g, fs, k - 1) \cup {fs[k].key}
      BY NamedGrows
    <3>2. \A y \in Named(g, fs, k - 1) : p[y] \in Atoms(params)
      BY <2>5
    <3>3. p[fs[k].key] = IF fs[k].items[1] \in Named(g, fs, k - 1)
                         THEN p[fs[k].items[1]] ELSE fs[k].items[1]
      BY <1>9 DEF IsResolved
    <3>4. fs[k].items[1] \in Atoms(params)
      <4>1. fs[k].items = <<fs[k].items[1]>>
        BY <1>4, FormulaIs
      <4>2. fs[k].items[1] \in ToSet(fs[k].items)
        BY <4>1 DEF ToSet
      <4>3. QED
        BY <1>3, <1>4, <1>7, <4>2
    <3>5. p[fs[k].key] \in Atoms(params)
      BY <3>2, <3>3, <3>4
    <3>6. k \in 0..m
      OBVIOUS
    <3>7. QED
      BY <3>1, <3>2, <3>5, <3>6
  <2> HIDE DEF T
  <2>6. \A k \in 0..m : k \in T
    BY <2>4, <2>5, InductionTo
  <2>7. m \in 0..m
    OBVIOUS
  <2>8. \A y \in Named(g, fs, m) : p[y] \in Atoms(params)
    BY <2>6, <2>7 DEF T
  <2>9. p \in [Keys(params) -> Atoms(params)]
    BY <1>6, <2>1, <2>2, <2>8 DEF Named
  <2>10. ASSUME NEW i \in 1..l, IsAxis(params[i])
         PROVE  p[params[i].key] \in ToSet(params[i].items)
    <3>1. params[i] \in ToSet(axes)
      BY <1>3, <1>5, <2>10
    <3>2. PICK h \in 1..n : params[i] = axes[h]
      BY <1>2, <3>1 DEF ToSet
    <3>3. QED
      BY <2>3, <3>2
  <2>11. ASSUME NEW i \in 1..l, ~IsAxis(params[i])
         PROVE  p[params[i].key] = IF params[i].items[1] \in Visible(params, i)
                                   THEN p[params[i].items[1]] ELSE params[i].items[1]
    <3>1. params[i] \in ToSet(fs)
      BY <1>3, <1>5, <2>11 DEF IsAxis
    <3>2. PICK j \in 1..m : params[i] = fs[j]
      BY <1>2, <3>1 DEF ToSet
    <3>3. PICK q \in 1..l : /\ params[q] = fs[j]
                            /\ Visible(params, q) = KeysTo(axes, n) \cup KeysTo(fs, j - 1)
      BY <1>8
    <3>4. q = i
      BY <1>1, <3>2, <3>3 DEF Params
    <3>5. Visible(params, i) = Named(g, fs, j - 1)
      BY <2>1, <3>3, <3>4 DEF Named
    <3>6. QED
      BY <1>9, <3>2, <3>5 DEF IsResolved
  <2>12. QED
    BY <1>1, <2>9, <2>10, <2>11 DEF ReferencePoints
<1>10. ASSUME p \in ReferencePoints(params)
       PROVE  \E g \in Box(axes, n) : IsResolved(p, g, fs, m)
  <2> DEFINE g == [y \in KeysTo(axes, n) |-> p[y]]
  <2>1. /\ p \in [Keys(params) -> Atoms(params)]
        /\ \A i \in 1..l : IsAxis(params[i]) => p[params[i].key] \in ToSet(params[i].items)
        /\ \A i \in 1..l : ~IsAxis(params[i]) =>
             p[params[i].key] = IF params[i].items[1] \in Visible(params, i)
                                THEN p[params[i].items[1]] ELSE params[i].items[1]
    BY <1>1, <1>10 DEF ReferencePoints
  <2>2. Atoms(params) \subseteq Atom
    <3>1. ASSUME NEW i \in 1..l PROVE ToSet(params[i].items) \subseteq Atom
      <4>1. params[i].items \in Seq(Atom)
        BY <1>1, EntryIs
      <4>2. QED
        BY <4>1, LenProperties, ElementOfSeq DEF ToSet
    <3>2. QED
      BY <1>1, <3>1 DEF Atoms
  <2>3. g \in [KeysTo(axes, n) -> Atom]
    BY <1>6, <2>1, <2>2
  <2>4. ASSUME NEW i \in 1..n PROVE g[axes[i].key] \in ToSet(axes[i].items)
    <3>1. axes[i] \in ToSet(params) /\ IsAxis(axes[i])
      BY <1>3, <1>4
    <3>2. PICK h \in 1..l : axes[i] = params[h]
      BY <1>5, <3>1
    <3>3. axes[i].key \in KeysTo(axes, n)
      BY DEF KeysTo
    <3>4. QED
      BY <2>1, <3>1, <3>2, <3>3
  <2>5. DOMAIN g = KeysTo(axes, n) /\ \A y \in KeysTo(axes, n) : g[y] = p[y]
    OBVIOUS
  <2> HIDE DEF g
  <2>6. g \in Box(axes, n)
    BY <2>3, <2>4 DEF Box
  <2>7. p \in [Named(g, fs, m) -> Atom]
    BY <1>6, <2>1, <2>2, <2>5 DEF Named
  <2>8. ASSUME NEW j \in 1..m
        PROVE  p[fs[j].key] = IF fs[j].items[1] \in Named(g, fs, j - 1)
                              THEN p[fs[j].items[1]] ELSE fs[j].items[1]
    <3>1. PICK q \in 1..l : /\ params[q] = fs[j]
                            /\ Visible(params, q) = KeysTo(axes, n) \cup KeysTo(fs, j - 1)
      BY <1>8
    <3>2. ~IsAxis(params[q])
      BY <1>3, <1>4, <3>1 DEF IsAxis
    <3>3. Visible(params, q) = Named(g, fs, j - 1)
      BY <2>5, <3>1 DEF Named
    <3>4. QED
      BY <2>1, <3>1, <3>2, <3>3
  <2>9. IsResolved(p, g, fs, m)
    BY <2>5, <2>7, <2>8 DEF IsResolved
  <2>10. QED
    BY <2>6, <2>9
<1>11. QED
  BY <1>2, <1>9, <1>10 DEF IsReference

(* The points _expand_params lists are those the reference names.          *)
LEMMA ExpandParamsSet ==
  ASSUME NEW params \in Params, ReferencePoints(params) # {}
  PROVE  /\ ToSet(ExpandParams(params)) = ReferencePoints(params)
         /\ Len(ExpandParams(params)) = Size(Axes(params))
<1>1. PICK axes \in Seq(Entry), fs \in Seq(Formula) :
        axes = Axes(params) /\ fs = Formulas(params) /\ AreSplit(params, axes, fs)
  BY ParamsSplit, AxesAre, FormulasAre
<1>2. PICK product \in Seq(Point) :
        product = ProductOf(axes) /\ ToSet(product) = Box(axes, Len(axes))
  BY <1>1, ProductIs, ProductIsBox DEF AreSplit
<1>3. PICK l \in Nat : l = Len(product) /\ DOMAIN product = 1..l /\ l = Size(axes)
  BY <1>2, LenProperties, ProductLength
<1>4. ToSet(product) = {product[i] : i \in 1..l}
  BY <1>3 DEF ToSet
<1>5. ASSUME NEW g \in Box(axes, Len(axes)), NEW p
      PROVE  p = WithFormulas(g, fs) <=> IsResolved(p, g, fs, Len(fs))
  <2>1. AreFormulasOver(fs, g)
    BY <1>1, BoxOver
  <2>2. IsResolved(WithFormulas(g, fs), g, fs, Len(fs))
    BY <2>1, FormulasResolved
  <2>3. Len(fs) \in Nat
    BY LenProperties
  <2>4. QED
    BY <2>2, <2>3, ResolvedOnce
<1>6. ASSUME NEW p
      PROVE  p \in ReferencePoints(params) <=> \E i \in 1..l : p = WithFormulas(product[i], fs)
  <2>1. p \in ReferencePoints(params) <=> IsReference(p, axes, fs)
    BY <1>1, ReferenceIs
  <2>2. IsReference(p, axes, fs) <=> \E g \in ToSet(product) : p = WithFormulas(g, fs)
    BY <1>2, <1>5, Zenon DEF IsReference
  <2>3. (\E g \in ToSet(product) : p = WithFormulas(g, fs)) <=>
          (\E i \in 1..l : p = WithFormulas(product[i], fs))
    BY <1>4, Zenon
  <2>4. QED
    BY <2>1, <2>2, <2>3, Zenon
<1> DEFINE At(i) == WithFormulas(product[i], fs)
           expanded == [i \in 1..Len(product) |-> At(i)]
<1>7. l # 0
  BY <1>6
<1>8. expanded = [i \in 1..l |-> At(i)]
  BY <1>3, Zenon
<1>9. ExpandParams(params) = IF expanded = <<>> THEN <<EmptyPoint>> ELSE expanded
  BY <1>1, <1>2, Zenon DEF ExpandParams
<1> HIDE DEF expanded
<1>10. ReferencePoints(params) = {At(i) : i \in 1..l}
  BY <1>6
<1> HIDE DEF At
<1>11. expanded # <<>>
  BY <1>7, <1>8
<1>12. ExpandParams(params) = expanded
  BY <1>9, <1>11
<1>13. Len(expanded) = l /\ ToSet(expanded) = {At(i) : i \in 1..l}
  BY <1>8 DEF ToSet
<1>14. QED
  BY <1>1, <1>3, <1>10, <1>12, <1>13


-----------------------------------------------------------------------------
(* The rows of an experiment                                               *)

(* Followed to their data rows, they are the list expand_jobs returns.     *)
AreRowsOf(i, c) ==
  /\ {JobPoint(k) : k \in JobsOf(i)} = ToSet(ExpandJobs(c))
  /\ Cardinality(JobsOf(i)) = Len(ExpandJobs(c))
  /\ \A k \in JobsOf(i) : data[jobs[k].data].runner = AsDict(c.runner)

LEMMA RowsOfExperiment ==
  ASSUME SubmissionInv, NEW i \in 1..Len(experiments)
  PROVE  AreRowsOf(i, experiments[i])
<1>1. PICK c \in Config : c = experiments[i]
  BY ElementOfSeq DEF SubmissionInv, RowsWellFormed
<1>2. PICK list \in Seq(Job) : list = ExpandJobs(c)
  BY <1>1, ExpandJobsIs DEF IsJobList
<1>3. PICK l \in Nat : l = Len(list) /\ DOMAIN list = 1..l /\ \A k \in 1..l : list[k] \in Job
  BY LenProperties, ElementOfSeq
<1>4. PICK b \in Nat : RowsStartAfter(i, b)
  BY DEF SubmissionInv, RowsFollow
<1>5. PICK r \in Nat : r = Len(jobs)
  BY LenProperties DEF SubmissionInv, RowsWellFormed
<1>6. /\ b + l <= r
      /\ \A k \in 1..r : k \in JobsOf(i) <=> b < k /\ k <= b + l
      /\ \A k \in 1..l : /\ jobs[b + k].decoder = list[k].decoder
                         /\ data[jobs[b + k].data] = DataSpec(c, list[k])
  BY <1>1, <1>2, <1>3, <1>4, <1>5 DEF RowsStartAfter
<1>7. JobsOf(i) = (b + 1)..(b + l)
  <2>1. JobsOf(i) \subseteq 1..r
    BY <1>5 DEF JobsOf
  <2>2. (b + 1)..(b + l) \subseteq 1..r
    BY <1>6
  <2>3. \A k \in 1..r : k \in (b + 1)..(b + l) <=> b < k /\ k <= b + l
    OBVIOUS
  <2>4. \A k \in 1..r : k \in JobsOf(i) <=> k \in (b + 1)..(b + l)
    BY <1>6, <2>3, Zenon
  <2>5. \A k : k \in JobsOf(i) <=> k \in (b + 1)..(b + l)
    BY <2>1, <2>2, <2>4, Zenon
  <2>6. QED
    BY <2>5, Zenon
<1>8. ASSUME NEW k \in 1..l
      PROVE  JobPoint(b + k) = list[k] /\ data[jobs[b + k].data].runner = AsDict(c.runner)
  <2>1. list[k] \in Job
    BY <1>3
  <2>2. data[jobs[b + k].data] = DataSpec(c, list[k]) /\ jobs[b + k].decoder = list[k].decoder
    BY <1>6
  <2>3. QED
    BY <2>1, <2>2 DEF JobPoint, DataSpec, Job
<1>9. ASSUME NEW k \in JobsOf(i) PROVE \E j \in 1..l : k = b + j
  <2>1. PICK x \in (b + 1)..(b + l) : x = k
    BY <1>7, <1>9, Zenon
  <2>2. x - b \in 1..l /\ x = b + (x - b)
    BY <2>1
  <2>3. QED
    BY <2>1, <2>2
<1>10. \A j \in 1..l : b + j \in JobsOf(i)
  BY <1>7
<1>11. {JobPoint(k) : k \in JobsOf(i)} = {list[k] : k \in 1..l}
  <2>1. \A j \in 1..l : JobPoint(b + j) = list[j]
    BY <1>8, Zenon
  <2>2. ASSUME NEW k \in JobsOf(i) PROVE JobPoint(k) \in {list[j] : j \in 1..l}
    <3>1. PICK j \in 1..l : k = b + j
      BY <1>9
    <3>2. QED
      BY <2>1, <3>1, Zenon
  <2>3. ASSUME NEW j \in 1..l PROVE list[j] \in {JobPoint(k) : k \in JobsOf(i)}
    BY <1>10, <2>1, Zenon
  <2>4. QED
    BY <2>2, <2>3, Zenon
<1>12. Cardinality(JobsOf(i)) = l
  <2>1. b + 1 \in Int /\ b + l \in Int
    OBVIOUS
  <2>2. Cardinality((b + 1)..(b + l)) = IF b + 1 > b + l THEN 0 ELSE (b + l) - (b + 1) + 1
    BY <2>1, FS_Interval
  <2>3. (IF b + 1 > b + l THEN 0 ELSE (b + l) - (b + 1) + 1) = l
    OBVIOUS
  <2>4. QED
    BY <1>7, <2>2, <2>3, Zenon
<1>13. \A k \in JobsOf(i) : data[jobs[k].data].runner = AsDict(c.runner)
  BY <1>8, <1>9
<1>14. ToSet(list) = {list[k] : k \in 1..l}
  BY <1>3 DEF ToSet
<1>15. QED
  BY <1>1, <1>2, <1>3, <1>11, <1>12, <1>13, <1>14 DEF AreRowsOf

LEMMA ConfigIs ==
  ASSUME NEW c \in Config
  PROVE  /\ c.circuit \in Params /\ c.noise \in Params
         /\ c.runner \in Params /\ c.decoder \in Params
         /\ DOMAIN c = {"circuit", "noise", "runner", "decoder"}
  BY ConfigAssumption

(* The list, when every sweep has a point.                                 *)
LEMMA ExpandJobsSet ==
  ASSUME NEW c \in Config, Sound(c)
  PROVE  /\ ToSet(ExpandJobs(c)) = [circuit : ReferencePoints(c.circuit),
                                    noise : ReferencePoints(c.noise),
                                    decoder : ReferencePoints(c.decoder)]
         /\ Len(ExpandJobs(c)) =
              Size(Axes(c.circuit)) * (Size(Axes(c.noise)) * Size(Axes(c.decoder)))
<1>1. /\ ReferencePoints(c.circuit) # {}
      /\ ReferencePoints(c.noise) # {}
      /\ ReferencePoints(c.decoder) # {}
  BY DEF Sound, Swept
<1>2. /\ c.circuit \in Params /\ c.noise \in Params /\ c.decoder \in Params
  BY ConfigIs
<1>3. IsJobList(ExpandJobs(c), c)
  BY ExpandJobsIs
<1>4. /\ ToSet(ExpandParams(c.circuit)) = ReferencePoints(c.circuit)
      /\ Len(ExpandParams(c.circuit)) = Size(Axes(c.circuit))
  BY <1>1, <1>2, ExpandParamsSet
<1>5. /\ ToSet(ExpandParams(c.noise)) = ReferencePoints(c.noise)
      /\ Len(ExpandParams(c.noise)) = Size(Axes(c.noise))
  BY <1>1, <1>2, ExpandParamsSet
<1>6. /\ ToSet(ExpandParams(c.decoder)) = ReferencePoints(c.decoder)
      /\ Len(ExpandParams(c.decoder)) = Size(Axes(c.decoder))
  BY <1>1, <1>2, ExpandParamsSet
<1>7. QED
  BY <1>3, <1>4, <1>5, <1>6, Zenon DEF IsJobList

(* An experiment's decoding rows are the full cartesian product of its     *)
(* sweeps, each combination as often as the lists repeat it: expand_jobs,  *)
(* _expand_params and the bulk inserts of create_experiment_and_jobs lose  *)
(* and invent none, for sweeps of any size.                                *)
THEOREM RowsAreProduct == Spec => []RowsAreTheProduct
<1>1. ASSUME SubmissionInv, NEW i \in 1..Len(experiments), Sound(experiments[i])
      PROVE  LET c == experiments[i]
                 size == Size(Axes(c.circuit)) * (Size(Axes(c.noise)) * Size(Axes(c.decoder)))
             IN /\ {JobPoint(k) : k \in JobsOf(i)} =
                     [circuit : ReferencePoints(c.circuit), noise : ReferencePoints(c.noise),
                      decoder : ReferencePoints(c.decoder)]
                /\ Cardinality(JobsOf(i)) = size
                /\ \A k \in JobsOf(i) : data[jobs[k].data].runner = AsDict(c.runner)
  <2>1. PICK c \in Config : c = experiments[i]
    BY <1>1, ElementOfSeq DEF SubmissionInv, RowsWellFormed
  <2>2. AreRowsOf(i, c)
    BY <1>1, <2>1, RowsOfExperiment
  <2>3. /\ ToSet(ExpandJobs(c)) = [circuit : ReferencePoints(c.circuit),
                                   noise : ReferencePoints(c.noise),
                                   decoder : ReferencePoints(c.decoder)]
        /\ Len(ExpandJobs(c)) =
              Size(Axes(c.circuit)) * (Size(Axes(c.noise)) * Size(Axes(c.decoder)))
    BY <1>1, <2>1, ExpandJobsSet
  <2>4. QED
    BY <2>1, <2>2, <2>3, Zenon DEF AreRowsOf
<1>2. SubmissionInv => RowsAreTheProduct
  BY <1>1, Zenon DEF RowsAreTheProduct
<1>3. QED
  BY <1>2, SubmissionInvariant, PTL


-----------------------------------------------------------------------------
(* Params that are Direct                                                  *)

(* The first point of the product has the first value of each axis.        *)
HasFirsts(points, axes, k) ==
  /\ Len(points) >= 1
  /\ points[1] \in [KeysTo(axes, k) -> Atom]
  /\ \A i \in 1..k : points[1][axes[i].key] = axes[i].items[1]

NoneEmpty(axes) == \A i \in 1..Len(axes) : axes[i].items # <<>>

LEMMA FirstsStep ==
  ASSUME NEW axes \in Seq(Entry), AreDistinctKeys(axes), NoneEmpty(axes),
         NEW k \in 1..Len(axes), NEW points \in Seq(Point), HasFirsts(points, axes, k - 1)
  PROVE  HasFirsts(AddAxis(points, axes[k]), axes, k)
<1>1. PICK n \in Nat : n = Len(axes) /\ k \in 1..n /\ \A i \in 1..n : axes[i] \in Entry
  BY LenProperties, ElementOfSeq
<1> DEFINE e == axes[k]
<1>2. PICK l \in Nat : l = Len(points) /\ l >= 1
  BY LenProperties DEF HasFirsts
<1>3. PICK m \in Nat : m = Len(e.items) /\ m >= 1 /\ e.items[1] \in Atom
  <2>1. PICK items \in Seq(Atom) : items = e.items /\ items # <<>>
    BY <1>1, EntryIs DEF NoneEmpty
  <2>2. Len(items) \in Nat /\ Len(items) >= 1
    BY <2>1, LenProperties, EmptySeq
  <2>3. items[1] \in Atom
    BY <2>2, ElementOfSeq
  <2>4. QED
    BY <2>1, <2>2, <2>3
<1>4. PICK r \in Seq(Point) : r = AddAxis(points, e) /\ Len(r) = l * m
  BY <1>1, <1>2, <1>3, AddAxisIs
<1>5. r[(1 - 1) * m + 1] = Put(points[1], e.key, e.items[1])
  <2>1. 1 \in 1..l /\ 1 \in 1..m
    BY <1>2, <1>3
  <2>2. QED
    BY <1>1, <1>2, <1>3, <1>4, <2>1, AddAxisIs
<1>6. r[1] = Put(points[1], e.key, e.items[1])
  BY <1>5, <1>3
<1>7. Len(r) >= 1
  <2>1. 1 * m <= l * m
    BY <1>2, MultiplesGrow
  <2>2. QED
    BY <1>3, <1>4, <2>1
<1>8. KeysTo(axes, k) = KeysTo(axes, k - 1) \cup {e.key} /\ e.key \notin KeysTo(axes, k - 1)
  <2>1. 1..k = 1..(k - 1) \cup {k}
    BY <1>1
  <2>2. ASSUME NEW i \in 1..(k - 1), axes[i].key = e.key PROVE FALSE
    <3>1. i \in 1..n /\ i # k
      BY <1>1
    <3>2. QED
      BY <1>1, <2>2, <3>1, Zenon DEF AreDistinctKeys
  <2>3. QED
    BY <2>1, <2>2, Zenon DEF KeysTo
<1>9. points[1] \in [KeysTo(axes, k - 1) -> Atom]
  BY DEF HasFirsts
<1>10. r[1] = [y \in KeysTo(axes, k) |-> IF y = e.key THEN e.items[1] ELSE points[1][y]]
  BY <1>6, <1>8, <1>9 DEF Put
<1>11. r[1] \in [KeysTo(axes, k) -> Atom]
  BY <1>3, <1>8, <1>9, <1>10
<1>12. ASSUME NEW i \in 1..k PROVE r[1][axes[i].key] = axes[i].items[1]
  <2>1. CASE i = k
    BY <1>8, <1>10, <2>1
  <2>2. CASE i # k
    <3>1. i \in 1..(k - 1)
      BY <1>1, <2>2
    <3>2. axes[i].key \in KeysTo(axes, k - 1) /\ points[1][axes[i].key] = axes[i].items[1]
      BY <3>1 DEF KeysTo, HasFirsts
    <3>3. QED
      BY <1>8, <1>10, <3>2
  <2>3. QED
    BY <2>1, <2>2
<1>13. HasFirsts(r, axes, k)
  BY <1>7, <1>11, <1>12 DEF HasFirsts
<1>14. QED
  BY <1>4, <1>13, Zenon

LEMMA ProductHasFirsts ==
  ASSUME NEW axes \in Seq(Entry), AreDistinctKeys(axes), NoneEmpty(axes)
  PROVE  HasFirsts(ProductOf(axes), axes, Len(axes))
<1>1. PICK n \in Nat : n = Len(axes)
  BY LenProperties
<1>2. PICK p : IsProductRun(p, axes)
  BY ProductSteps
<1> DEFINE T == {k \in 0..n : HasFirsts(p[k], axes, k)}
<1>3. 0 \in T
  <2>1. 0 \in 0..n /\ 1..0 = {} /\ KeysTo(axes, 0) = {}
    BY DEF KeysTo
  <2>2. p[0] = <<EmptyPoint>>
    BY <1>2, Zenon DEF IsProductRun
  <2>3. EmptyPoint \in [{} -> Atom]
    BY EmptyPointIs DEF Point
  <2>4. Len(<<EmptyPoint>>) >= 1 /\ <<EmptyPoint>>[1] = EmptyPoint
    OBVIOUS
  <2>5. HasFirsts(<<EmptyPoint>>, axes, 0)
    BY <2>1, <2>3, <2>4, Zenon DEF HasFirsts
  <2>6. QED
    BY <2>1, <2>2, <2>5, Zenon
<1>4. ASSUME NEW k \in 1..n, k - 1 \in T PROVE k \in T
  <2>1. k \in 0..n /\ k - 1 \in 0..n /\ k \in 1..Len(axes)
    BY <1>1
  <2>2. p[k - 1] \in Seq(Point) /\ HasFirsts(p[k - 1], axes, k - 1)
    BY <1>1, <1>2, <1>4, <2>1 DEF IsProductRun
  <2>3. p[k] = AddAxis(p[k - 1], axes[k])
    BY <1>1, <1>2, Zenon DEF IsProductRun
  <2>4. HasFirsts(AddAxis(p[k - 1], axes[k]), axes, k)
    BY <2>1, <2>2, FirstsStep
  <2>5. QED
    BY <2>1, <2>3, <2>4, Zenon
<1> HIDE DEF T
<1>5. \A k \in 0..n : k \in T
  BY <1>3, <1>4, InductionTo
<1>6. n \in 0..n
  OBVIOUS
<1>7. HasFirsts(p[n], axes, n)
  BY <1>5, <1>6 DEF T
<1>8. QED
  BY <1>1, <1>2, <1>7, Zenon DEF IsProductRun

(* The point of the first values, when every formula names an axis or      *)
(* nothing.                                                                *)
IsFirst(p, params) ==
  /\ p \in [Keys(params) -> Atom]
  /\ \A e \in ToSet(params) :
       p[e.key] = IF IsFormula(e) /\ e.items[1] \in AxisKeys(params)
                  THEN p[e.items[1]] ELSE e.items[1]

LEMMA ExpansionFirst ==
  ASSUME NEW params \in Params, Direct(params)
  PROVE  /\ IsFirst(ExpandParams(params)[1], params)
         /\ ReferencePoints(params) # {}
<1>1. PICK axes \in Seq(Entry), fs \in Seq(Formula) :
        /\ axes = Axes(params) /\ fs = Formulas(params) /\ AreSplit(params, axes, fs)
        /\ ToSet(axes) = {e \in ToSet(params) : IsAxis(e)}
        /\ ToSet(fs) = {e \in ToSet(params) : IsFormula(e)}
  BY ParamsSplit, AxesAre, FormulasAre
<1>2. PICK n \in Nat, m \in Nat :
        n = Len(axes) /\ DOMAIN axes = 1..n /\ m = Len(fs) /\ DOMAIN fs = 1..m
  BY LenProperties
<1>3. NoneEmpty(axes) /\ AreDistinctKeys(axes)
  <2>1. \A i \in 1..n : axes[i] \in ToSet(axes)
    BY <1>2 DEF ToSet
  <2>2. QED
    BY <1>1, <1>2, <2>1 DEF Direct, NoneEmpty, AreSplit
<1>4. PICK product \in Seq(Point) :
        /\ product = ProductOf(axes) /\ ToSet(product) = Box(axes, n)
        /\ HasFirsts(product, axes, n)
  BY <1>1, <1>2, <1>3, ProductIs, ProductIsBox, ProductHasFirsts
<1>5. PICK l \in Nat : l = Len(product) /\ l >= 1 /\ DOMAIN product = 1..l
  BY <1>4, LenProperties DEF HasFirsts
<1>6. PICK g \in Box(axes, n) : g = product[1]
  <2>1. 1 \in 1..l
    BY <1>5
  <2>2. QED
    BY <1>4, <1>5, <2>1 DEF ToSet
<1>7. AreFormulasOver(fs, g) /\ DOMAIN g = KeysTo(axes, n)
  BY <1>1, <1>2, <1>6, BoxOver
<1> DEFINE w == WithFormulas(g, fs)
           At(i) == WithFormulas(product[i], fs)
           expanded == [i \in 1..Len(product) |-> At(i)]
<1>8. IsResolved(w, g, fs, m)
  BY <1>2, <1>7, FormulasResolved
<1>9. w \in ReferencePoints(params)
  <2>1. IsReference(w, axes, fs)
    BY <1>2, <1>6, <1>8 DEF IsReference
  <2>2. QED
    BY <1>1, <2>1, ReferenceIs
<1>10. ExpandParams(params)[1] = w
  <2>1. ExpandParams(params) = IF expanded = <<>> THEN <<EmptyPoint>> ELSE expanded
    BY <1>1, <1>4, Zenon DEF ExpandParams
  <2>2. At(1) = w
    BY <1>6
  <2> HIDE DEF At, w
  <2>3. expanded # <<>> /\ expanded[1] = w
    BY <1>5, <2>2
  <2> HIDE DEF expanded
  <2>4. QED
    BY <2>1, <2>3
<1> HIDE DEF w
<1>11. w \in [Keys(params) -> Atom]
  BY <1>1, <1>2, <1>7, <1>8 DEF IsResolved, Named, AreSplit
<1>12. ASSUME NEW e \in ToSet(params), ~IsFormula(e) PROVE w[e.key] = e.items[1]
  <2>1. PICK i \in 1..n : e = axes[i]
    BY <1>1, <1>2, <1>12 DEF ToSet, IsAxis
  <2>2. e.key \in KeysTo(axes, n)
    BY <2>1 DEF KeysTo
  <2>3. w[e.key] = g[e.key]
    BY <1>7, <1>8, <2>2 DEF IsResolved
  <2>4. g[e.key] = e.items[1]
    BY <1>4, <1>6, <2>1 DEF HasFirsts
  <2>5. QED
    BY <2>3, <2>4
<1>13. ASSUME NEW e \in ToSet(params), IsFormula(e)
       PROVE  w[e.key] = IF e.items[1] \in AxisKeys(params) THEN w[e.items[1]] ELSE e.items[1]
  <2>1. PICK j \in 1..m : e = fs[j]
    BY <1>1, <1>2, <1>13 DEF ToSet
  <2>2. w[e.key] = IF e.items[1] \in Named(g, fs, j - 1) THEN w[e.items[1]] ELSE e.items[1]
    BY <1>8, <2>1 DEF IsResolved
  <2>3. e.items[1] \notin KeysTo(fs, j - 1)
    <3>1. ASSUME NEW i \in 1..(j - 1) PROVE fs[i].key # e.items[1]
      <4>1. i \in 1..m
        OBVIOUS
      <4>2. fs[i] \in ToSet(fs) /\ e \in ToSet(fs)
        BY <1>2, <2>1, <4>1 DEF ToSet
      <4>3. QED
        BY <1>1, <4>2 DEF Direct
    <3>2. QED
      BY <3>1 DEF KeysTo
  <2>4. AxisKeys(params) = DOMAIN g
    BY <1>1, <1>2, <1>7 DEF AreSplit
  <2>5. QED
    BY <2>2, <2>3, <2>4 DEF Named
<1>14. IsFirst(w, params)
  BY <1>11, <1>12, <1>13 DEF IsFirst
<1>15. QED
  BY <1>9, <1>10, <1>14


(* The two passes of _first.                                               *)
Filled == {e \in Entry : e.items # <<>>}
Keyed(K) == {e \in Entry : e.key \in K}
FirstPass(params) == FoldLeft(TakeFirst, EmptyPoint, params)
SecondPass(point, params) == FoldLeft(LookAgain, point, params)

LEMMA TakeFirstIs ==
  ASSUME NEW p \in Point, NEW e \in Filled
  PROVE  /\ e.items[1] \notin Sweep =>
              TakeFirst(p, e) = Put(p, e.key, IF e.kind # "space" /\ e.items[1] \in DOMAIN p
                                              THEN p[e.items[1]] ELSE e.items[1])
         /\ TakeFirst(p, e) \in Point
<1>1. e.items[1] \in Atom /\ e.key \in Text /\ e.items # <<>>
  <2>1. PICK items \in Seq(Atom) : items = e.items /\ items # <<>>
    BY EntryIs DEF Filled
  <2>2. Len(items) \in Nat /\ Len(items) >= 1
    BY <2>1, LenProperties, EmptySeq
  <2>3. items[1] \in Atom
    BY <2>2, ElementOfSeq
  <2>4. QED
    BY <2>1, <2>3, EntryIs DEF Filled
<1> DEFINE v == IF e.items[1] \in Sweep THEN FirstOf[e.items[1]]
                ELSE IF e.kind # "space" /\ e.items[1] \in DOMAIN p THEN p[e.items[1]]
                ELSE e.items[1]
<1>2. v \in Atom
  BY <1>1, AtomAssumption DEF Point
<1> HIDE DEF v
<1>3. Put(p, e.key, v) \in Point
  BY <1>1, <1>2, PutIs
<1>4. TakeFirst(p, e) = Put(p, e.key, v)
  BY <1>1, Zenon DEF TakeFirst, v
<1>5. QED
  BY <1>3, <1>4, Zenon DEF v

LEMMA LookAgainIs ==
  ASSUME NEW K \in SUBSET Text, NEW p \in [K -> Atom], NEW e \in Keyed(K)
  PROVE  /\ LookAgain(p, e) \in [K -> Atom]
         /\ \A y \in K : LookAgain(p, e)[y] =
              IF y # e.key THEN p[y] ELSE IF p[e.key] \in K THEN p[p[e.key]] ELSE p[e.key]
<1> DEFINE v == IF p[e.key] \in DOMAIN p THEN p[p[e.key]] ELSE p[e.key]
<1>1. e.key \in K /\ DOMAIN p = K /\ K \cup {e.key} = K
  BY DEF Keyed
<1>2. v \in Atom
  BY <1>1
<1>3. LookAgain(p, e) = [y \in K |-> IF y = e.key THEN v ELSE p[y]]
  BY <1>1 DEF LookAgain, Put
<1>4. QED
  BY <1>1, <1>2, <1>3

(* The first pass, one entry at a time.                                    *)
IsFirstRun(p, params) ==
  /\ p \in [0..Len(params) -> Point]
  /\ p[0] = EmptyPoint
  /\ \A k \in 1..Len(params) : p[k] = TakeFirst(p[k - 1], params[k])
  /\ FirstPass(params) = p[Len(params)]

LEMMA FirstSteps ==
  ASSUME NEW params \in Seq(Filled)
  PROVE  \E p : IsFirstRun(p, params)
<1>1. PICK n \in Nat : n = Len(params) /\ DOMAIN params = 1..n /\ \A k \in 1..n : params[k] \in Filled
  BY LenProperties, ElementOfSeq
<1> DEFINE Solves(it) == it = [d \in SUBSET (DOMAIN params) |->
             IF d = {} THEN EmptyPoint
             ELSE TakeFirst(it[d \ {Max(d)}], params[Max(d)])]
           G == [e \in (1..n) \X Point |-> TakeFirst(e[2], params[e[1]])]
<1>2. G \in [(1..n) \X Point -> Point]
  BY <1>1, TakeFirstIs
<1>3. PICK h \in [SUBSET (1..n) -> Point] : IsFoldTable(h, n, EmptyPoint, G)
  <2>1. EmptyPoint \in Point
    BY EmptyPointIs
  <2> HIDE DEF G
  <2>2. QED
    BY <1>2, <2>1, FoldTable, Zenon
<1>4. ASSUME NEW d \in SUBSET (1..n), d # {}
      PROVE  Max(d) \in 1..n /\ d \ {Max(d)} \in SUBSET (1..n)
  BY <1>4, MaxOf
<1>5. Solves(h)
  <2>1. ASSUME NEW d \in SUBSET (1..n)
        PROVE  h[d] = IF d = {} THEN EmptyPoint
                      ELSE TakeFirst(h[d \ {Max(d)}], params[Max(d)])
    <3>1. CASE d = {}
      BY <1>3, <3>1, Zenon DEF IsFoldTable
    <3>2. CASE d # {}
      <4>1. PICK m \in 1..n : m = Max(d) /\ d \ {m} \in SUBSET (1..n)
        BY <1>4, <3>2, Zenon
      <4>2. PICK v \in Point : v = h[d \ {m}]
        BY <1>3, <4>1, Zenon
      <4>3. h[d] = G[<<m, v>>]
        BY <1>3, <3>2, <4>1, <4>2, Zenon DEF IsFoldTable
      <4>4. h[d] = TakeFirst(v, params[m])
        BY <4>3
      <4>5. QED
        BY <3>2, <4>1, <4>2, <4>4, Zenon
    <3>3. QED
      BY <3>1, <3>2
  <2>2. QED
    BY <1>1, <1>3, <2>1, Zenon
<1>6. PICK it : Solves(it) /\ FirstPass(params) = it[DOMAIN params]
  <2>1. Solves(CHOOSE it : Solves(it))
    <3> HIDE DEF Solves
    <3>1. QED
      BY <1>5, Zenon
  <2>2. QED
    BY <2>1, Zenon DEF FirstPass, FoldLeft, MapThenFoldSet
<1> DEFINE p == [k \in 0..n |-> it[1..k]]
<1>7. p[0] = EmptyPoint
  <2>1. {} \in SUBSET (1..n) /\ 1..0 = {} /\ 0 \in 0..n
    OBVIOUS
  <2>2. it[{}] = EmptyPoint
    BY <1>1, <1>6, <2>1, Zenon
  <2>3. QED
    BY <2>1, <2>2, Zenon
<1>8. ASSUME NEW k \in 1..n PROVE p[k] = TakeFirst(p[k - 1], params[k])
  <2>1. /\ 1..k # {} /\ 1..k \in SUBSET (1..n) /\ Max(1..k) = k
        /\ (1..k) \ {k} = 1..(k - 1)
    BY LastPlace
  <2>2. it[1..k] = TakeFirst(it[1..(k - 1)], params[k])
    BY <1>1, <1>6, <2>1, Zenon
  <2>3. k \in 0..n /\ k - 1 \in 0..n
    OBVIOUS
  <2>4. QED
    BY <2>2, <2>3, Zenon
<1> HIDE DEF p
<1>9. \A k \in 0..n : p[k] \in Point
  <2> DEFINE T == {m \in 0..n : p[m] \in Point}
  <2>1. 0 \in T
    <3>1. 0 \in 0..n /\ EmptyPoint \in Point
      BY EmptyPointIs
    <3>2. QED
      BY <1>7, <3>1, Zenon
  <2>2. ASSUME NEW k \in 1..n, k - 1 \in T PROVE k \in T
    <3>1. k \in 0..n
      OBVIOUS
    <3>2. p[k - 1] \in Point /\ params[k] \in Filled
      BY <1>1, <2>2, Zenon
    <3>3. TakeFirst(p[k - 1], params[k]) \in Point
      BY <3>2, TakeFirstIs
    <3>4. QED
      BY <1>8, <3>1, <3>3, Zenon
  <2> HIDE DEF T
  <2>3. \A k \in 0..n : k \in T
    BY <2>1, <2>2, InductionTo
  <2>4. QED
    BY <2>3 DEF T
<1>10. p \in [0..n -> Point]
  BY <1>9 DEF p
<1>11. FirstPass(params) = p[n]
  BY <1>1, <1>6 DEF p
<1>12. QED
  BY <1>1, <1>7, <1>8, <1>10, <1>11, Zenon DEF IsFirstRun

(* The second pass, over keys that are all there.                          *)
IsSecondRun(p, K, point, params) ==
  /\ p \in [0..Len(params) -> [K -> Atom]]
  /\ p[0] = point
  /\ \A k \in 1..Len(params) : p[k] = LookAgain(p[k - 1], params[k])
  /\ SecondPass(point, params) = p[Len(params)]

LEMMA SecondSteps ==
  ASSUME NEW K \in SUBSET Text, NEW point \in [K -> Atom], NEW params \in Seq(Keyed(K))
  PROVE  \E p : IsSecondRun(p, K, point, params)
<1>1. PICK n \in Nat : n = Len(params) /\ DOMAIN params = 1..n /\ \A k \in 1..n : params[k] \in Keyed(K)
  BY LenProperties, ElementOfSeq
<1> DEFINE Solves(it) == it = [d \in SUBSET (DOMAIN params) |->
             IF d = {} THEN point
             ELSE LookAgain(it[d \ {Max(d)}], params[Max(d)])]
           G == [e \in (1..n) \X [K -> Atom] |-> LookAgain(e[2], params[e[1]])]
<1>2. G \in [(1..n) \X [K -> Atom] -> [K -> Atom]]
  BY <1>1, LookAgainIs
<1>3. PICK h \in [SUBSET (1..n) -> [K -> Atom]] : IsFoldTable(h, n, point, G)
  <2>1. point \in [K -> Atom]
    OBVIOUS
  <2> HIDE DEF G
  <2>2. QED
    BY <1>2, <2>1, FoldTable, Zenon
<1>4. ASSUME NEW d \in SUBSET (1..n), d # {}
      PROVE  Max(d) \in 1..n /\ d \ {Max(d)} \in SUBSET (1..n)
  BY <1>4, MaxOf
<1>5. Solves(h)
  <2>1. ASSUME NEW d \in SUBSET (1..n)
        PROVE  h[d] = IF d = {} THEN point
                      ELSE LookAgain(h[d \ {Max(d)}], params[Max(d)])
    <3>1. CASE d = {}
      BY <1>3, <3>1, Zenon DEF IsFoldTable
    <3>2. CASE d # {}
      <4>1. PICK m \in 1..n : m = Max(d) /\ d \ {m} \in SUBSET (1..n)
        BY <1>4, <3>2, Zenon
      <4>2. PICK v \in [K -> Atom] : v = h[d \ {m}]
        BY <1>3, <4>1, Zenon
      <4>3. h[d] = G[<<m, v>>]
        BY <1>3, <3>2, <4>1, <4>2, Zenon DEF IsFoldTable
      <4>4. h[d] = LookAgain(v, params[m])
        BY <4>3
      <4>5. QED
        BY <3>2, <4>1, <4>2, <4>4, Zenon
    <3>3. QED
      BY <3>1, <3>2
  <2>2. QED
    BY <1>1, <1>3, <2>1, Zenon
<1>6. PICK it : Solves(it) /\ SecondPass(point, params) = it[DOMAIN params]
  <2>1. Solves(CHOOSE it : Solves(it))
    <3> HIDE DEF Solves
    <3>1. QED
      BY <1>5, Zenon
  <2>2. QED
    BY <2>1, Zenon DEF SecondPass, FoldLeft, MapThenFoldSet
<1> DEFINE p == [k \in 0..n |-> it[1..k]]
<1>7. p[0] = point
  <2>1. {} \in SUBSET (1..n) /\ 1..0 = {} /\ 0 \in 0..n
    OBVIOUS
  <2>2. it[{}] = point
    BY <1>1, <1>6, <2>1, Zenon
  <2>3. QED
    BY <2>1, <2>2, Zenon
<1>8. ASSUME NEW k \in 1..n PROVE p[k] = LookAgain(p[k - 1], params[k])
  <2>1. /\ 1..k # {} /\ 1..k \in SUBSET (1..n) /\ Max(1..k) = k
        /\ (1..k) \ {k} = 1..(k - 1)
    BY LastPlace
  <2>2. it[1..k] = LookAgain(it[1..(k - 1)], params[k])
    BY <1>1, <1>6, <2>1, Zenon
  <2>3. k \in 0..n /\ k - 1 \in 0..n
    OBVIOUS
  <2>4. QED
    BY <2>2, <2>3, Zenon
<1> HIDE DEF p
<1>9. \A k \in 0..n : p[k] \in [K -> Atom]
  <2> DEFINE T == {m \in 0..n : p[m] \in [K -> Atom]}
  <2>1. 0 \in T
    <3>1. 0 \in 0..n /\ point \in [K -> Atom]
      OBVIOUS
    <3>2. QED
      BY <1>7, <3>1, Zenon
  <2>2. ASSUME NEW k \in 1..n, k - 1 \in T PROVE k \in T
    <3>1. k \in 0..n
      OBVIOUS
    <3>2. p[k - 1] \in [K -> Atom] /\ params[k] \in Keyed(K)
      BY <1>1, <2>2, Zenon
    <3>3. LookAgain(p[k - 1], params[k]) \in [K -> Atom]
      BY <3>2, LookAgainIs
    <3>4. QED
      BY <1>8, <3>1, <3>3, Zenon
  <2> HIDE DEF T
  <2>3. \A k \in 0..n : k \in T
    BY <2>1, <2>2, InductionTo
  <2>4. QED
    BY <2>3 DEF T
<1>10. p \in [0..n -> [K -> Atom]]
  BY <1>9 DEF p
<1>11. SecondPass(point, params) = p[n]
  BY <1>1, <1>6 DEF p
<1>12. QED
  BY <1>1, <1>7, <1>8, <1>10, <1>11, Zenon DEF IsSecondRun

(* What Direct says of the entries, one place at a time.                   *)
DirectAt(params, F, i) ==
  LET e == params[i] IN
  /\ e \in Filled /\ e.key \in Keys(params)
  /\ IsFormula(e) /\ e.items[1] \in Keys(params) => e.items[1] \in AxisKeys(params)
  /\ e.key \in AxisKeys(params) <=> ~IsFormula(e)
  /\ ~IsFormula(e) => e.items[1] \notin Keys(params)
  /\ F[e.key] = IF IsFormula(e) /\ e.items[1] \in AxisKeys(params)
                THEN F[e.items[1]] ELSE e.items[1]
  /\ F[e.key] \notin Keys(params)

LEMMA DirectPlaces ==
  ASSUME NEW params \in Params, Direct(params), NEW F, IsFirst(F, params)
  PROVE  \A i \in 1..Len(params) : DirectAt(params, F, i)
<1>1. PICK l \in Nat : /\ l = Len(params) /\ params \in Seq(Entry) /\ DOMAIN params = 1..l
                       /\ \A i \in 1..l : params[i] \in Entry
  BY LenProperties, ElementOfSeq DEF Params
<1>2. ToSet(params) = {params[i] : i \in 1..l} /\ Keys(params) = {params[i].key : i \in 1..l}
  BY <1>1 DEF ToSet, Keys
<1>3. /\ ToSet(Axes(params)) = {e \in ToSet(params) : IsAxis(e)}
      /\ ToSet(Formulas(params)) = {e \in ToSet(params) : IsFormula(e)}
  BY AxesAre, FormulasAre
<1>4. AxisKeys(params) = {e.key : e \in {a \in ToSet(params) : IsAxis(a)}}
  BY <1>3 DEF AxisKeys
<1>5. ASSUME NEW i \in 1..l, NEW j \in 1..l, params[i].key = params[j].key PROVE i = j
  BY <1>1, <1>5 DEF Params
<1>6. ASSUME NEW i \in 1..l
      PROVE  params[i].key \in AxisKeys(params) <=> ~IsFormula(params[i])
  <2>1. ASSUME params[i].key \in AxisKeys(params) PROVE IsAxis(params[i])
    <3>1. PICK j \in 1..l : params[j].key = params[i].key /\ IsAxis(params[j])
      BY <1>2, <1>4, <2>1
    <3>2. QED
      BY <1>5, <3>1
  <2>2. QED
    BY <1>2, <1>4, <2>1 DEF IsAxis
<1>7. ASSUME NEW i \in 1..l, ~IsFormula(params[i])
      PROVE  params[i].items # <<>> /\ params[i].items[1] \notin Keys(params)
  <2>1. params[i] \in ToSet(Axes(params))
    BY <1>2, <1>3, <1>7 DEF IsAxis
  <2>2. params[i].items # <<>> /\ ToSet(params[i].items) \cap Keys(params) = {}
    BY <2>1 DEF Direct
  <2>3. PICK items \in Seq(Atom) : items = params[i].items /\ items # <<>>
    BY <1>1, <2>2, EntryIs
  <2>4. Len(items) \in Nat /\ Len(items) >= 1 /\ DOMAIN items = 1..Len(items)
    BY <2>3, LenProperties, EmptySeq
  <2>5. items[1] \in ToSet(items)
    BY <2>4 DEF ToSet
  <2>6. QED
    BY <2>2, <2>3, <2>5
<1>8. ASSUME NEW i \in 1..l, IsFormula(params[i])
      PROVE  /\ params[i].items # <<>>
             /\ params[i].items[1] \in Keys(params) => params[i].items[1] \in AxisKeys(params)
  <2>1. params[i].items # <<>>
    <3>1. PICK items \in Seq(Atom) : items = params[i].items /\ Len(items) = 1
      BY <1>1, <1>8, EntryIs DEF IsFormula
    <3>2. Len(<<>>) = 0 /\ 0 # 1
      OBVIOUS
    <3>3. QED
      BY <3>1, <3>2, Zenon
  <2>2. ASSUME NEW j \in 1..l, params[j].key = params[i].items[1] PROVE ~IsFormula(params[j])
    <3>1. IsFormula(params[j]) => params[j] \in ToSet(Formulas(params))
      BY <1>2, <1>3
    <3>2. params[i] \in ToSet(Formulas(params))
      BY <1>2, <1>3, <1>8
    <3>3. QED
      BY <2>2, <3>1, <3>2 DEF Direct
  <2>3. QED
    BY <1>2, <1>6, <2>1, <2>2
<1>9. ASSUME NEW i \in 1..l
      PROVE  F[params[i].key] = IF IsFormula(params[i]) /\ params[i].items[1] \in AxisKeys(params)
                                THEN F[params[i].items[1]] ELSE params[i].items[1]
  BY <1>2 DEF IsFirst
<1>10. ASSUME NEW y \in AxisKeys(params) PROVE F[y] \notin Keys(params)
  <2>1. PICK j \in 1..l : y = params[j].key /\ ~IsFormula(params[j])
    BY <1>2, <1>4 DEF IsAxis
  <2>2. F[y] = params[j].items[1]
    BY <1>9, <2>1
  <2>3. QED
    BY <1>7, <2>1, <2>2
<1>11. ASSUME NEW i \in 1..l PROVE F[params[i].key] \notin Keys(params)
  BY <1>7, <1>8, <1>9, <1>10
<1>12. \A i \in 1..l : params[i] \in Filled /\ params[i].key \in Keys(params)
  BY <1>1, <1>2, <1>7, <1>8 DEF Filled
<1>13. QED
  BY <1>1, <1>6, <1>7, <1>8, <1>9, <1>11, <1>12 DEF DirectAt

(* After k entries of the first pass a formula may still be unresolved.    *)
AfterFirst(p, F, params, k) ==
  /\ DOMAIN p = KeysTo(params, k)
  /\ \A i \in 1..k : \/ p[params[i].key] = F[params[i].key]
                     \/ IsFormula(params[i]) /\ p[params[i].key] = params[i].items[1]

LEMMA FirstPassStep ==
  ASSUME NEW params \in Params, NEW F, NEW l \in Nat, l = Len(params),
         \A i \in 1..l : DirectAt(params, F, i),
         NEW k \in 1..l, params[k].items[1] \notin Sweep,
         NEW p \in Point, AfterFirst(p, F, params, k - 1)
  PROVE  AfterFirst(TakeFirst(p, params[k]), F, params, k)
<1> DEFINE e == params[k]
           v == IF e.kind # "space" /\ e.items[1] \in DOMAIN p THEN p[e.items[1]] ELSE e.items[1]
           r == TakeFirst(p, e)
<1>1. DirectAt(params, F, k) /\ e \in Filled
  BY DEF DirectAt
<1>2. r = Put(p, e.key, v)
  BY <1>1, TakeFirstIs
<1>3. KeysTo(params, k) = KeysTo(params, k - 1) \cup {e.key} /\ e.key \notin KeysTo(params, k - 1)
  <2>1. 1..k = 1..(k - 1) \cup {k}
    OBVIOUS
  <2>2. ASSUME NEW i \in 1..(k - 1), params[i].key = e.key PROVE FALSE
    <3>1. i \in 1..l /\ i # k
      OBVIOUS
    <3>2. QED
      BY <2>2, <3>1 DEF Params
  <2>3. QED
    BY <2>1, <2>2, Zenon DEF KeysTo
<1>4. DOMAIN p = KeysTo(params, k - 1)
  BY DEF AfterFirst
<1>5. KeysTo(params, k - 1) \subseteq Keys(params)
  <2>1. 1..(k - 1) \subseteq 1..Len(params)
    OBVIOUS
  <2>2. QED
    BY <2>1, Zenon DEF KeysTo, Keys
<1>6. v = F[e.key] \/ (IsFormula(e) /\ v = e.items[1])
  <2>1. CASE ~IsFormula(e)
    <3>1. e.items[1] \notin DOMAIN p /\ F[e.key] = e.items[1]
      BY <1>1, <1>4, <1>5, <2>1 DEF DirectAt
    <3>2. QED
      BY <3>1
  <2>2. CASE IsFormula(e) /\ e.items[1] \in DOMAIN p
    <3>1. PICK i \in 1..(k - 1) : params[i].key = e.items[1]
      BY <1>4, <2>2 DEF KeysTo
    <3>2. i \in 1..l
      OBVIOUS
    <3>3. e.items[1] \in AxisKeys(params) /\ F[e.key] = F[e.items[1]]
      BY <1>1, <1>4, <1>5, <2>2 DEF DirectAt
    <3>4. ~IsFormula(params[i])
      BY <3>1, <3>2, <3>3 DEF DirectAt
    <3>5. p[e.items[1]] = F[e.items[1]]
      BY <3>1, <3>4 DEF AfterFirst
    <3>6. v = p[e.items[1]]
      <4>1. e.kind # "space"
        BY <2>2 DEF IsFormula
      <4>2. QED
        BY <2>2, <4>1, Zenon
    <3> HIDE DEF v
    <3>7. QED
      BY <3>3, <3>5, <3>6, Zenon
  <2>3. CASE IsFormula(e) /\ e.items[1] \notin DOMAIN p
    BY <2>3
  <2>4. QED
    BY <2>1, <2>2, <2>3
<1> HIDE DEF v, r
<1>7. /\ DOMAIN r = KeysTo(params, k) /\ r[e.key] = v
      /\ \A y \in KeysTo(params, k - 1) : r[y] = p[y]
  BY <1>2, <1>3, <1>4 DEF Put
<1>8. ASSUME NEW i \in 1..k
      PROVE  \/ r[params[i].key] = F[params[i].key]
             \/ IsFormula(params[i]) /\ r[params[i].key] = params[i].items[1]
  <2>1. CASE i = k
    BY <1>6, <1>7, <2>1
  <2>2. CASE i # k
    <3>1. i \in 1..(k - 1)
      BY <2>2
    <3>2. r[params[i].key] = p[params[i].key]
      BY <1>7, <3>1 DEF KeysTo
    <3>3. QED
      BY <3>1, <3>2 DEF AfterFirst
  <2>3. QED
    BY <2>1, <2>2
<1>9. QED
  BY <1>7, <1>8 DEF AfterFirst, r

(* After k entries of the second pass only later ones may be.              *)
AfterSecond(p, F, params, k) ==
  /\ p \in [Keys(params) -> Atom]
  /\ \A i \in 1..Len(params) :
       \/ p[params[i].key] = F[params[i].key]
       \/ k < i /\ IsFormula(params[i]) /\ p[params[i].key] = params[i].items[1]

LEMMA SecondPassStep ==
  ASSUME NEW params \in Params, NEW F, NEW l \in Nat, l = Len(params),
         \A i \in 1..l : DirectAt(params, F, i), Keys(params) \in SUBSET Text,
         NEW k \in 1..l, NEW p, AfterSecond(p, F, params, k - 1)
  PROVE  AfterSecond(LookAgain(p, params[k]), F, params, k)
<1> DEFINE e == params[k]
           K == Keys(params)
           r == LookAgain(p, e)
<1>1. DirectAt(params, F, k) /\ e \in Keyed(K) /\ p \in [K -> Atom]
  BY DEF DirectAt, AfterSecond, Filled, Keyed
<1>2. /\ r \in [K -> Atom]
      /\ \A y \in K : r[y] = IF y # e.key THEN p[y]
                             ELSE IF p[e.key] \in K THEN p[p[e.key]] ELSE p[e.key]
  BY <1>1, LookAgainIs
<1> HIDE DEF r
<1>3. r[e.key] = F[e.key]
  <2>1. r[e.key] = IF p[e.key] \in K THEN p[p[e.key]] ELSE p[e.key]
    BY <1>1, <1>2 DEF DirectAt
  <2>2. CASE p[e.key] = F[e.key]
    BY <1>1, <2>1, <2>2 DEF DirectAt
  <2>3. CASE IsFormula(e) /\ p[e.key] = e.items[1] /\ e.items[1] \in K
    <3>1. e.items[1] \in AxisKeys(params) /\ F[e.key] = F[e.items[1]]
      BY <1>1, <2>3 DEF DirectAt
    <3>2. PICK i \in 1..l : params[i].key = e.items[1]
      BY <2>3 DEF Keys
    <3>3. ~IsFormula(params[i])
      BY <3>1, <3>2 DEF DirectAt
    <3>4. p[e.items[1]] = F[e.items[1]]
      BY <3>2, <3>3 DEF AfterSecond
    <3>5. QED
      BY <2>1, <2>3, <3>1, <3>4
  <2>4. CASE IsFormula(e) /\ p[e.key] = e.items[1] /\ e.items[1] \notin K
    <3>1. e.items[1] \notin AxisKeys(params)
      <4>1. ToSet(Axes(params)) \subseteq ToSet(params)
        BY AxesAre
      <4>2. ToSet(params) = {params[i] : i \in 1..l}
        BY LenProperties DEF Params, ToSet
      <4>3. QED
        BY <2>4, <4>1, <4>2 DEF AxisKeys, Keys
    <3>2. F[e.key] = e.items[1]
      BY <1>1, <3>1 DEF DirectAt
    <3>3. QED
      BY <2>1, <2>4, <3>2
  <2>5. QED
    BY <2>2, <2>3, <2>4 DEF AfterSecond
<1>4. ASSUME NEW i \in 1..l
      PROVE  \/ r[params[i].key] = F[params[i].key]
             \/ k < i /\ IsFormula(params[i]) /\ r[params[i].key] = params[i].items[1]
  <2>1. CASE i = k
    BY <1>3, <2>1
  <2>2. CASE i # k
    <3>1. params[i].key # e.key
      BY <2>2 DEF Params
    <3>2. params[i].key \in K
      BY DEF Keys
    <3>3. r[params[i].key] = p[params[i].key]
      BY <1>2, <3>1, <3>2
    <3>4. \/ p[params[i].key] = F[params[i].key]
          \/ k - 1 < i /\ IsFormula(params[i]) /\ p[params[i].key] = params[i].items[1]
      BY DEF AfterSecond
    <3>5. QED
      BY <2>2, <3>3, <3>4
  <2>3. QED
    BY <2>1, <2>2
<1>5. QED
  BY <1>2, <1>4 DEF AfterSecond, r


(* Params that are Flat have no sweep in the first place of an entry.      *)
LEMMA FlatPlaces ==
  ASSUME NEW params \in Params, Direct(params), Flat(params)
  PROVE  \A i \in 1..Len(params) : params[i].items[1] \notin Sweep
<1> SUFFICES ASSUME NEW i \in 1..Len(params) PROVE params[i].items[1] \notin Sweep
  OBVIOUS
<1>1. PICK l \in Nat : /\ l = Len(params) /\ params \in Seq(Entry) /\ DOMAIN params = 1..l
                       /\ \A m \in 1..l : params[m] \in Entry
  BY LenProperties, ElementOfSeq DEF Params
<1>2. params[i] \in ToSet(params)
  BY <1>1 DEF ToSet
<1>3. CASE IsFormula(params[i])
  <2>1. params[i].items[1] \in Text
    BY <1>1, <1>3 DEF Entry, IsFormula
  <2>2. QED
    BY <2>1, AtomAssumption
<1>4. CASE ~IsFormula(params[i])
  <2>1. params[i] \in ToSet(Axes(params))
    BY <1>2, <1>4, AxesAre DEF IsAxis
  <2>2. params[i].items # <<>> /\ ToSet(params[i].items) \cap Sweep = {}
    BY <2>1 DEF Direct, Flat
  <2>3. PICK items \in Seq(Atom) : items = params[i].items /\ items # <<>>
    BY <1>1, <2>2, EntryIs
  <2>4. Len(items) \in Nat /\ Len(items) >= 1 /\ DOMAIN items = 1..Len(items)
    BY <2>3, LenProperties, EmptySeq
  <2>5. items[1] \in ToSet(items)
    BY <2>4 DEF ToSet
  <2>6. QED
    BY <2>2, <2>3, <2>5
<1>5. QED
  BY <1>3, <1>4

(* The two loops agree on the first point.                                 *)
LEMMA FirstPointIs ==
  ASSUME NEW params \in Params, Direct(params), Flat(params)
  PROVE  FirstPoint(params) = ExpandParams(params)[1]
<1> DEFINE F == ExpandParams(params)[1]
           K == Keys(params)
<1>1. IsFirst(F, params)
  BY ExpansionFirst
<1> HIDE DEF F
<1>2. PICK l \in Nat : /\ l = Len(params) /\ params \in Seq(Entry) /\ DOMAIN params = 1..l
                       /\ \A i \in 1..l : params[i] \in Entry
  BY LenProperties, ElementOfSeq DEF Params
<1>3. \A i \in 1..l : DirectAt(params, F, i)
  BY <1>1, <1>2, DirectPlaces
<1>4. K \in SUBSET Text /\ K = KeysTo(params, l)
  BY <1>2, EntryIs DEF Keys, KeysTo
<1>5. params \in Seq(Filled) /\ params \in Seq(Keyed(K))
  <2>1. \A i \in 1..l : params[i] \in Filled /\ params[i] \in Keyed(K)
    BY <1>3 DEF DirectAt, Filled, Keyed
  <2>2. params \in [1..l -> Filled] /\ params \in [1..l -> Keyed(K)]
    BY <1>2, <2>1
  <2>3. QED
    BY <2>2, SeqDef
<1>6. PICK p : IsFirstRun(p, params)
  BY <1>5, FirstSteps
<1> DEFINE T == {k \in 0..l : AfterFirst(p[k], F, params, k)}
<1>7. 0 \in T
  <2>1. 0 \in 0..l /\ 1..0 = {} /\ KeysTo(params, 0) = {}
    BY DEF KeysTo
  <2>2. p[0] = EmptyPoint
    BY <1>6, Zenon DEF IsFirstRun
  <2>3. QED
    BY <2>1, <2>2, EmptyPointIs, Zenon DEF AfterFirst
<1>8. ASSUME NEW k \in 1..l, k - 1 \in T PROVE k \in T
  <2>1. k \in 0..l /\ k - 1 \in 0..l
    OBVIOUS
  <2>2. p[k - 1] \in Point /\ p[k] = TakeFirst(p[k - 1], params[k])
    BY <1>2, <1>6, <2>1, Zenon DEF IsFirstRun
  <2>3. AfterFirst(p[k - 1], F, params, k - 1)
    BY <1>8
  <2>4. params[k].items[1] \notin Sweep
    BY <1>2, FlatPlaces
  <2>5. AfterFirst(TakeFirst(p[k - 1], params[k]), F, params, k)
    BY <1>2, <1>3, <2>2, <2>3, <2>4, FirstPassStep
  <2>6. QED
    BY <2>1, <2>2, <2>5, Zenon
<1> HIDE DEF T
<1>9. \A k \in 0..l : k \in T
  BY <1>7, <1>8, InductionTo
<1>10. l \in 0..l /\ 0 \in 0..l
  OBVIOUS
<1>11. p[l] \in Point /\ AfterFirst(p[l], F, params, l) /\ FirstPass(params) = p[l]
  <2>1. AfterFirst(p[l], F, params, l)
    BY <1>9, <1>10 DEF T
  <2>2. p[l] \in Point /\ FirstPass(params) = p[l]
    BY <1>2, <1>6, <1>10, Zenon DEF IsFirstRun
  <2>3. QED
    BY <2>1, <2>2
<1>12. PICK point \in [K -> Atom] : point = FirstPass(params) /\ AfterSecond(point, F, params, 0)
  <2>1. PICK point \in Point : point = FirstPass(params) /\ AfterFirst(point, F, params, l)
    BY <1>11
  <2>2. point \in [K -> Atom]
    BY <1>4, <2>1 DEF Point, AfterFirst
  <2>3. AfterSecond(point, F, params, 0)
    BY <1>2, <2>1, <2>2 DEF AfterFirst, AfterSecond
  <2>4. QED
    BY <2>1, <2>2, <2>3
<1>13. PICK q : IsSecondRun(q, K, point, params)
  BY <1>4, <1>5, SecondSteps
<1> DEFINE U == {k \in 0..l : AfterSecond(q[k], F, params, k)}
<1>14. 0 \in U
  BY <1>10, <1>12, <1>13, Zenon DEF IsSecondRun
<1>15. ASSUME NEW k \in 1..l, k - 1 \in U PROVE k \in U
  <2>1. k \in 0..l
    OBVIOUS
  <2>2. q[k] = LookAgain(q[k - 1], params[k])
    BY <1>2, <1>13, Zenon DEF IsSecondRun
  <2>3. AfterSecond(q[k - 1], F, params, k - 1)
    BY <1>15
  <2>4. AfterSecond(LookAgain(q[k - 1], params[k]), F, params, k)
    BY <1>2, <1>3, <1>4, <2>3, SecondPassStep
  <2>5. QED
    BY <2>1, <2>2, <2>4, Zenon
<1> HIDE DEF U
<1>16. \A k \in 0..l : k \in U
  BY <1>14, <1>15, InductionTo
<1>17. AfterSecond(q[l], F, params, l)
  BY <1>10, <1>16 DEF U
<1>18. q[l] = F
  <2>1. q[l] \in [K -> Atom] /\ F \in [K -> Atom]
    BY <1>1, <1>17 DEF AfterSecond, IsFirst
  <2>2. \A i \in 1..l : q[l][params[i].key] = F[params[i].key]
    BY <1>2, <1>17 DEF AfterSecond
  <2>3. \A y \in K : q[l][y] = F[y]
    BY <1>2, <2>2 DEF Keys
  <2>4. QED
    BY <2>1, <2>3
<1>19. FirstPoint(params) = SecondPass(FirstPass(params), params)
  BY Zenon DEF FirstPoint, SecondPass, FirstPass
<1>20. SecondPass(point, params) = q[l]
  BY <1>2, <1>13, Zenon DEF IsSecondRun
<1>21. QED
  BY <1>12, <1>18, <1>19, <1>20, Zenon DEF F

(* validate_compatibility builds the adapters with the first of the        *)
(* experiment's points: _first and _expand_params, two loops that resolve  *)
(* references in different orders, agree wherever no reference goes        *)
(* through another one or sits in a list, and no sweep sits in a list.     *)
THEOREM FirstPointFirst == Spec => []FirstPointIsFirstJob
<1>1. ASSUME SubmissionInv, NEW i \in 1..Len(experiments), NEW a \in Swept,
             Direct(experiments[i][a]), Flat(experiments[i][a])
      PROVE  FirstPoint(experiments[i][a]) = ExpandParams(experiments[i][a])[1]
  <2>1. experiments[i] \in Config
    BY <1>1, ElementOfSeq DEF SubmissionInv, RowsWellFormed
  <2>2. experiments[i][a] \in Params
    BY <2>1, ConfigIs DEF Swept
  <2>3. QED
    BY <1>1, <2>2, FirstPointIs
<1>2. SubmissionInv => FirstPointIsFirstJob
  BY <1>1, Zenon DEF FirstPointIsFirstJob
<1>3. QED
  BY <1>2, SubmissionInvariant, PTL


-----------------------------------------------------------------------------
(* The order of the keys                                                   *)

(* As dicts, params are the set of their entries.                          *)
LEMMA SameEntries ==
  ASSUME NEW params \in Params, NEW other \in Params, AsDict(params) = AsDict(other)
  PROVE  ToSet(params) \subseteq ToSet(other)
<1>1. PICK l \in Nat : /\ l = Len(params) /\ params \in Seq(Entry) /\ DOMAIN params = 1..l
                       /\ \A i \in 1..l : params[i] \in Entry
  BY LenProperties, ElementOfSeq DEF Params
<1>2. PICK m \in Nat : /\ m = Len(other) /\ other \in Seq(Entry) /\ DOMAIN other = 1..m
                       /\ \A i \in 1..m : other[i] \in Entry
  BY LenProperties, ElementOfSeq DEF Params
<1>3. ToSet(params) = {params[i] : i \in 1..l} /\ ToSet(other) = {other[i] : i \in 1..m}
  BY <1>1, <1>2 DEF ToSet
<1>4. Keys(params) = Keys(other)
  BY DEF AsDict
<1>5. ASSUME NEW e \in ToSet(params) PROVE e \in ToSet(other)
  <2>1. PICK i \in 1..l : e = params[i]
    BY <1>3
  <2>2. e.key \in Keys(params)
    BY <1>1, <2>1 DEF Keys
  <2> DEFINE d == CHOOSE x \in ToSet(params) : x.key = e.key
             c == CHOOSE x \in ToSet(other) : x.key = e.key
  <2>3. d = e
    <3>1. d \in ToSet(params) /\ d.key = e.key
      OBVIOUS
    <3>2. PICK j \in 1..l : d = params[j]
      BY <1>3, <3>1
    <3>3. j = i
      BY <1>1, <2>1, <3>1, <3>2 DEF Params
    <3>4. QED
      BY <2>1, <3>2, <3>3
  <2>4. c \in ToSet(other) /\ c.key = e.key
    <3>1. PICK j \in 1..m : e.key = other[j].key
      BY <1>2, <1>4, <2>2 DEF Keys
    <3>2. \E x \in ToSet(other) : x.key = e.key
      BY <1>3, <3>1
    <3>3. QED
      BY <3>2
  <2>5. AsDict(params)[e.key] = [kind |-> d.kind, items |-> d.items]
    BY <2>2, Zenon DEF AsDict
  <2>6. AsDict(other)[e.key] = [kind |-> c.kind, items |-> c.items]
    BY <1>4, <2>2, Zenon DEF AsDict
  <2> HIDE DEF d, c
  <2>7. c.kind = e.kind /\ c.items = e.items
    BY <2>3, <2>5, <2>6
  <2>8. c \in Entry /\ e \in Entry
    BY <1>1, <1>2, <1>3, <2>4
  <2>9. \A x \in Entry : x = [key |-> x.key, kind |-> x.kind, items |-> x.items]
    BY DEF Entry
  <2>10. c = e
    BY <2>4, <2>7, <2>8, <2>9
  <2>11. QED
    BY <2>4, <2>10
<1>6. QED
  BY <1>5

LEMMA SameDict ==
  ASSUME NEW params \in Params, NEW other \in Params, AsDict(params) = AsDict(other)
  PROVE  ToSet(params) = ToSet(other)
<1>1. ToSet(params) \subseteq ToSet(other)
  BY SameEntries
<1>2. ToSet(other) \subseteq ToSet(params)
  BY SameEntries
<1>3. QED
  BY <1>1, <1>2

(* What the reference says of Direct params, without a place.              *)
AxesIn(E) == {e \in E : IsAxis(e)}

IsDirectPoint(p, E) ==
  /\ p \in [{e.key : e \in E} -> UNION {ToSet(e.items) : e \in E}]
  /\ \A e \in E :
       IF IsAxis(e) THEN p[e.key] \in ToSet(e.items)
       ELSE p[e.key] = IF e.items[1] \in {a.key : a \in AxesIn(E)}
                       THEN p[e.items[1]] ELSE e.items[1]

IsDirectSet(E) ==
  /\ \A e \in AxesIn(E) : e.items # <<>> /\ ToSet(e.items) \cap {a.key : a \in E} = {}
  /\ \A e, f \in {a \in E : IsFormula(a)} : e.items[1] # f.key

LEMMA DirectIs ==
  ASSUME NEW params \in Params
  PROVE  /\ Keys(params) = {e.key : e \in ToSet(params)}
         /\ Atoms(params) = UNION {ToSet(e.items) : e \in ToSet(params)}
         /\ AxisKeys(params) = {e.key : e \in AxesIn(ToSet(params))}
         /\ Direct(params) <=> IsDirectSet(ToSet(params))
<1>1. PICK l \in Nat : l = Len(params) /\ params \in Seq(Entry) /\ DOMAIN params = 1..l
  BY LenProperties DEF Params
<1>2. ToSet(params) = {params[i] : i \in 1..l}
  BY <1>1 DEF ToSet
<1>3. /\ ToSet(Axes(params)) = AxesIn(ToSet(params))
      /\ ToSet(Formulas(params)) = {e \in ToSet(params) : IsFormula(e)}
  BY AxesAre, FormulasAre DEF AxesIn
<1>4. Keys(params) = {e.key : e \in ToSet(params)}
  BY <1>1, <1>2 DEF Keys
<1>5. Atoms(params) = UNION {ToSet(e.items) : e \in ToSet(params)}
  BY <1>1, <1>2 DEF Atoms
<1>6. AxisKeys(params) = {e.key : e \in AxesIn(ToSet(params))}
  BY <1>3, Zenon DEF AxisKeys
<1>7. Direct(params) <=> IsDirectSet(ToSet(params))
  BY <1>3, <1>4, Zenon DEF Direct, IsDirectSet
<1>8. QED
  BY <1>4, <1>5, <1>6, <1>7

LEMMA DirectPoints ==
  ASSUME NEW params \in Params, Direct(params), NEW p
  PROVE  p \in ReferencePoints(params) <=> IsDirectPoint(p, ToSet(params))
<1>1. PICK l \in Nat : l = Len(params) /\ params \in Seq(Entry) /\ DOMAIN params = 1..l
  BY LenProperties DEF Params
<1>2. ToSet(params) = {params[i] : i \in 1..l}
  BY <1>1 DEF ToSet
<1>3. /\ Keys(params) = {e.key : e \in ToSet(params)}
      /\ Atoms(params) = UNION {ToSet(e.items) : e \in ToSet(params)}
      /\ AxisKeys(params) = {e.key : e \in AxesIn(ToSet(params))}
  BY DirectIs
<1>4. ASSUME NEW i \in 1..l, ~IsAxis(params[i])
      PROVE  params[i].items[1] \in Visible(params, i) <=> params[i].items[1] \in AxisKeys(params)
  <2>1. PICK F : IsFirst(F, params)
    BY ExpansionFirst
  <2>2. \A j \in 1..l : DirectAt(params, F, j)
    BY <1>1, <2>1, DirectPlaces
  <2>3. IsFormula(params[i])
    BY <1>4 DEF IsAxis
  <2>4. Visible(params, i) \subseteq AxisKeys(params) \cup Keys(params)
    <3>1. 1..(i - 1) \subseteq 1..l
      OBVIOUS
    <3>2. QED
      BY <1>1, <3>1, Zenon DEF Visible, Keys
  <2>5. AxisKeys(params) \subseteq Visible(params, i)
    BY DEF Visible
  <2>6. QED
    BY <2>2, <2>3, <2>4, <2>5 DEF DirectAt
<1>5. p \in ReferencePoints(params) <=>
        /\ p \in [Keys(params) -> Atoms(params)]
        /\ \A i \in 1..l :
             IF IsAxis(params[i]) THEN p[params[i].key] \in ToSet(params[i].items)
             ELSE p[params[i].key] = IF params[i].items[1] \in AxisKeys(params)
                                     THEN p[params[i].items[1]] ELSE params[i].items[1]
  BY <1>1, <1>4 DEF ReferencePoints
<1>6. (\A i \in 1..l :
         IF IsAxis(params[i]) THEN p[params[i].key] \in ToSet(params[i].items)
         ELSE p[params[i].key] = IF params[i].items[1] \in AxisKeys(params)
                                 THEN p[params[i].items[1]] ELSE params[i].items[1]) <=>
      (\A e \in ToSet(params) :
         IF IsAxis(e) THEN p[e.key] \in ToSet(e.items)
         ELSE p[e.key] = IF e.items[1] \in AxisKeys(params) THEN p[e.items[1]] ELSE e.items[1])
  BY <1>2
<1>7. QED
  BY <1>3, <1>5, <1>6 DEF IsDirectPoint

(* Params that are the same dict, in whatever order, stand for the same    *)
(* points.                                                                 *)
LEMMA SamePoints ==
  ASSUME NEW params \in Params, NEW other \in Params, AsDict(params) = AsDict(other),
         Direct(params)
  PROVE  ReferencePoints(other) = ReferencePoints(params) /\ ReferencePoints(params) # {}
<1>1. ToSet(params) = ToSet(other)
  BY SameDict
<1>2. Direct(other)
  BY <1>1, DirectIs
<1>3. \A p : p \in ReferencePoints(other) <=> p \in ReferencePoints(params)
  BY <1>1, <1>2, DirectPoints
<1>4. QED
  BY <1>3, ExpansionFirst

(* A request that is answered with an existing experiment gets the jobs    *)
(* its own config stands for: the hash of the config's dicts is enough,    *)
(* whatever order their keys are in, and that order changes the points     *)
(* only of params with a chain of formulas.                                *)
THEOREM ExistingEquivalent == Spec => []ExistingIsEquivalent
<1>1. ASSUME SubmissionInv, NEW r \in Client, request[r] = "existing",
             \A a \in Swept : Direct(config[r][a])
      PROVE  \E i \in 1..Len(experiments) :
               {JobPoint(k) : k \in JobsOf(i)} = ToSet(ExpandJobs(config[r]))
  <2>1. PICK c \in Config : c = config[r]
    BY <1>1 DEF SubmissionInv, RowsWellFormed
  <2>2. PICK i \in 1..Len(experiments) : Hash(experiments[i]) = Hash(c)
    BY <1>1, <2>1 DEF SubmissionInv, ExistingIsKnown, Known
  <2>3. PICK e \in Config : e = experiments[i]
    BY <1>1, ElementOfSeq DEF SubmissionInv, RowsWellFormed
  <2>4. /\ c.circuit \in Params /\ c.noise \in Params /\ c.decoder \in Params
        /\ DOMAIN c = {"circuit", "noise", "runner", "decoder"}
    BY ConfigIs
  <2>5. /\ e.circuit \in Params /\ e.noise \in Params /\ e.decoder \in Params
        /\ DOMAIN e = {"circuit", "noise", "runner", "decoder"}
    BY ConfigIs
  <2>6. /\ AsDict(c.circuit) = AsDict(e.circuit)
        /\ AsDict(c.noise) = AsDict(e.noise)
        /\ AsDict(c.decoder) = AsDict(e.decoder)
    <3>1. ASSUME NEW a \in {"circuit", "noise", "decoder"} PROVE AsDict(c[a]) = AsDict(e[a])
      <4>1. a \in DOMAIN c /\ a \in DOMAIN e
        BY <2>4, <2>5
      <4>2. Hash(c)[a] = AsDict(c[a]) /\ Hash(e)[a] = AsDict(e[a])
        BY <4>1, Zenon DEF Hash
      <4>3. QED
        BY <2>2, <2>3, <4>2, Zenon
    <3>2. QED
      BY <3>1
  <2>7. Direct(c.circuit) /\ Direct(c.noise) /\ Direct(c.decoder)
    BY <1>1, <2>1 DEF Swept
  <2>8. /\ ReferencePoints(e.circuit) = ReferencePoints(c.circuit)
        /\ ReferencePoints(c.circuit) # {}
    BY <2>4, <2>5, <2>6, <2>7, SamePoints
  <2>9. /\ ReferencePoints(e.noise) = ReferencePoints(c.noise)
        /\ ReferencePoints(c.noise) # {}
    BY <2>4, <2>5, <2>6, <2>7, SamePoints
  <2>10. /\ ReferencePoints(e.decoder) = ReferencePoints(c.decoder)
         /\ ReferencePoints(c.decoder) # {}
    BY <2>4, <2>5, <2>6, <2>7, SamePoints
  <2>11. Sound(c) /\ Sound(e)
    BY <2>8, <2>9, <2>10 DEF Sound, Swept
  <2>12. ToSet(ExpandJobs(e)) = ToSet(ExpandJobs(c))
    <3>1. ToSet(ExpandJobs(e)) = [circuit : ReferencePoints(e.circuit),
                                  noise : ReferencePoints(e.noise),
                                  decoder : ReferencePoints(e.decoder)]
      BY <2>11, ExpandJobsSet
    <3>2. ToSet(ExpandJobs(c)) = [circuit : ReferencePoints(c.circuit),
                                  noise : ReferencePoints(c.noise),
                                  decoder : ReferencePoints(c.decoder)]
      BY <2>11, ExpandJobsSet
    <3>3. QED
      BY <2>8, <2>9, <2>10, <3>1, <3>2, Zenon
  <2>13. AreRowsOf(i, e)
    BY <1>1, <2>3, RowsOfExperiment
  <2>14. QED
    BY <2>1, <2>12, <2>13, Zenon DEF AreRowsOf
<1>2. SubmissionInv => ExistingIsEquivalent
  BY <1>1, Zenon DEF ExistingIsEquivalent
<1>3. QED
  BY <1>2, SubmissionInvariant, PTL

=============================================================================
