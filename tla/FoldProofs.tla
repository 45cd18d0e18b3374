----------------------------- MODULE FoldProofs -----------------------------
(***************************************************************************)
(* Lemmas about natural numbers, sets of integers and folds.               *)
(*                                                                         *)
(* FoldLeft is a recursive function on the sets of places of a sequence,   *)
(* chosen to satisfy its own equation: before anything can be said of a    *)
(* fold, such a function must be known to exist (FoldTable).  A proof      *)
(* about one fold then goes by induction over the prefixes of the          *)
(* sequence, stated with the set of the numbers the claim holds for.       *)
(***************************************************************************)
EXTENDS Lists, TLAPS, WellFoundedInduction, SequenceTheorems

(* A set of natural numbers has a least member.                            *)
LEMMA Least ==
  ASSUME NEW T \in SUBSET Nat, T # {}
  PROVE  \E m \in T : \A n \in T : m <= n
<1> DEFINE R == OpToRel(<, Nat)
<1>1. IsWellFoundedOn(R, Nat)
  BY NatLessThanWellFounded
<1> HIDE DEF R
<1>2. PICK m \in T : \A n \in T : ~(<<n, m>> \in R)
  BY <1>1, WFMin
<1>3. \A n \in T : ~(n < m)
  BY <1>2 DEF R, OpToRel
<1>4. QED
  BY <1>2, <1>3

(* Induction over the natural numbers, for a set.                          *)
LEMMA Induction ==
  ASSUME NEW T \in SUBSET Nat, 0 \in T, \A n \in T : n + 1 \in T
  PROVE  T = Nat
<1> SUFFICES ASSUME Nat \ T # {} PROVE FALSE
  OBVIOUS
<1>1. PICK m \in Nat \ T : \A n \in Nat \ T : m <= n
  BY Least
<1>2. m - 1 \in Nat
  BY <1>1
<1>3. QED
  BY <1>1, <1>2

(* Induction up to a number.                                               *)
LEMMA InductionTo ==
  ASSUME NEW n \in Nat, NEW T, 0 \in T, \A k \in 1..n : k - 1 \in T => k \in T
  PROVE  \A k \in 0..n : k \in T
<1> DEFINE U == {k \in Nat : k <= n => k \in T}
<1>1. \A k \in U : k + 1 \in U
  OBVIOUS
<1>2. 0 \in U
  OBVIOUS
<1> HIDE DEF U
<1>3. U = Nat
  BY <1>1, <1>2, Induction DEF U
<1>4. QED
  BY <1>3 DEF U

(* The greatest member of a set that has one.                              *)
LEMMA MaxIs ==
  ASSUME NEW S \in SUBSET Int, NEW m \in S, \A n \in S : n <= m
  PROVE  Max(S) = m
<1>1. \A x \in S : m >= x
  OBVIOUS
<1>2. PICK y \in S : y = Max(S) /\ \A x \in S : y >= x
  BY <1>1, Zenon DEF Max
<1>3. y = m
  BY <1>1, <1>2
<1>4. QED
  BY <1>2, <1>3

LEMMA MinIs ==
  ASSUME NEW S \in SUBSET Int, NEW m \in S, \A n \in S : m <= n
  PROVE  Min(S) = m
<1>1. PICK y \in S : y = Min(S) /\ \A x \in S : y <= x
  BY Zenon DEF Min
<1>2. y = m
  BY <1>1
<1>3. QED
  BY <1>1, <1>2

(* A set of places has a greatest one.                                     *)
LEMMA MaxOf ==
  ASSUME NEW n \in Nat, NEW S \in SUBSET (1..n), S # {}
  PROVE  Max(S) \in S /\ \A m \in S : m <= Max(S)
<1> DEFINE T == {n - m : m \in S}
<1>1. T \in SUBSET Nat
  OBVIOUS
<1>2. T # {}
  <2>1. PICK m \in S : TRUE
    OBVIOUS
  <2>2. n - m \in T
    OBVIOUS
  <2>3. QED
    BY <2>2
<1>3. PICK t \in T : \A u \in T : t <= u
  BY <1>1, <1>2, Least
<1>4. PICK m \in S : t = n - m
  BY <1>3
<1>5. \A k \in S : k <= m
  BY <1>3, <1>4
<1>6. Max(S) = m
  <2>1. S \in SUBSET Int
    OBVIOUS
  <2>2. QED
    BY <1>5, <2>1, MaxIs, Zenon
<1>7. QED
  BY <1>5, <1>6

(* The last place of a prefix, and the rest of it.                         *)
LEMMA LastPlace ==
  ASSUME NEW n \in Nat, NEW k \in 1..n
  PROVE  /\ 1..k # {} /\ 1..k \in SUBSET (1..n)
         /\ Max(1..k) = k
         /\ (1..k) \ {k} = 1..(k - 1)
<1>1. Max(1..k) = k
  <2>1. k \in 1..k /\ \A m \in 1..k : m <= k
    OBVIOUS
  <2>2. 1..k \in SUBSET Int
    OBVIOUS
  <2>3. QED
    BY <2>1, <2>2, MaxIs, Zenon
<1>2. QED
  BY <1>1

(* h is the table a fold of G reads its result in: h[d] is the fold over   *)
(* the places d, the greatest of which comes last.                         *)
IsFoldTable(h, n, b, G) ==
  \A d \in SUBSET (1..n) :
    h[d] = IF d = {} THEN b ELSE G[<<Max(d), h[d \ {Max(d)}]>>]

(* The equation of a fold has a solution, whatever set V its steps stay    *)
(* in.                                                                     *)
LEMMA FoldTable ==
  ASSUME NEW n \in Nat, NEW V, NEW b \in V, NEW G \in [(1..n) \X V -> V]
  PROVE  \E h \in [SUBSET (1..n) -> V] : IsFoldTable(h, n, b, G)
<1> DEFINE Solves(h, k) == IsFoldTable(h, k, b, G)
           T == {k \in 0..n : \E h \in [SUBSET (1..n) -> V] : Solves(h, k)}
<1>1. 0 \in T
  <2> DEFINE h == [d \in SUBSET (1..n) |-> b]
  <2>1. h \in [SUBSET (1..n) -> V] /\ Solves(h, 0)
    BY 1..0 = {} DEF IsFoldTable
  <2>2. 0 \in 0..n
    OBVIOUS
  <2>3. QED
    BY <2>1, <2>2, Zenon
<1>2. ASSUME NEW k \in 1..n, k - 1 \in T PROVE k \in T
  <2>1. PICK h \in [SUBSET (1..n) -> V] : Solves(h, k - 1)
    BY <1>2
  <2> DEFINE g == [d \in SUBSET (1..n) |->
                     IF k \in d THEN G[<<k, h[d \ {k}]>>] ELSE h[d]]
  <2>2. g \in [SUBSET (1..n) -> V]
    OBVIOUS
  <2>3. ASSUME NEW d \in SUBSET (1..k)
        PROVE  g[d] = IF d = {} THEN b ELSE G[<<Max(d), g[d \ {Max(d)}]>>]
    <3>1. CASE k \in d
      <4>1. Max(d) = k
        BY <3>1, MaxIs
      <4>2. g[d \ {k}] = h[d \ {k}]
        BY <2>3
      <4>3. QED
        BY <3>1, <4>1, <4>2
    <3>2. CASE k \notin d
      <4>1. d \in SUBSET (1..(k - 1)) /\ d \in SUBSET (1..n)
        BY <3>2
      <4>2. h[d] = IF d = {} THEN b ELSE G[<<Max(d), h[d \ {Max(d)}]>>]
        BY <2>1, <4>1 DEF IsFoldTable
      <4>3. g[d] = h[d] /\ g[d \ {Max(d)}] = h[d \ {Max(d)}]
        BY <3>2, <4>1
      <4>4. QED
        BY <4>2, <4>3
    <3>3. QED
      BY <3>1, <3>2
  <2>4. k \in 0..n
    OBVIOUS
  <2> HIDE DEF g
  <2>5. Solves(g, k)
    BY <2>3, Zenon DEF IsFoldTable
  <2> HIDE DEF Solves
  <2>6. QED
    BY <2>2, <2>4, <2>5, Zenon
<1> HIDE DEF T
<1>3. n \in T
  BY <1>1, <1>2, InductionTo
<1>4. QED
  BY <1>3 DEF T

(* p is the function on 0..n that starts with b and goes on with G.        *)
IsRecursion(p, n, b, G) == p[0] = b /\ \A k \in 1..n : p[k] = G[<<k, p[k - 1]>>]

(* A recursive function on 0..n exists.                                    *)
LEMMA RecursionTable ==
  ASSUME NEW n \in Nat, NEW V, NEW b \in V, NEW G \in [(1..n) \X V -> V]
  PROVE  \E p \in [0..n -> V] : IsRecursion(p, n, b, G)
<1>1. PICK h \in [SUBSET (1..n) -> V] : IsFoldTable(h, n, b, G)
  BY FoldTable, Zenon
<1> DEFINE p == [k \in 0..n |-> h[1..k]]
<1>2. p \in [0..n -> V]
  OBVIOUS
<1>3. p[0] = b
  <2>1. {} \in SUBSET (1..n) /\ 1..0 = {} /\ 0 \in 0..n
    OBVIOUS
  <2>2. h[{}] = b
    BY <1>1, <2>1, Zenon DEF IsFoldTable
  <2>3. QED
    BY <2>1, <2>2, Zenon
<1>4. ASSUME NEW k \in 1..n PROVE p[k] = G[<<k, p[k - 1]>>]
  <2>1. h[1..k] = G[<<Max(1..k), h[(1..k) \ {Max(1..k)}]>>]
    BY <1>1, LastPlace, Zenon DEF IsFoldTable
  <2>2. h[1..k] = G[<<k, h[1..(k - 1)]>>]
    BY <2>1, LastPlace, Zenon
  <2>3. k \in 0..n /\ k - 1 \in 0..n
    OBVIOUS
  <2>4. QED
    BY <2>2, <2>3, Zenon
<1> HIDE DEF p
<1>5. QED
  BY <1>2, <1>3, <1>4, Zenon DEF IsRecursion

(* Keep, one member of the list at a time: p[k] is what is kept of the     *)
(* first k.                                                                *)
IsKeepRun(p, X, s, S) ==
  /\ p \in [0..Len(s) -> Seq(X)]
  /\ p[0] = <<>>
  /\ \A k \in 1..Len(s) : s[k] \in S => p[k] = Append(p[k - 1], s[k])
  /\ \A k \in 1..Len(s) : s[k] \notin S => p[k] = p[k - 1]
  /\ Keep(s, S) = p[Len(s)]

LEMMA KeepSteps ==
  ASSUME NEW X, NEW s \in Seq(X), NEW S
  PROVE  \E p : IsKeepRun(p, X, s, S)
<1> DEFINE n == Len(s)
           Solves(it) == it = [d \in SUBSET (DOMAIN s) |->
             IF d = {} THEN <<>>
             ELSE IF s[Max(d)] \in S
                  THEN Append(it[d \ {Max(d)}], s[Max(d)]) ELSE it[d \ {Max(d)}]]
           G == [e \in (1..n) \X Seq(X) |->
                   IF s[e[1]] \in S THEN Append(e[2], s[e[1]]) ELSE e[2]]
<1>1. n \in Nat /\ DOMAIN s = 1..n /\ \A k \in 1..n : s[k] \in X
  BY LenProperties, ElementOfSeq
<1>2. G \in [(1..n) \X Seq(X) -> Seq(X)]
  <2>1. ASSUME NEW e \in (1..n) \X Seq(X)
        PROVE  (IF s[e[1]] \in S THEN Append(e[2], s[e[1]]) ELSE e[2]) \in Seq(X)
    BY <1>1, AppendProperties
  <2>2. QED
    BY <2>1
<1>3. PICK h \in [SUBSET (1..n) -> Seq(X)] : IsFoldTable(h, n, <<>>, G)
  <2>1. <<>> \in Seq(X)
    BY EmptySeq
  <2> HIDE DEF n, G
  <2>2. QED
    BY <1>1, <1>2, <2>1, FoldTable, Zenon
<1>4. ASSUME NEW d \in SUBSET (1..n), d # {}
      PROVE  Max(d) \in 1..n /\ d \ {Max(d)} \in SUBSET (1..n)
  BY <1>1, <1>4, MaxOf
<1>5. Solves(h)
  <2>1. ASSUME NEW d \in SUBSET (1..n)
        PROVE  h[d] = IF d = {} THEN <<>>
                      ELSE IF s[Max(d)] \in S
                           THEN Append(h[d \ {Max(d)}], s[Max(d)]) ELSE h[d \ {Max(d)}]
    <3>1. CASE d = {}
      BY <1>3, <3>1, Zenon DEF IsFoldTable
    <3>2. CASE d # {}
      <4>1. PICK m \in 1..n : m = Max(d) /\ d \ {m} \in SUBSET (1..n)
        BY <1>4, <3>2, Zenon
      <4>2. PICK v \in Seq(X) : v = h[d \ {m}]
        BY <1>3, <4>1, Zenon
      <4>3. h[d] = G[<<m, v>>]
        BY <1>3, <3>2, <4>1, <4>2, Zenon DEF IsFoldTable
      <4>4. h[d] = IF s[m] \in S THEN Append(v, s[m]) ELSE v
        BY <4>3
      <4>5. QED
        BY <3>2, <4>1, <4>2, <4>4, Zenon
    <3>3. QED
      BY <3>1, <3>2
  <2>2. QED
    BY <1>1, <1>3, <2>1, Zenon
<1>6. PICK it : Solves(it) /\ Keep(s, S) = it[DOMAIN s]
  <2>1. Solves(CHOOSE it : Solves(it))
    <3> HIDE DEF Solves
    <3>1. QED
      BY <1>5, Zenon
  <2>2. QED
    BY <2>1, Zenon DEF Keep, FoldLeft, MapThenFoldSet
<1> DEFINE p == [k \in 0..n |-> it[1..k]]
<1>7. p[0] = <<>>
  <2>1. {} \in SUBSET (1..n) /\ 1..0 = {} /\ 0 \in 0..n
    BY <1>1
  <2>2. it[{}] = <<>>
    BY <1>1, <1>6, <2>1, Zenon
  <2>3. QED
    BY <2>1, <2>2, Zenon
<1>8. ASSUME NEW k \in 1..n
      PROVE  p[k] = IF s[k] \in S THEN Append(p[k - 1], s[k]) ELSE p[k - 1]
  <2>1. /\ 1..k # {} /\ 1..k \in SUBSET (1..n) /\ Max(1..k) = k
        /\ (1..k) \ {k} = 1..(k - 1)
    BY <1>1, LastPlace
  <2>2. it[1..k] = IF s[k] \in S THEN Append(it[1..(k - 1)], s[k]) ELSE it[1..(k - 1)]
    BY <1>1, <1>6, <2>1, Zenon
  <2>3. k \in 0..n /\ k - 1 \in 0..n
    BY <1>1
  <2>4. QED
    BY <2>2, <2>3, Zenon
<1> HIDE DEF p
<1>9. \A k \in 0..n : k \in {m \in 0..n : p[m] \in Seq(X)}
  <2> DEFINE T == {m \in 0..n : p[m] \in Seq(X)}
  <2>1. 0 \in T
    <3>1. 0 \in 0..n /\ <<>> \in Seq(X)
      BY <1>1, EmptySeq
    <3>2. QED
      BY <1>7, <3>1, Zenon
  <2>2. ASSUME NEW k \in 1..n, k - 1 \in T PROVE k \in T
    <3>1. k \in 0..n
      BY <1>1
    <3>2. p[k - 1] \in Seq(X) /\ s[k] \in X
      BY <1>1, <2>2, Zenon
    <3>3. Append(p[k - 1], s[k]) \in Seq(X)
      BY <3>2, AppendProperties
    <3>4. QED
      BY <1>8, <3>1, <3>2, <3>3, Zenon
  <2> HIDE DEF T
  <2>3. \A k \in 0..n : k \in T
    BY <1>1, <2>1, <2>2, InductionTo
  <2>4. QED
    BY <2>3 DEF T
<1>10. p \in [0..n -> Seq(X)]
  BY <1>9 DEF p
<1>11. Keep(s, S) = p[n]
  BY <1>1, <1>6 DEF p
<1>12. QED
  BY <1>7, <1>8, <1>10, <1>11, Zenon DEF IsKeepRun

(* Appending to a list adds one member.                                    *)
LEMMA AppendSet ==
  ASSUME NEW X, NEW q \in Seq(X), NEW x \in X
  PROVE  ToSet(Append(q, x)) = ToSet(q) \cup {x}
<1>1. /\ Append(q, x) \in Seq(X) /\ Len(Append(q, x)) = Len(q) + 1
      /\ \A i \in 1..Len(q) : Append(q, x)[i] = q[i]
      /\ Append(q, x)[Len(q) + 1] = x
  BY AppendProperties
<1>2. /\ DOMAIN q = 1..Len(q) /\ Len(q) \in Nat
      /\ DOMAIN Append(q, x) = 1..(Len(q) + 1)
  BY <1>1, LenProperties
<1>3. \A i : i \in 1..(Len(q) + 1) <=> i \in 1..Len(q) \/ i = Len(q) + 1
  BY <1>2
<1>4. QED
  BY <1>1, <1>2, <1>3 DEF ToSet

(* Keep keeps what is in the set and nothing else.                         *)
LEMMA KeepSet ==
  ASSUME NEW X, NEW s \in Seq(X), NEW S
  PROVE  Keep(s, S) \in Seq(X) /\ ToSet(Keep(s, S)) = ToSet(s) \cap S
<1>1. PICK n \in Nat : n = Len(s) /\ DOMAIN s = 1..n /\ \A k \in 1..n : s[k] \in X
  BY LenProperties, ElementOfSeq
<1>2. PICK p : IsKeepRun(p, X, s, S)
  BY KeepSteps
<1> DEFINE T == {k \in 0..n : ToSet(p[k]) = {s[i] : i \in 1..k} \cap S}
<1>3. 0 \in T
  <2>1. ToSet(<<>>) = {}
    BY DEF ToSet
  <2>2. 1..0 = {} /\ 0 \in 0..n
    BY <1>1
  <2>3. QED
    BY <1>2, <2>1, <2>2 DEF IsKeepRun
<1>4. ASSUME NEW k \in 1..n, k - 1 \in T PROVE k \in T
  <2>1. k \in 0..n /\ k - 1 \in 0..n
    OBVIOUS
  <2>2. k \in 0..n /\ k - 1 \in 0..n /\ s[k] \in X /\ p[k - 1] \in Seq(X)
    BY <1>1, <1>2, <2>1 DEF IsKeepRun
  <2>3. {s[i] : i \in 1..k} = {s[i] : i \in 1..(k - 1)} \cup {s[k]}
    <3>1. \A i : i \in 1..k <=> i \in 1..(k - 1) \/ i = k
      BY <1>1
    <3>2. QED
      BY <3>1
  <2>4. ToSet(p[k - 1]) = {s[i] : i \in 1..(k - 1)} \cap S
    BY <1>4
  <2>5. ToSet(Append(p[k - 1], s[k])) = ToSet(p[k - 1]) \cup {s[k]}
    BY <2>2, AppendSet
  <2>6. ToSet(p[k]) = {s[i] : i \in 1..k} \cap S
    BY <1>1, <1>2, <2>3, <2>4, <2>5 DEF IsKeepRun
  <2>7. QED
    BY <2>2, <2>6
<1> HIDE DEF T
<1>5. n \in T
  <2>1. \A k \in 0..n : k \in T
    BY <1>3, <1>4, InductionTo
  <2>2. QED
    BY <2>1
<1>6. Keep(s, S) = p[n] /\ Keep(s, S) \in Seq(X)
  BY <1>1, <1>2 DEF IsKeepRun
<1>7. ToSet(p[n]) = {s[i] : i \in 1..n} \cap S
  BY <1>5 DEF T
<1>8. ToSet(s) = {s[i] : i \in 1..n}
  BY <1>1, Zenon DEF ToSet
<1>9. QED
  BY <1>6, <1>7, <1>8

(* f gives the places of the list s in the list t.                         *)
ArePlaces(f, s, t) ==
  /\ f \in [1..Len(s) -> 1..Len(t)]
  /\ \A i \in 1..Len(s) : s[i] = t[f[i]]
  /\ \A i, j \in 1..Len(s) : i < j => f[i] < f[j]

(* What is kept stays in order: it sits at increasing places of the list.  *)
LEMMA KeepPlaces ==
  ASSUME NEW X, NEW s \in Seq(X), NEW S
  PROVE  \E f \in [1..Len(Keep(s, S)) -> 1..Len(s)] :
           /\ \A i \in 1..Len(Keep(s, S)) : Keep(s, S)[i] = s[f[i]]
           /\ \A i, j \in 1..Len(Keep(s, S)) : i < j => f[i] < f[j]
<1>1. PICK n \in Nat : n = Len(s) /\ DOMAIN s = 1..n /\ \A k \in 1..n : s[k] \in X
  BY LenProperties, ElementOfSeq
<1>2. PICK p : IsKeepRun(p, X, s, S)
  BY KeepSteps
<1> DEFINE Places(q, k, f) ==
             /\ f \in [1..Len(q) -> 1..k]
             /\ \A i \in 1..Len(q) : q[i] = s[f[i]]
             /\ \A i, j \in 1..Len(q) : i < j => f[i] < f[j]
           T == {k \in 0..n : \E f : Places(p[k], k, f)}
<1>3. 0 \in T
  <2>1. Len(p[0]) = 0 /\ 0 \in 0..n
    BY <1>1, <1>2, EmptySeq DEF IsKeepRun
  <2>2. Places(p[0], 0, [i \in 1..0 |-> 0])
    BY <2>1
  <2>3. QED
    BY <2>1, <2>2
<1>4. ASSUME NEW k \in 1..n, k - 1 \in T PROVE k \in T
  <2>1. k \in 0..n /\ k - 1 \in 0..n
    OBVIOUS
  <2>2. k \in 0..n /\ k - 1 \in 0..n /\ s[k] \in X /\ p[k - 1] \in Seq(X)
    BY <1>1, <1>2, <2>1 DEF IsKeepRun
  <2>3. PICK f : Places(p[k - 1], k - 1, f)
    BY <1>4
  <2>4. Len(p[k - 1]) \in Nat
    BY <2>2, LenProperties
  <2>5. CASE s[k] \in S
    <3> DEFINE q == Append(p[k - 1], s[k])
               m == Len(p[k - 1])
               g == [i \in 1..(m + 1) |-> IF i = m + 1 THEN k ELSE f[i]]
    <3>1. Len(q) = m + 1 /\ (\A i \in 1..m : q[i] = p[k - 1][i]) /\ q[m + 1] = s[k]
      BY <2>2, AppendProperties
    <3>2. p[k] = q
      BY <1>1, <1>2, <2>5 DEF IsKeepRun
    <3> HIDE DEF q
    <3>3. g \in [1..Len(q) -> 1..k]
      BY <2>3, <2>4, <3>1
    <3>4. \A j \in 1..Len(q) : q[j] = s[g[j]]
      BY <2>3, <2>4, <3>1
    <3> HIDE DEF m
    <3>5. m \in Nat /\ m = Len(p[k - 1])
      BY <2>4 DEF m
    <3>6. /\ \A l \in 1..m : g[l] = f[l] /\ f[l] \in 1..(k - 1)
          /\ \A j, l \in 1..m : j < l => f[j] < f[l]
          /\ g[m + 1] = k
      <4>1. f \in [1..m -> 1..(k - 1)] /\ \A j, l \in 1..m : j < l => f[j] < f[l]
        BY <2>3, <3>5
      <4>2. g[m + 1] = k /\ \A l \in 1..m : g[l] = f[l]
        BY <3>5
      <4>3. QED
        BY <4>1, <4>2
    <3>7. ASSUME NEW j \in 1..(m + 1), NEW l \in 1..(m + 1), j < l PROVE g[j] < g[l]
      <4> HIDE DEF g
      <4>1. CASE l = m + 1
        BY <3>5, <3>6, <3>7, <4>1
      <4>2. CASE l \in 1..m
        <5>1. j \in 1..m
          BY <3>5, <3>7, <4>2
        <5>2. QED
          BY <3>6, <3>7, <4>2, <5>1
      <4>3. QED
        BY <3>5, <4>1, <4>2
    <3>8. \A j, l \in 1..Len(q) : j < l => g[j] < g[l]
      BY <3>1, <3>7
    <3>9. QED
      BY <2>2, <3>2, <3>3, <3>4, <3>8
  <2>6. CASE s[k] \notin S
    <3>1. p[k] = p[k - 1]
      BY <1>1, <1>2, <2>6 DEF IsKeepRun
    <3>2. Places(p[k - 1], k, f)
      BY <2>3, <2>4
    <3>3. QED
      BY <2>2, <3>1, <3>2
  <2>7. QED
    BY <2>5, <2>6
<1> HIDE DEF T
<1>5. n \in T
  <2>1. \A k \in 0..n : k \in T
    BY <1>3, <1>4, InductionTo
  <2>2. QED
    BY <2>1
<1>6. QED
  BY <1>1, <1>2, <1>5 DEF T, IsKeepRun

(* AppendNew, one member of xs at a time.                                  *)
IsAppendRun(p, X, list, xs) ==
  /\ p \in [0..Len(xs) -> Seq(X)]
  /\ p[0] = list
  /\ \A k \in 1..Len(xs) :
       p[k] = IF Contains(p[k - 1], xs[k]) THEN p[k - 1] ELSE Append(p[k - 1], xs[k])
  /\ AppendNew(list, xs) = p[Len(xs)]

LEMMA AppendNewSteps ==
  ASSUME NEW X, NEW list \in Seq(X), NEW xs \in Seq(X)
  PROVE  \E p : IsAppendRun(p, X, list, xs)
<1>1. PICK n \in Nat : n = Len(xs) /\ DOMAIN xs = 1..n /\ \A k \in 1..n : xs[k] \in X
  BY LenProperties, ElementOfSeq
<1> DEFINE Solves(it) == it = [d \in SUBSET (DOMAIN xs) |->
             IF d = {} THEN list
             ELSE IF Contains(it[d \ {Max(d)}], xs[Max(d)])
                  THEN it[d \ {Max(d)}] ELSE Append(it[d \ {Max(d)}], xs[Max(d)])]
           G == [e \in (1..n) \X Seq(X) |->
                   IF Contains(e[2], xs[e[1]]) THEN e[2] ELSE Append(e[2], xs[e[1]])]
<1>2. G \in [(1..n) \X Seq(X) -> Seq(X)]
  <2>1. ASSUME NEW e \in (1..n) \X Seq(X)
        PROVE  (IF Contains(e[2], xs[e[1]]) THEN e[2] ELSE Append(e[2], xs[e[1]]))
                 \in Seq(X)
    <3>1. e[2] \in Seq(X) /\ xs[e[1]] \in X
      BY <1>1
    <3>2. Append(e[2], xs[e[1]]) \in Seq(X)
      BY <3>1, AppendProperties
    <3>3. QED
      BY <3>1, <3>2, Zenon
  <2>2. QED
    BY <2>1
<1>3. PICK h \in [SUBSET (1..n) -> Seq(X)] : IsFoldTable(h, n, list, G)
  <2> HIDE DEF G
  <2>1. QED
    BY <1>2, FoldTable, Zenon
<1>4. ASSUME NEW d \in SUBSET (1..n), d # {}
      PROVE  Max(d) \in 1..n /\ d \ {Max(d)} \in SUBSET (1..n)
  BY <1>4, MaxOf
<1>5. Solves(h)
  <2>1. ASSUME NEW d \in SUBSET (1..n)
        PROVE  h[d] = IF d = {} THEN list
                      ELSE IF Contains(h[d \ {Max(d)}], xs[Max(d)])
                           THEN h[d \ {Max(d)}] ELSE Append(h[d \ {Max(d)}], xs[Max(d)])
    <3>1. CASE d = {}
      BY <1>3, <3>1, Zenon DEF IsFoldTable
    <3>2. CASE d # {}
      <4>1. PICK m \in 1..n : m = Max(d) /\ d \ {m} \in SUBSET (1..n)
        BY <1>4, <3>2, Zenon
      <4>2. PICK v \in Seq(X) : v = h[d \ {m}]
        BY <1>3, <4>1, Zenon
      <4>3. h[d] = G[<<m, v>>]
        BY <1>3, <3>2, <4>1, <4>2, Zenon DEF IsFoldTable
      <4>4. h[d] = IF Contains(v, xs[m]) THEN v ELSE Append(v, xs[m])
        BY <4>3
      <4>5. QED
        BY <3>2, <4>1, <4>2, <4>4, Zenon
    <3>3. QED
      BY <3>1, <3>2
  <2>2. QED
    BY <1>1, <1>3, <2>1, Zenon
<1>6. PICK it : Solves(it) /\ AppendNew(list, xs) = it[DOMAIN xs]
  <2>1. Solves(CHOOSE it : Solves(it))
    <3> HIDE DEF Solves
    <3>1. QED
      BY <1>5, Zenon
  <2>2. QED
    BY <2>1, Zenon DEF AppendNew, FoldLeft, MapThenFoldSet
<1> DEFINE p == [k \in 0..n |-> it[1..k]]
<1>7. p[0] = list
  <2>1. {} \in SUBSET (1..n) /\ 1..0 = {} /\ 0 \in 0..n
    OBVIOUS
  <2>2. it[{}] = list
    BY <1>1, <1>6, <2>1, Zenon
  <2>3. QED
    BY <2>1, <2>2, Zenon
<1>8. ASSUME NEW k \in 1..n
      PROVE  p[k] = IF Contains(p[k - 1], xs[k]) THEN p[k - 1] ELSE Append(p[k - 1], xs[k])
  <2>1. /\ 1..k # {} /\ 1..k \in SUBSET (1..n) /\ Max(1..k) = k
        /\ (1..k) \ {k} = 1..(k - 1)
    BY LastPlace
  <2>2. it[1..k] = IF Contains(it[1..(k - 1)], xs[k])
                   THEN it[1..(k - 1)] ELSE Append(it[1..(k - 1)], xs[k])
    BY <1>1, <1>6, <2>1, Zenon
  <2>3. k \in 0..n /\ k - 1 \in 0..n
    OBVIOUS
  <2>4. QED
    BY <2>2, <2>3, Zenon
<1> HIDE DEF p
<1>9. \A k \in 0..n : p[k] \in Seq(X)
  <2> DEFINE T == {m \in 0..n : p[m] \in Seq(X)}
  <2>1. 0 \in T
    <3>1. 0 \in 0..n
      OBVIOUS
    <3>2. QED
      BY <1>7, <3>1, Zenon
  <2>2. ASSUME NEW k \in 1..n, k - 1 \in T PROVE k \in T
    <3>1. k \in 0..n
      OBVIOUS
    <3>2. p[k - 1] \in Seq(X) /\ xs[k] \in X
      BY <1>1, <2>2, Zenon
    <3>3. Append(p[k - 1], xs[k]) \in Seq(X)
      BY <3>2, AppendProperties
    <3>4. QED
      BY <1>8, <3>1, <3>2, <3>3, Zenon
  <2> HIDE DEF T
  <2>3. \A k \in 0..n : k \in T
    BY <2>1, <2>2, InductionTo
  <2>4. QED
    BY <2>3 DEF T
<1>10. p \in [0..n -> Seq(X)]
  BY <1>9 DEF p
<1>11. AppendNew(list, xs) = p[n]
  BY <1>1, <1>6 DEF p
<1>12. QED
  BY <1>1, <1>7, <1>8, <1>10, <1>11, Zenon DEF IsAppendRun

(* Nothing is twice in s.                                                  *)
IsDistinct(s) == \A i, j \in 1..Len(s) : s[i] = s[j] => i = j

(* r is the list a, then members of xs among the first k, all of which it  *)
(* holds, and nothing twice that was not twice in a.                       *)
IsExtension(r, a, xs, k) ==
  /\ Len(r) >= Len(a)
  /\ \A i \in 1..Len(a) : r[i] = a[i]
  /\ \A i \in 1..Len(r) : i > Len(a) => \E m \in 1..k : r[i] = xs[m]
  /\ \A m \in 1..k : \E i \in 1..Len(r) : r[i] = xs[m]
  /\ IsDistinct(a) => IsDistinct(r)

(* One more member, which is there already or is appended.                 *)
LEMMA ExtensionStep ==
  ASSUME NEW X, NEW r \in Seq(X), NEW a \in Seq(X), NEW xs \in Seq(X),
         NEW k \in Nat, k + 1 \in 1..Len(xs), IsExtension(r, a, xs, k)
  PROVE  IsExtension(IF Contains(r, xs[k + 1]) THEN r ELSE Append(r, xs[k + 1]),
                     a, xs, k + 1)
<1>1. PICK n \in Nat : n = Len(r)
  BY LenProperties
<1>2. PICK l \in Nat : l = Len(a)
  BY LenProperties
<1>3. PICK x \in X : x = xs[k + 1]
  BY ElementOfSeq
<1>4. n >= l
  BY <1>1, <1>2 DEF IsExtension
<1>5. CASE Contains(r, x)
  <2>1. \A i \in 1..n : i > l => \E m \in 1..(k + 1) : r[i] = xs[m]
    BY <1>1, <1>2 DEF IsExtension
  <2>2. \A m \in 1..(k + 1) : m \in 1..k \/ m = k + 1
    OBVIOUS
  <2>3. \A m \in 1..(k + 1) : \E i \in 1..n : r[i] = xs[m]
    BY <1>1, <1>3, <1>5, <2>2 DEF IsExtension, Contains
  <2>4. IsExtension(r, a, xs, k + 1)
    BY <1>1, <1>2, <2>1, <2>3 DEF IsExtension
  <2>5. QED
    BY <1>3, <1>5, <2>4
<1>6. CASE ~Contains(r, x)
  <2>1. PICK q : q = Append(r, x)
    OBVIOUS
  <2>2. /\ q \in Seq(X) /\ Len(q) = n + 1
        /\ \A i \in 1..n : q[i] = r[i]
        /\ q[n + 1] = x
    BY <1>1, <2>1, AppendProperties
  <2>3. \A i \in 1..(n + 1) : i \in 1..n \/ i = n + 1
    BY <1>1
  <2>4. \A i \in 1..n : r[i] # x
    BY <1>1, <1>6 DEF Contains
  <2>5. Len(q) >= l /\ \A i \in 1..l : q[i] = a[i]
    BY <1>1, <1>2, <1>4, <2>2 DEF IsExtension
  <2>6. ASSUME NEW i \in 1..(n + 1), i > l PROVE \E m \in 1..(k + 1) : q[i] = xs[m]
    <3>1. CASE i \in 1..n
      <4>1. PICK m \in 1..k : r[i] = xs[m]
        BY <1>1, <1>2, <2>6, <3>1 DEF IsExtension
      <4>2. m \in 1..(k + 1) /\ q[i] = xs[m]
        BY <2>2, <3>1, <4>1
      <4>3. QED
        BY <4>2
    <3>2. CASE i = n + 1
      <4>1. q[i] = xs[k + 1]
        BY <1>3, <2>2, <3>2, Zenon
      <4>2. k + 1 \in 1..(k + 1)
        OBVIOUS
      <4>3. QED
        BY <4>1, <4>2, Zenon
    <3>3. QED
      BY <2>3, <3>1, <3>2
  <2>7. ASSUME NEW m \in 1..(k + 1) PROVE \E i \in 1..(n + 1) : q[i] = xs[m]
    <3>1. CASE m \in 1..k
      <4>1. PICK i \in 1..n : r[i] = xs[m]
        BY <1>1, <3>1 DEF IsExtension
      <4>2. i \in 1..(n + 1) /\ q[i] = xs[m]
        BY <2>2, <4>1
      <4>3. QED
        BY <4>2
    <3>2. CASE m = k + 1
      BY <1>1, <1>3, <2>2, <3>2
    <3>3. QED
      BY <3>1, <3>2
  <2>8. IsDistinct(r) => \A i, j \in 1..(n + 1) : q[i] = q[j] => i = j
    BY <1>1, <2>2, <2>3, <2>4 DEF IsDistinct
  <2>9. IsExtension(q, a, xs, k + 1)
    BY <1>2, <2>2, <2>5, <2>6, <2>7, <2>8 DEF IsExtension, IsDistinct
  <2>10. QED
    BY <1>3, <1>6, <2>1, <2>9
<1>7. QED
  BY <1>5, <1>6

(* What AppendNew makes of two lists.                                      *)
LEMMA AppendNewIs ==
  ASSUME NEW X, NEW list \in Seq(X), NEW xs \in Seq(X)
  PROVE  /\ AppendNew(list, xs) \in Seq(X)
         /\ IsExtension(AppendNew(list, xs), list, xs, Len(xs))
<1>1. PICK n \in Nat : n = Len(xs)
  BY LenProperties
<1>2. PICK p : IsAppendRun(p, X, list, xs)
  BY AppendNewSteps
<1> DEFINE T == {k \in 0..n : IsExtension(p[k], list, xs, k)}
<1>3. 0 \in T
  <2>1. IsExtension(list, list, xs, 0)
    <3>1. Len(list) \in Nat
      BY LenProperties
    <3>2. QED
      BY <3>1 DEF IsExtension
  <2>2. QED
    BY <1>1, <1>2, <2>1 DEF IsAppendRun
<1>4. ASSUME NEW k \in 1..n, k - 1 \in T PROVE k \in T
  <2>1. PICK m \in Nat : m = k - 1 /\ k = m + 1 /\ m + 1 \in 1..n /\ m \in 0..n /\ k \in 0..n
    OBVIOUS
  <2>2. p[m] \in Seq(X) /\ IsExtension(p[m], list, xs, m)
    BY <1>1, <1>2, <1>4, <2>1 DEF IsAppendRun
  <2>3. IsExtension(IF Contains(p[m], xs[m + 1]) THEN p[m] ELSE Append(p[m], xs[m + 1]),
                    list, xs, m + 1)
    BY <1>1, <2>1, <2>2, ExtensionStep
  <2>4. p[k] = IF Contains(p[m], xs[m + 1]) THEN p[m] ELSE Append(p[m], xs[m + 1])
    BY <1>1, <1>2, <2>1 DEF IsAppendRun
  <2>5. QED
    BY <2>1, <2>3, <2>4
<1> HIDE DEF T
<1>5. n \in T
  <2>1. \A k \in 0..n : k \in T
    BY <1>3, <1>4, InductionTo
  <2>2. QED
    BY <2>1
<1>6. QED
  BY <1>1, <1>2, <1>5 DEF T, IsAppendRun

(* FlattenSeq, one list at a time: p[k] joins the first k of ss.            *)
IsFlattenRun(p, X, ss) ==
  /\ p \in [0..Len(ss) -> Seq(X)]
  /\ p[0] = <<>>
  /\ \A k \in 1..Len(ss) : p[k] = p[k - 1] \o ss[k]
  /\ FlattenSeq(ss) = p[Len(ss)]

LEMMA FlattenSteps ==
  ASSUME NEW X, NEW ss \in Seq(Seq(X))
  PROVE  \E p : IsFlattenRun(p, X, ss)
<1>1. PICK n \in Nat : n = Len(ss) /\ DOMAIN ss = 1..n /\ \A k \in 1..n : ss[k] \in Seq(X)
  BY LenProperties, ElementOfSeq
<1>2. <<>> \in Seq(X)
  BY EmptySeq
<1> DEFINE G == [e \in (1..n) \X Seq(X) |-> e[2] \o ss[e[1]]]
           Solves(f) == f = [i \in 1..Len(ss) |-> IF i = 1 THEN ss[i] ELSE f[i - 1] \o ss[i]]
<1>3. G \in [(1..n) \X Seq(X) -> Seq(X)]
  BY <1>1, ConcatProperties
<1>4. PICK p \in [0..n -> Seq(X)] : IsRecursion(p, n, <<>>, G)
  <2> HIDE DEF G
  <2>1. QED
    BY <1>2, <1>3, RecursionTable, Zenon
<1>5. ASSUME NEW k \in 1..n
      PROVE  p[k] = p[k - 1] \o ss[k] /\ p[k - 1] \in Seq(X) /\ ss[k] \in Seq(X)
  <2>1. k - 1 \in 0..n
    OBVIOUS
  <2>2. p[k - 1] \in Seq(X) /\ ss[k] \in Seq(X)
    BY <1>1, <2>1, Zenon
  <2>3. QED
    BY <1>4, <2>2 DEF IsRecursion
<1>6. 1 \in 1..n => p[1] = ss[1]
  <2>1. ASSUME 1 \in 1..n PROVE p[1] = ss[1]
    <3>1. p[1] = p[0] \o ss[1] /\ ss[1] \in Seq(X)
      <4>1. 1 - 1 = 0
        OBVIOUS
      <4>2. QED
        BY <1>5, <2>1, <4>1, Zenon
    <3>2. <<>> \o ss[1] = ss[1]
      BY <3>1, ConcatEmptySeq
    <3>3. QED
      BY <1>4, <3>1, <3>2, Zenon DEF IsRecursion
  <2>2. QED
    BY <2>1
<1>7. CASE n = 0
  <2>1. FlattenSeq(ss) = ss
    BY <1>1, <1>7, Zenon DEF FlattenSeq
  <2>2. ss = <<>>
    BY <1>1, <1>7, EmptySeq
  <2>3. QED
    BY <1>1, <1>4, <1>5, <1>7, <2>1, <2>2, Zenon DEF IsFlattenRun, IsRecursion
<1>8. CASE n # 0
  <2>1. n \in 1..n
    BY <1>8
  <2> DEFINE f == [i \in 1..n |-> p[i]]
  <2>2. ASSUME NEW i \in 1..n
        PROVE  f[i] = IF i = 1 THEN ss[i] ELSE f[i - 1] \o ss[i]
    <3>1. CASE i = 1
      <4>1. p[1] = ss[1]
        BY <1>6, <3>1
      <4>2. QED
        BY <3>1, <4>1
    <3>2. CASE i # 1
      <4>1. i - 1 \in 1..n
        BY <3>2
      <4>2. QED
        BY <1>5, <3>2, <4>1
    <3>3. QED
      BY <3>1, <3>2
  <2>3. Solves(f)
    BY <1>1, <2>2, Zenon
  <2> HIDE DEF f
  <2>4. PICK g : Solves(g) /\ FlattenSeq(ss) = g[Len(ss)]
    <3>1. Solves(CHOOSE g : Solves(g))
      <4> HIDE DEF Solves
      <4>1. QED
        BY <2>3, Zenon
    <3>2. QED
      BY <1>1, <1>8, <3>1, Zenon DEF FlattenSeq
  <2> DEFINE T == {k \in 0..n : k \in 1..n => g[k] = p[k]}
  <2>5. 0 \in T
    OBVIOUS
  <2>6. ASSUME NEW k \in 1..n, k - 1 \in T PROVE k \in T
    <3>1. g[k] = IF k = 1 THEN ss[k] ELSE g[k - 1] \o ss[k]
      BY <1>1, <2>4, Zenon
    <3>2. CASE k = 1
      <4>1. k \in 0..n /\ p[1] = ss[1]
        BY <1>6, <3>2
      <4>2. QED
        BY <3>1, <3>2, <4>1
    <3>3. CASE k # 1
      <4>1. k - 1 \in 1..n /\ k \in 0..n
        BY <3>3
      <4>2. g[k - 1] = p[k - 1]
        BY <2>6, <4>1
      <4>3. QED
        BY <1>5, <3>1, <3>3, <4>1, <4>2
    <3>4. QED
      BY <3>2, <3>3
  <2> HIDE DEF T
  <2>7. n \in T
    <3>1. \A k \in 0..n : k \in T
      BY <2>5, <2>6, InductionTo
    <3>2. QED
      BY <3>1
  <2>8. FlattenSeq(ss) = p[n]
    BY <1>1, <2>1, <2>4, <2>7 DEF T
  <2>9. QED
    BY <1>1, <1>4, <1>5, <2>8, Zenon DEF IsFlattenRun, IsRecursion
<1>9. QED
  BY <1>7, <1>8

(* Joining two lists joins their sets.                                     *)
LEMMA ConcatSet ==
  ASSUME NEW X, NEW q \in Seq(X), NEW r \in Seq(X)
  PROVE  ToSet(q \o r) = ToSet(q) \cup ToSet(r)
<1>1. PICK n \in Nat, m \in Nat : n = Len(q) /\ m = Len(r)
  BY LenProperties
<1>2. PICK s \in Seq(X) : s = q \o r
  BY ConcatProperties
<1>3. DOMAIN q = 1..n /\ DOMAIN r = 1..m /\ DOMAIN s = 1..(n + m)
  BY <1>1, <1>2, LenProperties, ConcatProperties
<1>4. \A i \in 1..(n + m) : s[i] = IF i <= n THEN q[i] ELSE r[i - n]
  BY <1>1, <1>2, ConcatProperties
<1>5. ASSUME NEW i \in 1..(n + m) PROVE s[i] \in ToSet(q) \cup ToSet(r)
  <2>1. CASE i <= n
    <3>1. i \in 1..n /\ s[i] = q[i]
      BY <1>4, <2>1
    <3>2. QED
      BY <1>3, <3>1 DEF ToSet
  <2>2. CASE i > n
    <3>1. i - n \in 1..m /\ s[i] = r[i - n]
      BY <1>4, <2>2
    <3>2. QED
      BY <1>3, <3>1 DEF ToSet
  <2>3. QED
    BY <2>1, <2>2
<1>6. ASSUME NEW i \in 1..n PROVE q[i] \in ToSet(s)
  <2>1. i \in 1..(n + m) /\ s[i] = q[i]
    BY <1>4
  <2>2. QED
    BY <1>3, <2>1 DEF ToSet
<1>7. ASSUME NEW i \in 1..m PROVE r[i] \in ToSet(s)
  <2>1. i + n \in 1..(n + m) /\ s[i + n] = r[(i + n) - n] /\ (i + n) - n = i
    BY <1>4
  <2>2. QED
    BY <1>3, <2>1 DEF ToSet
<1>8. ToSet(s) \subseteq ToSet(q) \cup ToSet(r)
  BY <1>3, <1>5 DEF ToSet
<1>9. ToSet(q) \subseteq ToSet(s) /\ ToSet(r) \subseteq ToSet(s)
  BY <1>3, <1>6, <1>7 DEF ToSet
<1>10. QED
  BY <1>2, <1>8, <1>9

(* Joining lists joins their sets.                                         *)
IsUnion(r, ss) == ToSet(r) = UNION {ToSet(ss[i]) : i \in 1..Len(ss)}

LEMMA FlattenIsUnion ==
  ASSUME NEW X, NEW ss \in Seq(Seq(X))
  PROVE  FlattenSeq(ss) \in Seq(X) /\ IsUnion(FlattenSeq(ss), ss)
<1>1. PICK n \in Nat : n = Len(ss) /\ \A k \in 1..n : ss[k] \in Seq(X)
  BY LenProperties, ElementOfSeq
<1>2. PICK p : IsFlattenRun(p, X, ss)
  BY FlattenSteps
<1> DEFINE T == {k \in 0..n : ToSet(p[k]) = UNION {ToSet(ss[i]) : i \in 1..k}}
<1>3. 0 \in T
  <2>1. ToSet(<<>>) = {}
    BY DEF ToSet
  <2>2. 1..0 = {} /\ 0 \in 0..n
    BY <1>1
  <2>3. QED
    BY <1>2, <2>1, <2>2 DEF IsFlattenRun
<1>4. ASSUME NEW k \in 1..n, k - 1 \in T PROVE k \in T
  <2>1. k \in 0..n /\ k - 1 \in 0..n
    OBVIOUS
  <2>2. p[k - 1] \in Seq(X) /\ ss[k] \in Seq(X) /\ p[k] = p[k - 1] \o ss[k]
    BY <1>1, <1>2, <2>1, Zenon DEF IsFlattenRun
  <2>3. ToSet(p[k]) = ToSet(p[k - 1]) \cup ToSet(ss[k])
    BY <2>2, ConcatSet
  <2>4. \A i : i \in 1..k <=> i \in 1..(k - 1) \/ i = k
    OBVIOUS
  <2>5. UNION {ToSet(ss[i]) : i \in 1..k} =
          (UNION {ToSet(ss[i]) : i \in 1..(k - 1)}) \cup ToSet(ss[k])
    BY <2>4
  <2>6. QED
    BY <1>4, <2>1, <2>3, <2>5
<1> HIDE DEF T
<1>5. n \in T
  <2>1. \A k \in 0..n : k \in T
    BY <1>3, <1>4, InductionTo
  <2>2. QED
    BY <2>1
<1>6. n \in 0..n
  OBVIOUS
<1>7. p[n] \in Seq(X) /\ FlattenSeq(ss) = p[n]
  BY <1>1, <1>2, <1>6, Zenon DEF IsFlattenRun
<1>8. ToSet(p[n]) = UNION {ToSet(ss[i]) : i \in 1..n}
  BY <1>5 DEF T
<1>9. QED
  BY <1>1, <1>7, <1>8, Zenon DEF IsUnion

(* Multiplying by a natural number keeps the order.                        *)
LEMMA MultiplesGrow ==
  ASSUME NEW m \in Nat, NEW a \in Nat, NEW b \in Nat, a <= b
  PROVE  a * m \in Nat /\ a * m <= b * m
<1>1. PICK d \in Nat : b = a + d
  <2>1. b - a \in Nat /\ b = a + (b - a)
    OBVIOUS
  <2>2. QED
    BY <2>1
<1>2. a * m \in Nat /\ d * m \in Nat /\ (a + d) * m = a * m + d * m
  OBVIOUS
<1>3. QED
  BY <1>1, <1>2

(* Joining lists of one length puts the j-th member of the i-th list at    *)
(* the j-th place of the i-th block.                                       *)
AreOfLength(ss, m) == \A i \in 1..Len(ss) : Len(ss[i]) = m
HasBlocks(r, ss, m) ==
  /\ Len(r) = Len(ss) * m
  /\ \A i \in 1..Len(ss), j \in 1..m : r[(i - 1) * m + j] = ss[i][j]

LEMMA FlattenBlocks ==
  ASSUME NEW X, NEW ss \in Seq(Seq(X)), NEW m \in Nat, AreOfLength(ss, m)
  PROVE  HasBlocks(FlattenSeq(ss), ss, m)
<1>1. PICK n \in Nat : n = Len(ss) /\ \A k \in 1..n : ss[k] \in Seq(X) /\ Len(ss[k]) = m
  BY LenProperties, ElementOfSeq DEF AreOfLength
<1>2. PICK p : IsFlattenRun(p, X, ss)
  BY FlattenSteps
<1> DEFINE T == {k \in 0..n : /\ Len(p[k]) = k * m
                              /\ \A i \in 1..k, j \in 1..m : p[k][(i - 1) * m + j] = ss[i][j]}
<1>3. 0 \in T
  <2>1. Len(<<>>) = 0 /\ 0 \in 0..n /\ 0 * m = 0
    BY EmptySeq
  <2>2. QED
    BY <1>2, <2>1 DEF IsFlattenRun
<1>4. ASSUME NEW k \in 1..n, k - 1 \in T PROVE k \in T
  <2>1. PICK l \in Nat : l = k - 1 /\ k = l + 1 /\ l \in 0..n /\ k \in 0..n
    OBVIOUS
  <2>2. p[l] \in Seq(X) /\ ss[k] \in Seq(X) /\ p[k] = p[l] \o ss[k]
    BY <1>1, <1>2, <2>1, Zenon DEF IsFlattenRun
  <2>3. /\ Len(p[l]) = l * m /\ Len(ss[k]) = m
        /\ \A i \in 1..l, j \in 1..m : p[l][(i - 1) * m + j] = ss[i][j]
    BY <1>1, <1>4, <2>1
  <2>4. PICK b \in Nat : b = l * m /\ k * m = b + m
    BY <2>1
  <2>5. /\ Len(p[k]) = b + m
        /\ \A i \in 1..(b + m) : p[k][i] = IF i <= b THEN p[l][i] ELSE ss[k][i - b]
    <3>1. PICK q \in Seq(X), r \in Seq(X) : q = p[l] /\ r = ss[k] /\ p[k] = q \o r
      BY <2>2
    <3>2. Len(q) = b /\ Len(r) = m
      BY <2>3, <2>4, <3>1
    <3>3. /\ Len(q \o r) = b + m
          /\ \A i \in 1..(b + m) : (q \o r)[i] = IF i <= b THEN q[i] ELSE r[i - b]
      BY <3>2, ConcatProperties
    <3>4. QED
      BY <3>1, <3>3
  <2>6. ASSUME NEW i \in 1..k, NEW j \in 1..m
        PROVE  p[k][(i - 1) * m + j] = ss[i][j]
    <3>1. CASE i = k
      <4>1. (i - 1) * m = b
        BY <2>1, <2>4, <3>1
      <4>2. b + j \in 1..(b + m) /\ ~(b + j <= b) /\ (b + j) - b = j
        OBVIOUS
      <4>3. p[k][b + j] = ss[k][j]
        BY <2>5, <4>2
      <4>4. QED
        BY <3>1, <4>1, <4>3
    <3>2. CASE i # k
      <4>1. PICK h \in Nat : h = i - 1 /\ h + 1 <= l /\ i \in 1..l
        BY <2>1, <3>2
      <4>2. PICK a \in Nat : a = h * m /\ (h + 1) * m = a + m
        OBVIOUS
      <4>3. a + m <= b
        BY <2>4, <4>1, <4>2, MultiplesGrow
      <4>4. a + j \in 1..(b + m) /\ a + j <= b
        BY <4>3
      <4>5. p[k][a + j] = p[l][a + j]
        BY <2>5, <4>4
      <4>6. QED
        BY <2>3, <4>1, <4>2, <4>5
    <3>3. QED
      BY <3>1, <3>2
  <2>7. QED
    BY <2>1, <2>4, <2>5, <2>6
<1> HIDE DEF T
<1>5. n \in T
  <2>1. \A k \in 0..n : k \in T
    BY <1>3, <1>4, InductionTo
  <2>2. QED
    BY <2>1
<1>6. FlattenSeq(ss) = p[n]
  BY <1>1, <1>2, Zenon DEF IsFlattenRun
<1>7. QED
  BY <1>1, <1>5, <1>6 DEF T, HasBlocks

(* Division with a remainder, both ways.                                   *)
LEMMA Division ==
  ASSUME NEW a \in Nat, NEW m \in Nat \ {0}
  PROVE  /\ a \div m \in Nat /\ a % m \in 0..(m - 1)
         /\ a = (a \div m) * m + (a % m)
<1>1. a \div m \in Nat
  OBVIOUS
<1>2. a % m \in 0..(m - 1)
  OBVIOUS
<1>3. a = m * (a \div m) + (a % m)
  OBVIOUS
<1>4. \A q \in Nat : m * q = q * m
  OBVIOUS
<1>5. QED
  BY <1>1, <1>2, <1>3, <1>4

LEMMA DivisionIs ==
  ASSUME NEW q \in Nat, NEW m \in Nat \ {0}, NEW r \in 0..(m - 1)
  PROVE  (q * m + r) \div m = q /\ (q * m + r) % m = r
<1>1. PICK a \in Nat : a = q * m + r
  <2>1. q * m \in Nat
    OBVIOUS
  <2>2. q * m + r \in Nat
    BY <2>1
  <2>3. QED
    BY <2>2
<1>2. PICK d \in Nat : d = a \div m /\ a % m \in 0..(m - 1) /\ a = d * m + (a % m)
  BY Division
<1>3. CASE d < q
  <2>1. (d + 1) * m <= q * m /\ (d + 1) * m = d * m + m
    BY <1>3, MultiplesGrow
  <2>2. d * m \in Nat /\ q * m \in Nat
    OBVIOUS
  <2>3. QED
    BY <1>1, <1>2, <2>1, <2>2
<1>4. CASE d > q
  <2>1. (q + 1) * m <= d * m /\ (q + 1) * m = q * m + m
    BY <1>4, MultiplesGrow
  <2>2. d * m \in Nat /\ q * m \in Nat
    OBVIOUS
  <2>3. QED
    BY <1>1, <1>2, <2>1, <2>2
<1>5. CASE d = q
  <2>1. q * m \in Nat
    OBVIOUS
  <2>2. QED
    BY <1>1, <1>2, <1>5, <2>1
<1>6. QED
  BY <1>3, <1>4, <1>5

(* Dividing a number below c * m by m gives one below c.                   *)
LEMMA QuotientBelow ==
  ASSUME NEW c \in Nat, NEW m \in Nat \ {0}, NEW a \in Nat, a < c * m
  PROVE  a \div m \in Nat /\ a \div m < c
<1>1. PICK d \in Nat : d = a \div m /\ a % m \in 0..(m - 1) /\ a = d * m + (a % m)
  BY Division
<1>2. CASE d >= c
  <2>1. c * m \in Nat /\ c * m <= d * m
    BY <1>2, MultiplesGrow
  <2>2. d * m \in Nat
    OBVIOUS
  <2>3. QED
    BY <1>1, <2>1, <2>2
<1>3. QED
  BY <1>1, <1>2

(* The place in a list of c * (n * d) combinations is three places, of     *)
(* which the last one moves fastest.                                       *)
LEMMA ThreePlaces ==
  ASSUME NEW c \in Nat \ {0}, NEW n \in Nat \ {0}, NEW d \in Nat \ {0},
         NEW k \in 1..(c * (n * d))
  PROVE  /\ ((k - 1) \div (n * d)) + 1 \in 1..c
         /\ (((k - 1) \div d) % n) + 1 \in 1..n
         /\ ((k - 1) % d) + 1 \in 1..d
<1>1. PICK m \in Nat \ {0} : m = n * d
  <2>1. n * d \in Nat /\ n * d >= 1 * d
    BY MultiplesGrow
  <2>2. QED
    BY <2>1
<1>2. PICK a \in Nat : a = k - 1 /\ a < c * m
  <2>1. c * m \in Nat
    OBVIOUS
  <2>2. QED
    BY <1>1, <2>1
<1>3. a \div m \in Nat /\ a \div m < c
  BY <1>2, QuotientBelow
<1>4. PICK b \in Nat : b = a \div d /\ a % d \in 0..(d - 1)
  BY Division
<1>5. b % n \in 0..(n - 1)
  BY Division
<1>6. QED
  BY <1>1, <1>2, <1>3, <1>4, <1>5

(* Any three places meet in one.                                           *)
IsMeeting(k, n, d, x, y, z) ==
  /\ ((k - 1) \div (n * d)) + 1 = x
  /\ (((k - 1) \div d) % n) + 1 = y
  /\ ((k - 1) % d) + 1 = z

LEMMA ThreePlacesMeet ==
  ASSUME NEW c \in Nat \ {0}, NEW n \in Nat \ {0}, NEW d \in Nat \ {0},
         NEW x \in 1..c, NEW y \in 1..n, NEW z \in 1..d
  PROVE  \E k \in 1..(c * (n * d)) : IsMeeting(k, n, d, x, y, z)
<1>1. PICK m \in Nat \ {0} : m = n * d
  <2>1. n * d \in Nat /\ n * d >= 1 * d
    BY MultiplesGrow
  <2>2. QED
    BY <2>1
<1>2. PICK u \in Nat, v \in Nat, w \in Nat :
        /\ x = u + 1 /\ y = v + 1 /\ z = w + 1
        /\ u + 1 <= c /\ v + 1 <= n /\ w + 1 <= d
  <2>1. x - 1 \in Nat /\ y - 1 \in Nat /\ z - 1 \in Nat
    OBVIOUS
  <2>2. x = (x - 1) + 1 /\ y = (y - 1) + 1 /\ z = (z - 1) + 1
    OBVIOUS
  <2>3. QED
    BY <2>1, <2>2
<1>3. PICK r \in Nat : r = v * d + w /\ r < m
  <2>1. (v + 1) * d <= n * d /\ (v + 1) * d = v * d + d /\ v * d \in Nat
    BY <1>2, MultiplesGrow
  <2>2. v * d + w \in Nat /\ v * d + w < n * d
    BY <1>2, <2>1
  <2>3. QED
    BY <1>1, <2>2
<1>4. PICK a \in Nat : a = u * m + r /\ a < c * m
  <2>1. (u + 1) * m <= c * m /\ (u + 1) * m = u * m + m /\ u * m \in Nat
    BY <1>2, MultiplesGrow
  <2>2. u * m + r \in Nat /\ u * m + r < c * m
    BY <1>3, <2>1
  <2>3. QED
    BY <2>2
<1>5. a \div m = u
  BY <1>3, <1>4, DivisionIs
<1>6. PICK q \in Nat : q = u * n + v
  <2>1. u * n \in Nat
    OBVIOUS
  <2>2. u * n + v \in Nat
    BY <2>1
  <2>3. QED
    BY <2>2
<1>7. q % n = v
  BY <1>2, <1>6, DivisionIs
<1>8. a = q * d + w
  <2>1. u * (n * d) = (u * n) * d /\ (u * n + v) * d = (u * n) * d + v * d
    OBVIOUS
  <2>2. a = u * (n * d) + (v * d + w)
    BY <1>1, <1>3, <1>4
  <2>3. u * n \in Nat /\ (u * n) * d \in Nat /\ v * d \in Nat
    OBVIOUS
  <2>4. QED
    BY <1>6, <2>1, <2>2, <2>3
<1>9. a \div d = q /\ a % d = w
  BY <1>2, <1>8, DivisionIs
<1>10. a + 1 \in 1..(c * m) /\ (a + 1) - 1 = a
  <2>1. c * m \in Nat
    OBVIOUS
  <2>2. QED
    BY <1>4, <2>1
<1>11. /\ (((a + 1) - 1) \div m) + 1 = x
       /\ ((((a + 1) - 1) \div d) % n) + 1 = y
       /\ (((a + 1) - 1) % d) + 1 = z
  BY <1>2, <1>5, <1>7, <1>9, <1>10
<1>12. QED
  BY <1>1, <1>10, <1>11, Zenon DEF IsMeeting

=============================================================================
