------------------------ MODULE CreationWizardProofs ------------------------
(* That the listing, the form and the validator agree, for any registry    *)
(* and any form: the type invariant of CreationWizard, and its two         *)
(* properties about what the steps offer.                                  *)
EXTENDS CreationWizard, FoldProofs, FiniteSetTheorems

(* Choosing from every list in turn makes a combination that passes.       *)
LEMMA ListedPasses ==
  ASSUME NEW s, s.noise \in ListedNoises(s), s.runner \in ListedRunners(s),
         s.decoder \in ListedDecoders(s)
  PROVE  Validate(s)
BY DEF ListedNoises, ListedRunners, ListedDecoders, Passes, Validate, Accepts

(* A component with all of its sets declared that is not in the list of    *)
(* its step makes a combination that does not pass.                        *)
LEMMA UnlistedFails ==
  ASSUME NEW s \in Selection, NEW kind \in Kind,
         s[kind] \notin Listed(kind, s), Declared(kind, s[kind])
  PROVE  ~Validate(s)
<1>1. /\ s.circuit \in Circuit /\ s.noise \in Noise
      /\ s.runner \in Runner /\ s.decoder \in Decoder
  BY DEF Selection
<1>2. CASE kind = "circuit"
  BY <1>1, <1>2 DEF Listed
<1>3. CASE kind = "noise"
  BY <1>1, <1>3 DEF Listed, ListedNoises, Passes, Declared, Validate, Accepts
<1>4. CASE kind = "runner"
  BY <1>1, <1>4 DEF Listed, ListedRunners, Passes, Declared, Validate, Accepts
<1>5. CASE kind = "decoder"
  BY <1>1, <1>5 DEF Listed, ListedDecoders, Passes, Declared, Validate, Accepts
<1>6. QED
  BY <1>2, <1>3, <1>4, <1>5 DEF Kind

(* A form stays one when a selection is replaced by one of its kind.       *)
LEMMA SelectedType ==
  ASSUME NEW f \in Form, NEW kind \in Kind, NEW x \in Listed(kind, f.sel)
  PROVE  Selected(f, kind, x) \in Form
<1> DEFINE sel == [f.sel EXCEPT ![kind] = x]
<1>1. f.sel \in Selection /\ f.raw \in [Kind -> Raw]
  BY DEF Form
<1>2. CASE kind = "circuit"
  <2>1. x \in Circuit
    BY <1>2 DEF Listed
  <2>2. sel \in Selection
    BY <1>1, <1>2, <2>1 DEF Selection
  <2>3. QED
    BY <2>2, <1>1 DEF Selected, Form
<1>3. CASE kind = "noise"
  <2>1. x \in Noise
    BY <1>3 DEF Listed, ListedNoises
  <2>2. sel \in Selection
    BY <1>1, <1>3, <2>1 DEF Selection
  <2>3. QED
    BY <2>2, <1>1 DEF Selected, Form
<1>4. CASE kind = "runner"
  <2>1. x \in Runner
    BY <1>4 DEF Listed, ListedRunners
  <2>2. sel \in Selection
    BY <1>1, <1>4, <2>1 DEF Selection
  <2>3. QED
    BY <2>2, <1>1 DEF Selected, Form
<1>5. CASE kind = "decoder"
  <2>1. x \in Decoder
    BY <1>5 DEF Listed, ListedDecoders
  <2>2. sel \in Selection
    BY <1>1, <1>5, <2>1 DEF Selection
  <2>3. QED
    BY <2>2, <1>1 DEF Selected, Form
<1>6. QED
  BY <1>2, <1>3, <1>4, <1>5 DEF Kind

(* A click on a card keeps the form well typed and asks for what it needs. *)
LEMMA ChooseType ==
  ASSUME TypeOK, NEW kind \in Kind, NEW at, NEW x, Choose(kind, at, x)
  PROVE  TypeOK'
<1>1. form' \in Form
  BY SelectedType DEF Choose, TypeOK
<1>2. edits' \in 0..MaxEdits
  BY WizardAssumption DEF Choose, TypeOK
<1>3. ListKeysOf(form'.sel) \subseteq asked' /\ lists' \subseteq asked'
  BY DEF Choose, TypeOK
<1>4. QED
  BY <1>1, <1>2, <1>3 DEF Choose, TypeOK

(* The key of the selected component is one of those asked for.            *)
LEMMA EntryType ==
  ASSUME TypeOK, NEW kind \in Kind, HandleParamChange(kind)
  PROVE  TypeOK'
<1>1. form.sel \in Selection /\ form.raw \in [Kind -> Raw]
  BY DEF TypeOK, Form
<1>2. form.sel[kind] \in Component
  BY <1>1 DEF Selection, Kind, Component
<1>3. PICK e \in Fields(form.sel[kind], form.raw[kind]) :
        form' = [form EXCEPT !.raw[kind][e.key] = e.text]
  BY DEF HandleParamChange
<1>4. e.key \in Key /\ e.text \in Text
  BY <1>2, <1>3, WizardAssumption DEF Fields
<1>5. [form.raw EXCEPT ![kind][e.key] = e.text] \in [Kind -> Raw]
  <2>1. form.raw[kind] \in Raw
    BY <1>1
  <2>2. e.key \in BooleanKey => e.text \in {<<"true">>, <<"false">>}
    BY <1>3 DEF Fields
  <2> DEFINE new == [form.raw[kind] EXCEPT ![e.key] = e.text]
  <2>3. new \in [Key -> Text \cup {Null}] /\ BooleanKey \subseteq Key
    BY <1>4, <2>1, WizardAssumption DEF Raw
  <2>4. ASSUME NEW k \in BooleanKey PROVE new[k] \in {Null, <<"true">>, <<"false">>}
    <3>1. form.raw[kind][k] \in {Null, <<"true">>, <<"false">>}
      BY <2>1 DEF Raw
    <3>2. new[k] = IF k = e.key THEN e.text ELSE form.raw[kind][k]
      BY <2>1, <2>3 DEF Raw
    <3>3. QED
      BY <2>2, <3>1, <3>2
  <2> HIDE DEF new
  <2>5. new \in Raw
    BY <2>3, <2>4 DEF Raw
  <2>6. QED
    BY <1>1, <2>5 DEF new
<1>6. form' \in Form /\ form'.sel = form.sel
  BY <1>1, <1>3, <1>5 DEF TypeOK, Form
<1>7. edits' \in 0..MaxEdits
  BY WizardAssumption DEF HandleParamChange, TypeOK
<1>8. ListKeysOf(form'.sel) \subseteq asked' /\ lists' \subseteq asked'
  BY <1>6 DEF HandleParamChange, TypeOK, listVars
<1>9. QED
  BY <1>6, <1>7, <1>8 DEF HandleParamChange, TypeOK, listVars

(* Every reachable state of the form is well typed.                        *)
THEOREM WizardTypeCorrect == Spec => []TypeOK
<1>1. Init => TypeOK
  <2> SUFFICES ASSUME Init PROVE TypeOK
    OBVIOUS
  <2>1. loads \in 1..MaxLoads /\ edits \in 0..MaxEdits
    BY WizardAssumption DEF Init
  <2>2. ListKeysOf(form.sel) \subseteq asked /\ lists \subseteq asked
    BY DEF Init
  <2>3. form \in Form
    BY WizardAssumption DEF Init
  <2>4. step \in Step
    BY DEF Init, Step
  <2>5. offline \in BOOLEAN
    BY DEF Init
  <2>6. QED
    BY <2>1, <2>2, <2>3, <2>4, <2>5 DEF TypeOK
<1>2. TypeOK /\ [Next]_vars => TypeOK'
  <2> SUFFICES ASSUME TypeOK, [Next]_vars PROVE TypeOK'
    OBVIOUS
  <2> USE WizardAssumption
  <2>1. CASE ChooseCircuit \/ ChooseNoise \/ ChooseRunner \/ ChooseDecoder
    BY <2>1, ChooseType DEF ChooseCircuit, ChooseNoise, ChooseRunner, ChooseDecoder, Kind
  <2>2. ASSUME NEW kind \in Kind, HandleParamChange(kind) PROVE TypeOK'
    BY <2>2, EntryType
  <2>3. CASE ClickStep
    BY <2>3 DEF ClickStep, TypeOK, listVars
  <2>4. CASE Back \/ Continue
    BY <2>4 DEF Back, Continue, TypeOK, Step, listVars
  <2>5. ASSUME NEW key \in asked, ListArrives(key) PROVE TypeOK'
    BY <2>5 DEF ListArrives, TypeOK
  <2>6. CASE CircuitsFail \/ RetryConnection
    BY <2>6 DEF CircuitsFail, RetryConnection, TypeOK
  <2>7. CASE Reload
    <3>1. loads' \in 1..MaxLoads
      BY <2>7 DEF Reload, TypeOK
    <3>2. ListKeysOf(form'.sel) \subseteq asked' /\ lists' \subseteq asked'
      BY <2>7 DEF Reload
    <3>3. QED
      BY <2>7, <3>1, <3>2 DEF Reload, TypeOK
  <2>8. CASE ResetForm
    BY <2>8 DEF ResetForm, TypeOK, Step
  <2>9. CASE UNCHANGED vars
    BY <2>9 DEF TypeOK, vars
  <2>10. QED
    BY <2>1, <2>2, <2>3, <2>4, <2>5, <2>6, <2>7, <2>8, <2>9 DEF Next
<1>3. QED
  BY <1>1, <1>2, PTL DEF Spec

(* Whatever the registry declares, a form whose selections are all in the  *)
(* lists on the page is compatible in the eyes of the validator.           *)
THEOREM OfferedCorrect == Spec => []OfferedIsAccepted
<1>1. OfferedIsAccepted
  BY ListedPasses DEF OfferedIsAccepted, Described, Listed, Kind
<1>2. QED
  BY <1>1, PTL

(* Whatever the registry declares, a selection that is gone from the list  *)
(* of its step is refused, if its component declares all of its sets.      *)
THEOREM StaleCorrect == Spec => []StaleIsRefused
<1>1. TypeOK => StaleIsRefused
  <2> SUFFICES ASSUME TypeOK, NEW kind \in Kind,
                      ListKey(kind, form.sel) \in lists,
                      ~Described(kind, form.sel, lists),
                      Declared(kind, form.sel[kind])
               PROVE  ~Accepted(ExperimentConfig(form, lists))
    BY DEF StaleIsRefused
  <2>1. form.sel \in Selection
    BY DEF TypeOK, Form
  <2>2. ~Validate(form.sel)
    BY <2>1, UnlistedFails DEF Described
  <2>3. ExperimentConfig(form, lists).sel = form.sel
    BY DEF ExperimentConfig
  <2>4. QED
    BY <2>2, <2>3 DEF Accepted
<1>2. QED
  BY <1>1, WizardTypeCorrect, PTL

(* What a point holds when it is read with the given keys: v at k, once it *)
(* holds k.                                                                *)
Reading == Part \cup {"space"}
Reads(given, k, v) ==
  {q \in UNION {[D -> Reading] : D \in SUBSET given} : k \in DOMAIN q => q[k] = v}
ReadsAll(given, k, v) == {q \in [given -> Reading] : q[k] = v}

(* Entries of the given keys, the one of k led by v.                       *)
EntriesLed(given, k, v) ==
  {e \in [key : given, kind : {"num", "str", "list", "space"}, items : Seq(Part)] :
     e.key = k => e.kind # "space" /\ e.items # <<>> /\ e.items[1] = v}

(* v is the name of no other parameter that is given.                      *)
NamesNoOther(given, k, v) == given \subseteq Key /\ v \in Part /\ v \notin given \ {k}

LEMMA TakeFirstAdds ==
  ASSUME NEW q, NEW e
  PROVE  DOMAIN Expansion!TakeFirst(q, e) = DOMAIN q \cup {e.key}
BY DEF Expansion!TakeFirst, Expansion!Put

LEMMA TakeFirstKeeps ==
  ASSUME NEW given, NEW k, NEW v, NamesNoOther(given, k, v),
         NEW q \in Reads(given, k, v), NEW e \in EntriesLed(given, k, v)
  PROVE  Expansion!TakeFirst(q, e) \in Reads(given, k, v)
<1>1. PICK D \in SUBSET given : q \in [D -> Reading]
  BY DEF Reads
<1>2. e.key \in given /\ e.items \in Seq(Part)
  BY DEF EntriesLed
<1> DEFINE u == IF e.items = <<>> THEN "space" ELSE e.items[1]
           w == IF e.kind # "space" /\ u \in D THEN q[u] ELSE u
<1>3. u \in Reading
  BY <1>2 DEF Reading
<1>4. w \in Reading
  BY <1>1, <1>3
<1>5. e.key = k => w = v
  <2>1. SUFFICES ASSUME e.key = k PROVE w = v
    OBVIOUS
  <2>2. u = v /\ e.items # <<>>
    BY <2>1 DEF EntriesLed
  <2>3. v \in D => v = k /\ q[v] = v
    BY <1>1 DEF Reads, NamesNoOther
  <2>4. QED
    BY <2>2, <2>3
<1> HIDE DEF w
<1>6. Expansion!TakeFirst(q, e) = [x \in D \cup {e.key} |-> IF x = e.key THEN w ELSE q[x]]
  BY <1>1 DEF Expansion!TakeFirst, Expansion!Put, w
<1>7. [x \in D \cup {e.key} |-> IF x = e.key THEN w ELSE q[x]] \in [D \cup {e.key} -> Reading]
  BY <1>1, <1>4
<1>8. D \cup {e.key} \in SUBSET given
  BY <1>2
<1>9. k \in DOMAIN q => q[k] = v
  BY DEF Reads
<1>10. QED
  BY <1>1, <1>5, <1>6, <1>7, <1>8, <1>9 DEF Reads

LEMMA LookAgainKeeps ==
  ASSUME NEW given, NEW k \in given, NEW v, NamesNoOther(given, k, v),
         NEW q \in ReadsAll(given, k, v), NEW e \in EntriesLed(given, k, v)
  PROVE  Expansion!LookAgain(q, e) \in ReadsAll(given, k, v)
<1> DEFINE w == IF q[e.key] \in given THEN q[q[e.key]] ELSE q[e.key]
<1>1. e.key \in given /\ q \in [given -> Reading] /\ q[k] = v
  BY DEF EntriesLed, ReadsAll
<1>2. w \in Reading
  BY <1>1
<1>3. e.key = k => w = v
  BY <1>1 DEF NamesNoOther
<1> HIDE DEF w
<1>4. Expansion!LookAgain(q, e) = [x \in given |-> IF x = e.key THEN w ELSE q[x]]
  <2>1. DOMAIN q = given /\ given \cup {e.key} = given
    BY <1>1
  <2>2. QED
    BY <2>1 DEF Expansion!LookAgain, Expansion!Put, w
<1>5. QED
  BY <1>1, <1>2, <1>3, <1>4 DEF ReadsAll

FirstPass(es) == FoldLeft(Expansion!TakeFirst, Expansion!EmptyPoint, es)
SecondPass(point, es) == FoldLeft(Expansion!LookAgain, point, es)

(* The folds of the instance are those of the module itself.               *)
LEMMA SameFolds ==
  ASSUME NEW es
  PROVE  Expansion!FirstPoint(es) = SecondPass(FirstPass(es), es)
BY DEF Expansion!FirstPoint, FirstPass, SecondPass, FoldLeft, Expansion!FoldLeft,
       MapThenFoldSet, Expansion!MapThenFoldSet, Max, Expansion!Max

LEMMA NothingRead ==
  ASSUME NEW given, NEW key, NEW v
  PROVE  Expansion!EmptyPoint \in Reads(given, key, v) /\ DOMAIN Expansion!EmptyPoint = {}
<1>1. Expansion!EmptyPoint \in [{} -> Reading] /\ DOMAIN Expansion!EmptyPoint = {}
  BY DEF Expansion!EmptyPoint
<1>2. {} \in SUBSET given
  OBVIOUS
<1>3. QED
  BY <1>1, <1>2 DEF Reads

(* The first pass, one entry at a time.                                    *)
IsFirstRun(p, given, key, v, es) ==
  /\ p \in [0..Len(es) -> Reads(given, key, v)]
  /\ p[0] = Expansion!EmptyPoint
  /\ \A k \in 1..Len(es) : p[k] = Expansion!TakeFirst(p[k - 1], es[k])
  /\ FirstPass(es) = p[Len(es)]

LEMMA FirstSteps ==
  ASSUME NEW given, NEW key, NEW v, NamesNoOther(given, key, v),
         NEW es \in Seq(EntriesLed(given, key, v))
  PROVE  \E p : IsFirstRun(p, given, key, v, es)
<1>1. PICK n \in Nat : n = Len(es) /\ DOMAIN es = 1..n /\ \A k \in 1..n : es[k] \in EntriesLed(given, key, v)
  BY LenProperties, ElementOfSeq
<1> DEFINE Solves(it) == it = [d \in SUBSET (DOMAIN es) |->
             IF d = {} THEN Expansion!EmptyPoint
             ELSE Expansion!TakeFirst(it[d \ {Max(d)}], es[Max(d)])]
           G == [e \in (1..n) \X Reads(given, key, v) |-> Expansion!TakeFirst(e[2], es[e[1]])]
<1>2. G \in [(1..n) \X Reads(given, key, v) -> Reads(given, key, v)]
  BY <1>1, TakeFirstKeeps
<1>3. PICK h \in [SUBSET (1..n) -> Reads(given, key, v)] : IsFoldTable(h, n, Expansion!EmptyPoint, G)
  <2>1. Expansion!EmptyPoint \in Reads(given, key, v)
    BY NothingRead
  <2> HIDE DEF G
  <2>2. QED
    BY <1>2, <2>1, FoldTable, Zenon
<1>4. ASSUME NEW d \in SUBSET (1..n), d # {}
      PROVE  Max(d) \in 1..n /\ d \ {Max(d)} \in SUBSET (1..n)
  BY <1>4, MaxOf
<1>5. Solves(h)
  <2>1. ASSUME NEW d \in SUBSET (1..n)
        PROVE  h[d] = IF d = {} THEN Expansion!EmptyPoint
                      ELSE Expansion!TakeFirst(h[d \ {Max(d)}], es[Max(d)])
    <3>1. CASE d = {}
      BY <1>3, <3>1, Zenon DEF IsFoldTable
    <3>2. CASE d # {}
      <4>1. PICK m \in 1..n : m = Max(d) /\ d \ {m} \in SUBSET (1..n)
        BY <1>4, <3>2, Zenon
      <4>2. PICK q \in Reads(given, key, v) : q = h[d \ {m}]
        BY <1>3, <4>1, Zenon
      <4>3. h[d] = G[<<m, q>>]
        BY <1>3, <3>2, <4>1, <4>2, Zenon DEF IsFoldTable
      <4>4. h[d] = Expansion!TakeFirst(q, es[m])
        BY <4>3
      <4>5. QED
        BY <3>2, <4>1, <4>2, <4>4, Zenon
    <3>3. QED
      BY <3>1, <3>2
  <2>2. QED
    BY <1>1, <1>3, <2>1, Zenon
<1>6. PICK it : Solves(it) /\ FirstPass(es) = it[DOMAIN es]
  <2>1. Solves(CHOOSE it : Solves(it))
    <3> HIDE DEF Solves
    <3>1. QED
      BY <1>5, Zenon
  <2>2. QED
    BY <2>1, Zenon DEF FirstPass, FoldLeft, MapThenFoldSet
<1> DEFINE p == [k \in 0..n |-> it[1..k]]
<1>7. p[0] = Expansion!EmptyPoint
  <2>1. {} \in SUBSET (1..n) /\ 1..0 = {} /\ 0 \in 0..n
    OBVIOUS
  <2>2. it[{}] = Expansion!EmptyPoint
    BY <1>1, <1>6, <2>1, Zenon
  <2>3. QED
    BY <2>1, <2>2, Zenon
<1>8. ASSUME NEW k \in 1..n PROVE p[k] = Expansion!TakeFirst(p[k - 1], es[k])
  <2>1. /\ 1..k # {} /\ 1..k \in SUBSET (1..n) /\ Max(1..k) = k
        /\ (1..k) \ {k} = 1..(k - 1)
    BY LastPlace
  <2>2. it[1..k] = Expansion!TakeFirst(it[1..(k - 1)], es[k])
    BY <1>1, <1>6, <2>1, Zenon
  <2>3. k \in 0..n /\ k - 1 \in 0..n
    OBVIOUS
  <2>4. QED
    BY <2>2, <2>3, Zenon
<1> HIDE DEF p
<1>9. \A k \in 0..n : p[k] \in Reads(given, key, v)
  <2> DEFINE T == {m \in 0..n : p[m] \in Reads(given, key, v)}
  <2>1. 0 \in T
    <3>1. 0 \in 0..n /\ Expansion!EmptyPoint \in Reads(given, key, v)
      BY NothingRead
    <3>2. QED
      BY <1>7, <3>1, Zenon
  <2>2. ASSUME NEW k \in 1..n, k - 1 \in T PROVE k \in T
    <3>1. k \in 0..n
      OBVIOUS
    <3>2. p[k - 1] \in Reads(given, key, v) /\ es[k] \in EntriesLed(given, key, v)
      BY <1>1, <2>2, Zenon
    <3>3. Expansion!TakeFirst(p[k - 1], es[k]) \in Reads(given, key, v)
      BY <3>2, TakeFirstKeeps
    <3>4. QED
      BY <1>8, <3>1, <3>3, Zenon
  <2> HIDE DEF T
  <2>3. \A k \in 0..n : k \in T
    BY <2>1, <2>2, InductionTo
  <2>4. QED
    BY <2>3 DEF T
<1>10. p \in [0..n -> Reads(given, key, v)]
  BY <1>9 DEF p
<1>11. FirstPass(es) = p[n]
  BY <1>1, <1>6 DEF p
<1>12. QED
  BY <1>1, <1>7, <1>8, <1>10, <1>11, Zenon DEF IsFirstRun

(* The second pass, likewise.                                              *)
IsSecondRun(p, given, key, v, point, es) ==
  /\ p \in [0..Len(es) -> ReadsAll(given, key, v)]
  /\ p[0] = point
  /\ \A k \in 1..Len(es) : p[k] = Expansion!LookAgain(p[k - 1], es[k])
  /\ SecondPass(point, es) = p[Len(es)]

LEMMA SecondSteps ==
  ASSUME NEW given, NEW key \in given, NEW v, NamesNoOther(given, key, v),
         NEW point \in ReadsAll(given, key, v), NEW es \in Seq(EntriesLed(given, key, v))
  PROVE  \E p : IsSecondRun(p, given, key, v, point, es)
<1>1. PICK n \in Nat : n = Len(es) /\ DOMAIN es = 1..n /\ \A k \in 1..n : es[k] \in EntriesLed(given, key, v)
  BY LenProperties, ElementOfSeq
<1> DEFINE Solves(it) == it = [d \in SUBSET (DOMAIN es) |->
             IF d = {} THEN point
             ELSE Expansion!LookAgain(it[d \ {Max(d)}], es[Max(d)])]
           G == [e \in (1..n) \X ReadsAll(given, key, v) |-> Expansion!LookAgain(e[2], es[e[1]])]
<1>2. G \in [(1..n) \X ReadsAll(given, key, v) -> ReadsAll(given, key, v)]
  BY <1>1, LookAgainKeeps
<1>3. PICK h \in [SUBSET (1..n) -> ReadsAll(given, key, v)] : IsFoldTable(h, n, point, G)
  <2>1. point \in ReadsAll(given, key, v)
    BY Zenon
  <2> HIDE DEF G
  <2>2. QED
    BY <1>2, <2>1, FoldTable, Zenon
<1>4. ASSUME NEW d \in SUBSET (1..n), d # {}
      PROVE  Max(d) \in 1..n /\ d \ {Max(d)} \in SUBSET (1..n)
  BY <1>4, MaxOf
<1>5. Solves(h)
  <2>1. ASSUME NEW d \in SUBSET (1..n)
        PROVE  h[d] = IF d = {} THEN point
                      ELSE Expansion!LookAgain(h[d \ {Max(d)}], es[Max(d)])
    <3>1. CASE d = {}
      BY <1>3, <3>1, Zenon DEF IsFoldTable
    <3>2. CASE d # {}
      <4>1. PICK m \in 1..n : m = Max(d) /\ d \ {m} \in SUBSET (1..n)
        BY <1>4, <3>2, Zenon
      <4>2. PICK q \in ReadsAll(given, key, v) : q = h[d \ {m}]
        BY <1>3, <4>1, Zenon
      <4>3. h[d] = G[<<m, q>>]
        BY <1>3, <3>2, <4>1, <4>2, Zenon DEF IsFoldTable
      <4>4. h[d] = Expansion!LookAgain(q, es[m])
        BY <4>3
      <4>5. QED
        BY <3>2, <4>1, <4>2, <4>4, Zenon
    <3>3. QED
      BY <3>1, <3>2
  <2>2. QED
    BY <1>1, <1>3, <2>1, Zenon
<1>6. PICK it : Solves(it) /\ SecondPass(point, es) = it[DOMAIN es]
  <2>1. Solves(CHOOSE it : Solves(it))
    <3> HIDE DEF Solves
    <3>1. QED
      BY <1>5, Zenon
  <2>2. QED
    BY <2>1, Zenon DEF SecondPass, FoldLeft, MapThenFoldSet
<1> DEFINE p == [k \in 0..n |-> it[1..k]]
<1>7. p[0] = point
  <2>1. {} \in SUBSET (1..n) /\ 1..0 = {} /\ 0 \in 0..n
    OBVIOUS
  <2>2. it[{}] = point
    BY <1>1, <1>6, <2>1, Zenon
  <2>3. QED
    BY <2>1, <2>2, Zenon
<1>8. ASSUME NEW k \in 1..n PROVE p[k] = Expansion!LookAgain(p[k - 1], es[k])
  <2>1. /\ 1..k # {} /\ 1..k \in SUBSET (1..n) /\ Max(1..k) = k
        /\ (1..k) \ {k} = 1..(k - 1)
    BY LastPlace
  <2>2. it[1..k] = Expansion!LookAgain(it[1..(k - 1)], es[k])
    BY <1>1, <1>6, <2>1, Zenon
  <2>3. k \in 0..n /\ k - 1 \in 0..n
    OBVIOUS
  <2>4. QED
    BY <2>2, <2>3, Zenon
<1> HIDE DEF p
<1>9. \A k \in 0..n : p[k] \in ReadsAll(given, key, v)
  <2> DEFINE T == {m \in 0..n : p[m] \in ReadsAll(given, key, v)}
  <2>1. 0 \in T
    <3>1. 0 \in 0..n /\ point \in ReadsAll(given, key, v)
      OBVIOUS
    <3>2. QED
      BY <1>7, <3>1, Zenon
  <2>2. ASSUME NEW k \in 1..n, k - 1 \in T PROVE k \in T
    <3>1. k \in 0..n
      OBVIOUS
    <3>2. p[k - 1] \in ReadsAll(given, key, v) /\ es[k] \in EntriesLed(given, key, v)
      BY <1>1, <2>2, Zenon
    <3>3. Expansion!LookAgain(p[k - 1], es[k]) \in ReadsAll(given, key, v)
      BY <3>2, LookAgainKeeps
    <3>4. QED
      BY <1>8, <3>1, <3>3, Zenon
  <2> HIDE DEF T
  <2>3. \A k \in 0..n : k \in T
    BY <2>1, <2>2, InductionTo
  <2>4. QED
    BY <2>3 DEF T
<1>10. p \in [0..n -> ReadsAll(given, key, v)]
  BY <1>9 DEF p
<1>11. SecondPass(point, es) = p[n]
  BY <1>1, <1>6 DEF p
<1>12. QED
  BY <1>1, <1>7, <1>8, <1>10, <1>11, Zenon DEF IsSecondRun

KeysOf(es) == {es[n].key : n \in 1..Len(es)}

(* A text that names no other parameter is what the first point holds.     *)
LEMMA FirstPointKeeps ==
  ASSUME NEW given, NEW k \in given, NEW v, NamesNoOther(given, k, v),
         NEW es \in Seq(EntriesLed(given, k, v)),
         KeysOf(es) = given
  PROVE  Expansion!FirstPoint(es)[k] = v
<1>1. PICK l \in Nat : l = Len(es) /\ \A n \in 1..l : es[n] \in EntriesLed(given, k, v)
  BY LenProperties, ElementOfSeq
<1>2. PICK p : IsFirstRun(p, given, k, v, es)
  BY FirstSteps
<1>3. \A n \in 0..l : p[n] \in Reads(given, k, v)
  BY <1>1, <1>2 DEF IsFirstRun
<1> DEFINE KeysTo(m) == {es[n].key : n \in 1..m}
           T == {m \in 0..l : DOMAIN p[m] = KeysTo(m)}
<1>4. \A q, e : DOMAIN Expansion!TakeFirst(q, e) = DOMAIN q \cup {e.key}
  BY TakeFirstAdds
<1>5. 0 \in T
  BY <1>2, NothingRead DEF IsFirstRun
<1>6. ASSUME NEW m \in 1..l, m - 1 \in T PROVE m \in T
  <2>1. p[m] = Expansion!TakeFirst(p[m - 1], es[m])
    BY <1>1, <1>2 DEF IsFirstRun
  <2>2. DOMAIN p[m] = DOMAIN p[m - 1] \cup {es[m].key}
    BY <1>4, <2>1, Zenon
  <2>3. KeysTo(m) = KeysTo(m - 1) \cup {es[m].key}
    <3>1. 1..m = 1..(m - 1) \cup {m}
      OBVIOUS
    <3>2. QED
      BY <3>1
  <2>4. DOMAIN p[m - 1] = KeysTo(m - 1)
    BY <1>6
  <2>5. QED
    BY <2>2, <2>3, <2>4
<1> HIDE DEF T
<1>7. l \in T
  <2>1. \A m \in 0..l : m \in T
    BY <1>5, <1>6, InductionTo
  <2>2. QED
    BY <2>1
<1>8. DOMAIN p[l] = given
  BY <1>1, <1>7 DEF T, KeysOf
<1>9. PICK point : point = FirstPass(es) /\ point = p[l]
  BY <1>1, <1>2 DEF IsFirstRun
<1>10. point \in ReadsAll(given, k, v)
  BY <1>3, <1>8, <1>9 DEF Reads, ReadsAll
<1>11. PICK q : IsSecondRun(q, given, k, v, point, es)
  BY <1>10, SecondSteps
<1>12. SecondPass(point, es) \in ReadsAll(given, k, v)
  BY <1>1, <1>11 DEF IsSecondRun
<1>13. Expansion!FirstPoint(es) = SecondPass(point, es)
  BY <1>9, SameFolds
<1>14. QED
  BY <1>12, <1>13 DEF ReadsAll

(* What the parser makes of a text is a value.                             *)
LEMMA ParsedType ==
  ASSUME NEW t \in Text
  PROVE  ParseInputValue(t) \in Value
<1>1. t \in Seq(Part) /\ t # <<>>
  BY TextAssumption
<1>2. CASE Len(t) > 1
  <2>1. PICK parts : parts = Keep(t, Part \ {""}) /\ parts \in Seq(Part)
    BY <1>1, KeepSet
  <2> DEFINE items == [n \in 1..Len(parts) |->
                         IF parts[n] \in {"true", "false"} THEN "x" ELSE parts[n]]
  <2>2. Len(parts) \in Nat /\ \A n \in 1..Len(parts) : parts[n] \in Part
    BY <2>1, LenProperties, ElementOfSeq
  <2>3. items \in [1..Len(parts) -> Part]
    BY <2>2 DEF Part
  <2>4. items \in Seq(Part)
    BY <2>2, <2>3, SeqDef
  <2>5. ParseInputValue(t) = [kind |-> "list", items |-> items]
    BY <1>2, <2>1 DEF ParseInputValue
  <2>6. QED
    BY <2>4, <2>5 DEF Value
<1>3. CASE ~(Len(t) > 1)
  <2>1. <<"3">> \in Seq(Part)
    <3>1. "3" \in Part
      BY DEF Part
    <3>2. QED
      BY <3>1
  <2>2. PICK kind \in {"num", "str", "space"}, items \in {t, <<"3">>} :
          ParseInputValue(t) = [kind |-> kind, items |-> items]
    BY <1>3 DEF ParseInputValue
  <2>3. items \in Seq(Part)
    BY <1>1, <2>1
  <2>4. QED
    BY <2>2, <2>3 DEF Value
<1>4. QED
  BY <1>2, <1>3

(* A field marked as wrong holds no sweep and no empty list, and is the    *)
(* field of a number; it may hold a number only in a list.                 *)
LEMMA FlaggedIs ==
  ASSUME NEW raw \in Raw, NEW k \in Key, Flagged(k, raw[k]),
         NEW t, t = raw[k], NEW v, v = ParseInputValue(t)
  PROVE  /\ t \in Text \ {Blank}
         /\ v \in Value /\ v.kind # "space" /\ v.items # <<>>
         /\ v.items[1] = "3" => v.kind = "list"
<1>1. t \in Text \ {Blank}
  BY DEF Flagged, Raw
<1>2. t \in Seq(Part) /\ t # <<>> /\ Len(t) \in Nat /\ Len(t) >= 1
  <2>1. t \in Seq(Part) /\ t # <<>>
    BY <1>1, TextAssumption
  <2>2. Len(t) \in Nat \ {0}
    BY <2>1, EmptySeq, Zenon
  <2>3. QED
    BY <2>1, <2>2
<1>3. ~ZodAccepts(k, v)
  BY DEF Flagged
<1>4. v \in Value
  BY <1>1, ParsedType
<1>5. v.kind # "space"
  BY <1>3 DEF ZodAccepts
<1>6. v.kind \in {"num", "list"} => ~(ToSet(v.items) \subseteq ZodScalar(k))
  BY <1>3 DEF ZodAccepts
<1>7. v.items # <<>>
  <2>1. CASE v.kind \in {"num", "list"}
    <3>1. SUFFICES ASSUME v.items = <<>> PROVE ToSet(v.items) = {}
      BY <1>6, <2>1
    <3>2. QED
      BY <3>1 DEF ToSet
  <2>2. CASE v.kind = "str"
    <3>1. v.items = t
      BY <2>2 DEF ParseInputValue
    <3>2. QED
      BY <1>2, <3>1
  <2>3. QED
    BY <1>4, <1>5, <2>1, <2>2 DEF Value
<1>8. v.items[1] = "3" => v.kind = "list"
  <2> SUFFICES ASSUME v.items[1] = "3", v.kind # "list" PROVE FALSE
    OBVIOUS
  <2>1. ~(Len(t) > 1)
    BY DEF ParseInputValue
  <2>2. t[1] = "3" /\ v.kind = "num" /\ v.items = t
    BY <1>5, <2>1 DEF ParseInputValue
  <2>3. k \notin BooleanKey
    <3>1. t \notin {Null, <<"true">>, <<"false">>}
      <4>1. t # Null
        BY <1>1, TextAssumption
      <4>2. <<"true">>[1] = "true" /\ <<"false">>[1] = "false"
        OBVIOUS
      <4>3. QED
        BY <2>2, <4>1, <4>2
    <3>2. QED
      BY <3>1 DEF Raw
  <2>4. ToSet(t) = {"3"}
    <3>1. DOMAIN t = 1..1
      BY <1>2, <2>1, LenProperties
    <3>2. QED
      BY <2>2, <3>1 DEF ToSet
  <2>5. QED
    BY <1>6, <2>2, <2>3, <2>4 DEF ZodScalar
<1>9. QED
  BY <1>1, <1>4, <1>5, <1>7, <1>8

(* A function on the first n numbers is a sequence of n members.           *)
LEMMA TupleIs ==
  ASSUME NEW n \in Nat, NEW S, NEW f \in [1..n -> S]
  PROVE  f \in Seq(S) /\ Len(f) = n
<1>1. f \in Seq(S)
  BY SeqDef
<1>2. Len(f) \in Nat /\ DOMAIN f = 1..Len(f)
  BY <1>1, LenProperties
<1>3. 1..Len(f) = 1..n
  BY <1>2
<1>4. QED
  BY <1>1, <1>2, <1>3

(* The params as the validator reads them, in some order of their keys.    *)
LEMMA InOrderIs ==
  ASSUME NEW p \in Params, NEW order \in Orders(p), NEW given, given = {j \in Key : p[j] # Null},
         NEW k \in given, p[k].kind # "space", p[k].items # <<>>
  PROVE  /\ InOrder(p, order) \in Seq(EntriesLed(given, k, p[k].items[1]))
         /\ KeysOf(InOrder(p, order)) = given
<1>1. IsFiniteSet(given)
  BY TextAssumption, FS_Subset
<1>2. PICK l \in Nat : l = Cardinality(given)
  BY <1>1, FS_CardinalityType
<1>3. order \in [1..l -> given] /\ ToSet(order) = given
  BY <1>2 DEF Orders
<1>4. order \in Seq(given) /\ Len(order) = l
  BY <1>2, <1>3, TupleIs
<1>5. ASSUME NEW n \in 1..l
      PROVE  InOrder(p, order)[n] \in EntriesLed(given, k, p[k].items[1])
             /\ InOrder(p, order)[n].key = order[n]
  <2>1. order[n] \in given /\ p[order[n]] \in Value
    BY <1>3 DEF Params
  <2>2. InOrder(p, order)[n]
          = [key |-> order[n], kind |-> p[order[n]].kind, items |-> p[order[n]].items]
    BY <1>4 DEF InOrder
  <2>3. QED
    BY <2>1, <2>2 DEF EntriesLed, Value
<1>6. InOrder(p, order) \in [1..l -> EntriesLed(given, k, p[k].items[1])]
  BY <1>4, <1>5 DEF InOrder
<1>7. /\ InOrder(p, order) \in Seq(EntriesLed(given, k, p[k].items[1]))
      /\ Len(InOrder(p, order)) = l
  BY <1>2, <1>6, TupleIs
<1>8. KeysOf(InOrder(p, order)) = given
  <2>1. {order[n] : n \in 1..l} = given
    BY <1>3 DEF ToSet
  <2>2. \A n \in 1..l : InOrder(p, order)[n].key = order[n]
    BY <1>5
  <2>3. {InOrder(p, order)[n].key : n \in 1..l} = {order[n] : n \in 1..l}
    BY <2>2
  <2>4. QED
    BY <1>7, <2>1, <2>3 DEF KeysOf
<1>9. QED
  BY <1>7, <1>8

(* An entry of a described component that the field marks as wrong, and    *)
(* that the server has no reason to take, is refused with its config.      *)
LEMMA FlaggedIsRefused ==
  ASSUME NEW x \in Component, NEW raw \in Raw, NEW k \in PropsOf[x],
         NEW p, p = ParseRawParams(x, raw), Flagged(k, raw[k]),
         ~OnlyTheServerReads(k, raw[k], p), NEW order \in Orders(p)
  PROVE  ~ParamsAccepted(x, p, order)
<1> DEFINE v == ParseInputValue(raw[k])
           given == {j \in Key : p[j] # Null}
<1>1. k \in Key
  BY WizardAssumption
<1>2. /\ raw[k] \in Text \ {Blank}
      /\ v \in Value /\ v.kind # "space" /\ v.items # <<>>
      /\ v.items[1] = "3" => v.kind = "list"
  BY <1>1, FlaggedIs
<1>3. p \in Params
  <2>1. ASSUME NEW j \in Key PROVE p[j] \in Value \cup {Null}
    <3>1. CASE j \notin PropsOf[x]
      BY <3>1 DEF ParseRawParams
    <3>2. CASE j \in PropsOf[x] /\ raw[j] \in {Null, Blank}
      <4>1. p[j] = DefaultOf[x][j]
        BY <3>2 DEF ParseRawParams
      <4>2. QED
        BY <4>1, WizardAssumption DEF Params
    <3>3. CASE j \in PropsOf[x] /\ raw[j] \notin {Null, Blank}
      <4>1. p[j] = ParseInputValue(raw[j])
        BY <3>3 DEF ParseRawParams
      <4>2. raw[j] \in Text
        BY <3>3 DEF Raw
      <4>3. QED
        BY <4>1, <4>2, ParsedType
    <3>4. QED
      BY <3>1, <3>2, <3>3
  <2>2. QED
    BY <2>1 DEF Params, ParseRawParams
<1>4. p[k] = v
  <2>1. raw[k] # Null
    BY <1>2, TextAssumption
  <2>2. QED
    BY <1>1, <1>2, <2>1 DEF ParseRawParams
<1>5. p[k] # Null /\ k \in given
  BY <1>1, <1>2, <1>4, TextAssumption
<1>6. v.items[1] \notin {"3", "true", "false", "1_000"} /\ v.items[1] \notin given \ {k}
  BY <1>2 DEF OnlyTheServerReads
<1>7. NamesNoOther(given, k, v.items[1])
  <2>1. v.items \in Seq(Part) /\ v.items # <<>>
    BY <1>2 DEF Value
  <2>2. v.items[1] \in Part
    BY <2>1
  <2>3. QED
    BY <1>6, <2>2 DEF NamesNoOther
<1>8. /\ InOrder(p, order) \in Seq(EntriesLed(given, k, v.items[1]))
      /\ KeysOf(InOrder(p, order)) = given
  BY <1>2, <1>3, <1>4, <1>5, InOrderIs
<1> HIDE DEF v, given
<1>9. Expansion!FirstPoint(InOrder(p, order))[k] = v.items[1]
  BY <1>5, <1>7, <1>8, FirstPointKeeps
<1>10. v.items[1] \notin PydanticAccepts(k)
  BY <1>6 DEF PydanticAccepts
<1>11. QED
  BY <1>1, <1>5, <1>9, <1>10 DEF ParamsAccepted

(* Whatever is chosen and typed, on any registry: a config the server      *)
(* accepts has no field marked wrong but for the readings that are known   *)
(* to be the server's alone.                                               *)
THEOREM AcceptedUnflagged == Spec => []AcceptedIsUnflagged
<1>1. TypeOK => AcceptedIsUnflagged
  <2> SUFFICES ASSUME TypeOK, Accepted(ExperimentConfig(form, lists)),
                      NEW kind \in Kind, Described(kind, form.sel, lists),
                      NEW k \in PropsOf[form.sel[kind]], Flagged(k, form.raw[kind][k]),
                      ~OnlyTheServerReads(k, form.raw[kind][k],
                                          ExperimentConfig(form, lists).params[kind])
               PROVE  FALSE
    BY DEF AcceptedIsUnflagged
  <2>1. form.sel \in Selection /\ form.raw[kind] \in Raw
    BY DEF TypeOK, Form
  <2>2. form.sel[kind] \in Component
    BY <2>1 DEF Selection, Kind, Component
  <2>3. PICK p : /\ p = ParseRawParams(form.sel[kind], form.raw[kind])
                 /\ p = ExperimentConfig(form, lists).params[kind]
    BY DEF ExperimentConfig
  <2>4. ExperimentConfig(form, lists).sel = form.sel
    BY DEF ExperimentConfig
  <2>5. PICK order \in Orders(p) : ParamsAccepted(form.sel[kind], p, order)
    BY <2>3, <2>4 DEF Accepted
  <2>6. QED
    BY <2>1, <2>2, <2>3, <2>5, FlaggedIsRefused
<1>2. QED
  BY <1>1, WizardTypeCorrect, PTL

=============================================================================
