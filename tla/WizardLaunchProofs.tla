------------------------- MODULE WizardLaunchProofs -------------------------
(* Type correctness of WizardLaunch, that the verdict on screen is about   *)
(* the draft on screen, and that nothing the user has seen a verdict for   *)
(* is refused, for any form, configs and texts.                            *)
EXTENDS WizardLaunch, TLAPS

(* The config of a form is a text.                                         *)
LEMMA ConfigIsText ==
  ASSUME NEW f \in Form, NEW ls \in BOOLEAN
  PROVE  ExperimentConfig(f, ls) \in Text
BY LaunchAssumption DEF ExperimentConfig, Text

(* What is on screen is a text.                                            *)
LEMMA DraftIsText ==
  ASSUME NEW f \in Form, NEW ls \in BOOLEAN, NEW a \in BOOLEAN, NEW j \in Text
  PROVE  Draft(f, ls, a, j) \in Text
BY ConfigIsText DEF Draft

(* A rendering keeps the text in the editor and what is being checked well *)
(* formed.                                                                 *)
LEMMA RenderType ==
  ASSUME form' \in Form, loaded' \in BOOLEAN, advanced' \in BOOLEAN,
         \A c \in checking : c.cfg \in Text, NEW text \in Text, Render(text)
  PROVE  json' \in Text /\ \A c \in checking' : c.cfg \in Text
<1>1. json' \in Text
  BY ConfigIsText DEF Render
<1> DEFINE now == Draft(form', loaded', advanced', json')
<1>2. now \in Text
  BY <1>1, DraftIsText
<1>3. \A c \in checking' : c \in checking \/ c.cfg = now
  BY DEF Render, Validating
<1>4. QED
  BY <1>1, <1>2, <1>3

(* The verdict on screen is one of the cache, or none.                     *)
LEMMA ShownIsCached ==
  Shown = Null \/ \E v \in verdicts : v.key = VerdictKey(Current) /\ v.verdict = Shown
BY DEF Shown

(* Every reachable state of the wizard's launching is well typed.          *)
THEOREM LaunchTypeCorrect == Spec => []TypeOK
<1>1. Init => TypeOK
  <2> SUFFICES ASSUME Init PROVE TypeOK
    OBVIOUS
  <2>1. form \in Form /\ json \in Text
    BY LaunchAssumption DEF Init, Text
  <2>2. loaded \in BOOLEAN /\ advanced \in BOOLEAN /\ mounted \in BOOLEAN /\ error \in BOOLEAN
    BY DEF Init
  <2>3. step \in {"form", "review"} /\ checking = {} /\ verdicts = {} /\ launches = {}
    BY DEF Init
  <2>4. begun \in 0..MaxLaunches /\ inst \in Nat /\ page \in 1..inst /\ edits \in Nat
    BY LaunchAssumption DEF Init
  <2>5. server \subseteq Accepted
    BY DEF Init
  <2>6. QED
    BY <2>1, <2>2, <2>3, <2>4, <2>5 DEF TypeOK
<1>2. TypeOK /\ [Next]_vars => TypeOK'
  <2> SUFFICES ASSUME TypeOK, [Next]_vars PROVE TypeOK'
    OBVIOUS
  <2> USE DEF draftVars, launchVars, pageVars
  <2>1. CASE EditForm
    <3>1. form' \in Form /\ loaded' \in BOOLEAN /\ advanced' \in BOOLEAN /\ json \in Text
      BY <2>1 DEF EditForm, TypeOK
    <3>2. json' \in Text /\ \A c \in checking' : c.cfg \in Text
      BY <2>1, <3>1, RenderType DEF EditForm, TypeOK
    <3>3. edits' \in Nat /\ 0..edits \subseteq 0..edits'
      BY <2>1 DEF EditForm, TypeOK
    <3>4. QED
      BY <2>1, <3>1, <3>2, <3>3 DEF EditForm, TypeOK, IsLaunch
  <2>2. CASE ListsArrive
    <3>1. form' \in Form /\ loaded' \in BOOLEAN /\ advanced' \in BOOLEAN /\ json \in Text
      BY <2>2 DEF ListsArrive, TypeOK
    <3>2. json' \in Text /\ \A c \in checking' : c.cfg \in Text
      BY <2>2, <3>1, RenderType DEF ListsArrive, TypeOK
    <3>3. QED
      BY <2>2, <3>1, <3>2 DEF ListsArrive, TypeOK, IsLaunch
  <2>3. CASE SetActiveStep
    <3>1. form' \in Form /\ loaded' \in BOOLEAN /\ advanced' \in BOOLEAN /\ json \in Text
      BY <2>3 DEF SetActiveStep, TypeOK
    <3>2. json' \in Text /\ \A c \in checking' : c.cfg \in Text
      BY <2>3, <3>1, RenderType DEF SetActiveStep, TypeOK
    <3>3. QED
      BY <2>3, <3>1, <3>2 DEF SetActiveStep, TypeOK, IsLaunch
  <2>4. CASE ToggleAdvanced
    <3>1. form' \in Form /\ loaded' \in BOOLEAN /\ advanced' \in BOOLEAN /\ json \in Text
      BY <2>4 DEF ToggleAdvanced, TypeOK
    <3>2. json' \in Text /\ \A c \in checking' : c.cfg \in Text
      BY <2>4, <3>1, RenderType DEF ToggleAdvanced, TypeOK
    <3>3. QED
      BY <2>4, <3>1, <3>2 DEF ToggleAdvanced, TypeOK, IsLaunch
  <2>5. CASE EditJson
    <3>1. form' \in Form /\ loaded' \in BOOLEAN /\ advanced' \in BOOLEAN
      BY <2>5 DEF EditJson, TypeOK
    <3>2. json' \in Text /\ \A c \in checking' : c.cfg \in Text
      BY <2>5, <3>1, RenderType, LaunchAssumption DEF EditJson, TypeOK
    <3>3. edits' \in Nat /\ 0..edits \subseteq 0..edits'
      BY <2>5 DEF EditJson, TypeOK
    <3>4. QED
      BY <2>5, <3>1, <3>2, <3>3 DEF EditJson, TypeOK, IsLaunch
  <2>6. CASE ResetToGuided
    <3>1. form' \in Form /\ loaded' \in BOOLEAN /\ advanced' \in BOOLEAN
          /\ ExperimentConfig(form, loaded) \in Text
      BY <2>6, ConfigIsText DEF ResetToGuided, TypeOK
    <3>2. json' \in Text /\ \A c \in checking' : c.cfg \in Text
      BY <2>6, <3>1, RenderType DEF ResetToGuided, TypeOK
    <3>3. QED
      BY <2>6, <3>1, <3>2 DEF ResetToGuided, TypeOK, IsLaunch
  <2>7. ASSUME NEW c \in checking, VerdictArrives(c) PROVE TypeOK'
    <3>1. \A v \in verdicts' : v.verdict \in {"valid", "invalid"}
      BY <2>7 DEF VerdictArrives, Verdict, TypeOK
    <3>2. QED
      BY <2>7, <3>1 DEF VerdictArrives, TypeOK, IsLaunch
  <2>8. ASSUME NEW c \in checking, ValidationFails(c) PROVE TypeOK'
    BY <2>8 DEF ValidationFails, TypeOK, IsLaunch
  <2>9. CASE Launch
    <3> DEFINE l == [n |-> begun, cfg |-> Current, inst |-> inst, verdict |-> Shown,
                     form |-> form, edits |-> edits]
    <3>1. l.cfg \in Text
      BY DraftIsText DEF Current, TypeOK
    <3>2. l.verdict \in {Null, "valid", "invalid"}
      BY ShownIsCached DEF TypeOK
    <3>3. l.inst \in 1..inst /\ l.edits \in 0..edits /\ l.form \in Form
      BY DEF TypeOK
    <3>4. \A k \in launches' : IsLaunch(k)'
      <4>1. \A k \in launches' : k \in launches \/ k = l
        BY <2>9 DEF Launch
      <4>2. QED
        BY <4>1, <2>9, <3>1, <3>2, <3>3 DEF Launch, IsLaunch, TypeOK
    <3>5. begun' \in 0..MaxLaunches
      BY <2>9, LaunchAssumption DEF Launch, TypeOK
    <3>6. QED
      BY <2>9, <3>4, <3>5 DEF Launch, TypeOK
  <2>10. ASSUME NEW l \in launches, LaunchAccepted(l) PROVE TypeOK'
    <3>1. form' \in Form /\ loaded' \in BOOLEAN /\ step' \in {"form", "review"}
          /\ mounted' \in BOOLEAN /\ error' \in BOOLEAN
      BY <2>10, LaunchAssumption DEF LaunchAccepted, OnSuccess, TypeOK
    <3>2. QED
      BY <2>10, <3>1 DEF LaunchAccepted, TypeOK, IsLaunch
  <2>11. ASSUME NEW l \in launches, LaunchRefused(l) PROVE TypeOK'
    <3>1. error' \in BOOLEAN
      BY <2>11 DEF LaunchRefused, OnError
    <3>2. QED
      BY <2>11, <3>1 DEF LaunchRefused, OnError, TypeOK, IsLaunch
  <2>12. ASSUME NEW l \in launches, LaunchLost(l) PROVE TypeOK'
    <3>1. error' \in BOOLEAN
      BY <2>12 DEF LaunchLost, OnError
    <3>2. server' \subseteq Accepted
      BY <2>12 DEF LaunchLost, TypeOK
    <3>3. QED
      BY <2>12, <3>1, <3>2 DEF LaunchLost, OnError, TypeOK, IsLaunch
  <2>13. CASE Leave
    BY <2>13 DEF Leave, TypeOK, IsLaunch
  <2>14. CASE Mount
    <3>1. form' \in Form /\ loaded' \in BOOLEAN /\ advanced' \in BOOLEAN /\ json \in Text
      BY <2>14 DEF Mount, TypeOK
    <3>2. json' \in Text /\ \A c \in checking' : c.cfg \in Text
      BY <2>14, <3>1, RenderType DEF Mount, TypeOK
    <3>3. inst' \in Nat /\ page' \in 1..inst' /\ 1..inst \subseteq 1..inst'
      BY <2>14 DEF Mount, TypeOK
    <3>4. QED
      BY <2>14, <3>1, <3>2, <3>3 DEF Mount, TypeOK, IsLaunch
  <2>15. CASE Reload
    <3>1. json' \in Text
      BY <2>15, DraftIsText DEF Reload, TypeOK
    <3>2. \A c \in checking' : c.cfg \in Text
      <4>1. \A c \in checking' : c = [key |-> VerdictKey(json'), cfg |-> json']
        BY <2>15, Zenon DEF Reload
      <4>2. QED
        BY <3>1, <4>1
    <3>3. inst' \in Nat /\ page' \in 1..inst' /\ 1..inst \subseteq 1..inst'
      BY <2>15 DEF Reload, TypeOK
    <3>4. QED
      BY <2>15, <3>1, <3>2, <3>3 DEF Reload, TypeOK, IsLaunch
  <2>16. CASE UNCHANGED vars
    BY <2>16 DEF TypeOK, IsLaunch, vars
  <2>17. QED
    BY <2>1, <2>2, <2>3, <2>4, <2>5, <2>6, <2>7, <2>8, <2>9, <2>10, <2>11, <2>12, <2>13,
       <2>14, <2>15, <2>16 DEF Next
<1>3. QED
  BY <1>1, <1>2, PTL DEF Spec

-----------------------------------------------------------------------------
(* Verdicts.                                                               *)

(* What the cache, the checks and the launches remember is true of the     *)
(* texts they are about.  A launch that saw a verdict saw a good one.      *)
Truthful ==
  /\ \A v \in verdicts : v.verdict = Verdict(v.key)
  /\ \A c \in checking : c.key = VerdictKey(c.cfg)
  /\ \A l \in launches : l.verdict # Null => l.cfg \in Accepted
  /\ refused \subseteq {Null}

(* A rendering checks a text under its own key.                            *)
LEMMA RenderTruthful ==
  ASSUME Truthful, NEW text, Render(text)
  PROVE  \A c \in checking' : c.key = VerdictKey(c.cfg)
<1> DEFINE now == Draft(form', loaded', advanced', json')
<1>1. \A c \in checking' : c \in checking \/ c = [key |-> VerdictKey(now), cfg |-> now]
  BY DEF Render, Validating
<1>2. QED
  BY <1>1 DEF Truthful

(* In a truthful state the verdict on screen is the one of the draft.      *)
LEMMA TruthfulShown == Truthful => VerdictIsCurrent
<1>1. ASSUME Truthful, Shown # Null PROVE Shown = Verdict(Current)
  <2>1. PICK v \in verdicts : v.key = VerdictKey(Current) /\ v.verdict = Shown
    BY <1>1, ShownIsCached
  <2>2. QED
    BY <1>1, <2>1 DEF Truthful, VerdictKey
<1>2. QED
  BY <1>1 DEF VerdictIsCurrent

(* Every reachable state is truthful: the invariant behind the two          *)
(* properties below.                                                       *)
THEOREM TruthfulAlways == Spec => []Truthful
<1>1. Init => Truthful
  BY DEF Init, Truthful
<1>2. Truthful /\ [Next]_vars => Truthful'
  <2> SUFFICES ASSUME Truthful, [Next]_vars PROVE Truthful'
    OBVIOUS
  <2> USE DEF draftVars, launchVars, pageVars
  <2>1. CASE EditForm \/ ListsArrive \/ SetActiveStep \/ ToggleAdvanced \/ Mount
    <3>1. Render(json)
      BY <2>1 DEF EditForm, ListsArrive, SetActiveStep, ToggleAdvanced, Mount
    <3>2. UNCHANGED <<verdicts, launches, refused>>
      BY <2>1 DEF EditForm, ListsArrive, SetActiveStep, ToggleAdvanced, Mount
    <3>3. QED
      BY <3>1, <3>2, RenderTruthful DEF Truthful
  <2>2. CASE EditJson
    <3>1. PICK text \in TypedJson : Render(text)
      BY <2>2 DEF EditJson
    <3>2. QED
      BY <2>2, <3>1, RenderTruthful DEF EditJson, Truthful
  <2>3. CASE ResetToGuided
    BY <2>3, RenderTruthful DEF ResetToGuided, Truthful
  <2>4. ASSUME NEW c \in checking, VerdictArrives(c) PROVE Truthful'
    <3>1. Verdict(c.cfg) = Verdict(c.key)
      BY DEF Truthful, VerdictKey
    <3>2. \A v \in verdicts' : v \in verdicts \/ v = [key |-> c.key, verdict |-> Verdict(c.cfg)]
      BY <2>4 DEF VerdictArrives
    <3>3. \A v \in verdicts' : v.verdict = Verdict(v.key)
      BY <3>1, <3>2 DEF Truthful
    <3>4. QED
      BY <2>4, <3>3 DEF VerdictArrives, Truthful
  <2>5. ASSUME NEW c \in checking, ValidationFails(c) PROVE Truthful'
    BY <2>5 DEF ValidationFails, Truthful
  <2>6. CASE Launch
    <3>1. Shown # Null => Current \in Accepted
      BY <2>6, TruthfulShown DEF VerdictIsCurrent, Launch, CanLaunch, Verdict
    <3>2. \A l \in launches' : l \in launches \/ (l.verdict = Shown /\ l.cfg = Current)
      BY <2>6 DEF Launch
    <3>3. \A l \in launches' : l.verdict # Null => l.cfg \in Accepted
      BY <3>1, <3>2 DEF Truthful
    <3>4. QED
      BY <2>6, <3>3 DEF Launch, Truthful
  <2>7. ASSUME NEW l \in launches, LaunchAccepted(l) PROVE Truthful'
    BY <2>7 DEF LaunchAccepted, Truthful
  <2>8. ASSUME NEW l \in launches, LaunchRefused(l) PROVE Truthful'
    <3>1. l.verdict = Null
      BY <2>8 DEF LaunchRefused, Truthful
    <3>2. QED
      BY <2>8, <3>1 DEF LaunchRefused, OnError, Truthful
  <2>9. ASSUME NEW l \in launches, LaunchLost(l) PROVE Truthful'
    BY <2>9 DEF LaunchLost, OnError, Truthful
  <2>10. CASE Leave
    BY <2>10 DEF Leave, Truthful
  <2>11. CASE Reload
    <3>1. \A c \in checking' : c.key = VerdictKey(c.cfg)
      <4>1. \A c \in checking' : c = [key |-> VerdictKey(json'), cfg |-> json']
        BY <2>11, Zenon DEF Reload
      <4>2. QED
        BY <4>1
    <3>2. QED
      BY <2>11, <3>1 DEF Reload, Truthful
  <2>12. CASE UNCHANGED vars
    BY <2>12 DEF Truthful, vars
  <2>13. QED
    BY <2>1, <2>2, <2>3, <2>4, <2>5, <2>6, <2>7, <2>8, <2>9, <2>10, <2>11, <2>12 DEF Next
<1>3. QED
  BY <1>1, <1>2, PTL DEF Spec

(* Whatever answers come late, the verdict on screen is the one of the     *)
(* draft on screen.                                                        *)
THEOREM VerdictCorrect == Spec => []VerdictIsCurrent
BY TruthfulAlways, TruthfulShown, PTL

(* The server refuses no launched config that a verdict was shown for.     *)
THEOREM RefusalCorrect == Spec => []RefusedOnlyUnseen
<1>1. Truthful => RefusedOnlyUnseen
  BY DEF Truthful, RefusedOnlyUnseen
<1>2. QED
  BY <1>1, TruthfulAlways, PTL

-----------------------------------------------------------------------------
(* The form.                                                               *)

(* The form is the one a launch was made from, unless the user has changed *)
(* something since or another launch has reset it.                         *)
Rooted == \A l \in launches : l.edits = edits => l.form = form \/ form = InitialForm

(* Every reachable state is rooted: the invariant behind EntriesKept.      *)
THEOREM RootedAlways == Spec => []Rooted
<1>1. Init => Rooted
  BY DEF Init, Rooted
<1>2. TypeOK /\ Rooted /\ [Next]_vars => Rooted'
  <2> SUFFICES ASSUME TypeOK, Rooted, [Next]_vars PROVE Rooted'
    OBVIOUS
  <2> USE DEF draftVars, launchVars, pageVars
  <2>1. CASE EditForm \/ EditJson
    <3>1. edits' = edits + 1 /\ launches' = launches
      BY <2>1 DEF EditForm, EditJson
    <3>2. \A l \in launches : l.edits \in 0..edits /\ edits \in Nat
      BY DEF TypeOK, IsLaunch
    <3>3. \A l \in launches : l.edits # edits'
      BY <3>1, <3>2
    <3>4. QED
      BY <3>1, <3>3 DEF Rooted
  <2>2. CASE Launch
    <3>1. \A l \in launches' : l \in launches \/ l.form = form
      BY <2>2 DEF Launch
    <3>2. QED
      BY <2>2, <3>1 DEF Launch, Rooted
  <2>3. ASSUME NEW l \in launches, LaunchAccepted(l) PROVE Rooted'
    BY <2>3 DEF LaunchAccepted, OnSuccess, Rooted
  <2>4. ASSUME NEW l \in launches, LaunchRefused(l) \/ LaunchLost(l) PROVE Rooted'
    BY <2>4 DEF LaunchRefused, LaunchLost, OnError, Rooted
  <2>5. CASE ListsArrive \/ SetActiveStep \/ ToggleAdvanced \/ ResetToGuided
    BY <2>5 DEF ListsArrive, SetActiveStep, ToggleAdvanced, ResetToGuided, Rooted
  <2>6. ASSUME NEW c \in checking, VerdictArrives(c) \/ ValidationFails(c) PROVE Rooted'
    BY <2>6 DEF VerdictArrives, ValidationFails, Rooted
  <2>7. CASE Leave \/ Mount \/ Reload
    BY <2>7 DEF Leave, Mount, Reload, Rooted
  <2>8. CASE UNCHANGED vars
    BY <2>8 DEF Rooted, vars
  <2>9. QED
    BY <2>1, <2>2, <2>3, <2>4, <2>5, <2>6, <2>7, <2>8 DEF Next
<1>3. QED
  BY <1>1, <1>2, LaunchTypeCorrect, PTL DEF Spec

(* Nothing but the user's own changes and the success of a launch made     *)
(* from the form on screen replaces the form.                              *)
THEOREM EntriesKept == Spec => EntriesOutliveLaunch
<1> DEFINE Kept ==
      form' # form /\ edits' = edits =>
        \E l \in launches \ launches' :
          l.cfg \in server' /\ (l.edits = edits => l.form = form)
<1>1. TypeOK /\ Rooted /\ [Next]_vars => [Kept]_vars
  <2> SUFFICES ASSUME TypeOK, Rooted, Next, form' # form, edits' = edits PROVE Kept
    BY DEF vars
  <2> USE DEF draftVars, launchVars, pageVars
  <2>1. ~EditForm /\ ~EditJson
    <3>1. edits \in Nat
      BY DEF TypeOK
    <3>2. QED
      BY <3>1 DEF EditForm, EditJson
  <2>2. ~(\E c \in checking : VerdictArrives(c) \/ ValidationFails(c))
    BY DEF VerdictArrives, ValidationFails
  <2>3. ~(ListsArrive \/ SetActiveStep \/ ToggleAdvanced \/ ResetToGuided)
    BY DEF ListsArrive, SetActiveStep, ToggleAdvanced, ResetToGuided
  <2>4. ~(Launch \/ Leave \/ Mount \/ Reload)
    BY DEF Launch, Leave, Mount, Reload
  <2>5. ~(\E l \in launches : LaunchRefused(l) \/ LaunchLost(l))
    BY DEF LaunchRefused, LaunchLost, OnError
  <2>6. PICK l \in launches : LaunchAccepted(l)
    BY <2>1, <2>2, <2>3, <2>4, <2>5 DEF Next
  <2>7. l \in launches \ launches' /\ l.cfg \in server'
    BY <2>6 DEF LaunchAccepted
  <2>8. form' = InitialForm
    BY <2>6 DEF LaunchAccepted, OnSuccess
  <2>9. l.edits = edits => l.form = form
    BY <2>8 DEF Rooted
  <2>10. QED
    BY <2>7, <2>9
<1>2. QED
  BY <1>1, LaunchTypeCorrect, RootedAlways, PTL DEF Spec, EntriesOutliveLaunch

=============================================================================
