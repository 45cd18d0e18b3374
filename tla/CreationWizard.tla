--------------------------- MODULE CreationWizard ---------------------------
(***************************************************************************)
(* The form of the wizard that creates an experiment (tabs/                *)
(* ExperimentCreationTab.tsx) on its persisted store (features/experiments *)
(* /store.ts): the steps, the lists of components the server answers, the  *)
(* selections, the entries, and the config they make.  Checking and        *)
(* launching that config is WizardLaunch.                                  *)
(*                                                                         *)
(* The form keeps every selection and every entry when an earlier one      *)
(* changes.  The lists are cached under the selections they were filtered  *)
(* by.  A component whose list has not come, or does not hold it, has no   *)
(* descriptor, and its entries stay out of the config.                     *)
(*                                                                         *)
(* Parameters are numbers or switches: a schema's strings (the name of a   *)
(* Stim circuit), which take any text, and its seed, which may be null,    *)
(* are left out, as are the experiment's name, output path and backend.    *)
(***************************************************************************)
EXTENDS Compatibility, Lists

CONSTANTS
  Key,          \* names of parameters
  Text,         \* what a field may hold: texts, split at their commas
  PropsOf,      \* PropsOf[x]: the properties of component x's schema
  DefaultOf,    \* DefaultOf[x][k]: the default of property k, or Null
  BooleanKey,   \* the parameters that are switches; the others are numbers
  InitialForm,  \* initialExperimentForm
  MaxEdits,     \* bound on the changes of selections and entries
  MaxLoads,     \* bound on the loads of the page
  Null          \* no entry, no parameter, no answer

Kind == {"circuit", "noise", "runner", "decoder"}
Component == Circuit \cup Noise \cup Runner \cup Decoder

(* What the two readings tell apart between the commas of a text: nothing, *)
(* a number that suits the field, the shorthands of a sweep (its commas    *)
(* are not split at), a text that only Python reads as a number (1_000,    *)
(* inf), the name of a parameter, and any other word.                      *)
Part == Key \cup {"", "3", "linspace(3,7,3)", "1_000", "x", "true", "false", "distance", "d"}
Blank == <<"">>

Value == [kind : {"num", "str", "list", "space"}, items : Seq(Part)]

(* A check box writes nothing but true and false.                          *)
Raw ==
  {raw \in [Key -> Text \cup {Null}] :
     \A k \in BooleanKey : raw[k] \in {Null, <<"true">>, <<"false">>}}
Form == [sel : Selection, raw : [Kind -> Raw]]
Params == [Key -> Value \cup {Null}]

ASSUME WizardAssumption ==
  /\ MaxEdits \in Nat
  /\ MaxLoads \in Nat \ {0}
  /\ PropsOf \in [Component -> SUBSET Key]
  /\ DefaultOf \in [Component -> Params]
  /\ BooleanKey \subseteq Key
  /\ InitialForm \in Form

ASSUME TextAssumption ==
  /\ Text \subseteq Seq(Part) \ {<<>>}
  /\ {Blank, <<"true">>, <<"false">>} \subseteq Text
  /\ \A t \in Text : Len(t) > 1 => ~Contains(t, "linspace(3,7,3)")
  /\ IsFiniteSet(Key)
  /\ Key \cap {"", "3", "linspace(3,7,3)", "1_000", "x", "true", "false", "space"} = {}
  /\ Null \notin Text \cup Value

VARIABLES
  form,     \* the selections and the entries, persisted
  step,     \* the step of the wizard, persisted
  asked,    \* the lists asked for on this page
  lists,    \* those the server has answered
  offline,  \* the list of circuits could not be loaded
  loads,    \* the loads of the page so far
  edits     \* the changes of selections and entries so far

vars == <<form, step, asked, lists, offline, loads, edits>>
listVars == <<asked, lists, offline, loads>>

Step == 0..5

-----------------------------------------------------------------------------
(* Entries.                                                                *)

(* parseInputValue, on a text that is not blank.  A true among the members *)
(* of a list is a word like any other.                                     *)
ParseInputValue(t) ==
  IF Len(t) > 1
  THEN LET parts == Keep(t, Part \ {""}) IN
       [kind |-> "list",
        items |-> [n \in 1..Len(parts) |->
                     IF parts[n] \in {"true", "false"} THEN "x" ELSE parts[n]]]
  ELSE CASE t[1] = "linspace(3,7,3)" -> [kind |-> "space", items |-> <<"3">>]
         [] t[1] \in {"3", "true", "false"} -> [kind |-> "num", items |-> t]
         [] OTHER -> [kind |-> "str", items |-> t]

(* The zod schema of the type itself.                                      *)
ZodScalar(k) == IF k \in BooleanKey THEN {"true", "false"} ELSE {"3"}

(* Mutant of ZodAccepts: no sweep shorthand.                               *)
ZodAcceptsNoSpace(k, v) ==
  \/ v.kind = "str" /\ v.items[1] \in {"distance", "d"}
  \/ v.kind \in {"num", "list"} /\ ToSet(v.items) \subseteq ZodScalar(k)

(* The zod schema of a property: a sweep shorthand, a reference, the value *)
(* or a list of them.                                                      *)
ZodAccepts(k, v) ==
  \/ v.kind = "space"
  \/ v.kind = "str" /\ v.items[1] \in {"distance", "d"}
  \/ v.kind \in {"num", "list"} /\ ToSet(v.items) \subseteq ZodScalar(k)

(* validateParam: the field is marked as wrong.                            *)
Flagged(k, t) == t \notin {Null, Blank} /\ ~ZodAccepts(k, ParseInputValue(t))

-----------------------------------------------------------------------------
(* Lists and descriptors.                                                  *)

(* The key of a list: the selections it is filtered by.                    *)
ListKey(kind, s) ==
  [kind |-> kind,
   circuit |-> IF kind = "circuit" THEN Null ELSE s.circuit,
   noise |-> IF kind \in {"runner", "decoder"} THEN s.noise ELSE Null,
   runner |-> IF kind = "decoder" THEN s.runner ELSE Null]

ListKeys == [kind : Kind, circuit : Circuit \cup {Null}, noise : Noise \cup {Null},
             runner : Runner \cup {Null}]

ListKeysOf(s) == {ListKey(kind, s) : kind \in Kind}

(* What getCategoryComponents answers.                                     *)
Listed(kind, s) ==
  CASE kind = "circuit" -> Circuit
    [] kind = "noise" -> ListedNoises(s)
    [] kind = "runner" -> ListedRunners(s)
    [] kind = "decoder" -> ListedDecoders(s)

Described(kind, s, ls) == ListKey(kind, s) \in ls /\ s[kind] \in Listed(kind, s)

(* parseRawParams: defaults, then the entries that are not blank, of the   *)
(* schema's properties only.                                               *)
ParseRawParams(x, raw) ==
  [k \in Key |->
     IF k \notin PropsOf[x] THEN Null
     ELSE IF raw[k] \in {Null, Blank} THEN DefaultOf[x][k]
     ELSE ParseInputValue(raw[k])]

NoParams == [k \in Key |-> Null]

ExperimentConfig(f, ls) ==
  [sel |-> f.sel,
   params |-> [kind \in Kind |-> IF Described(kind, f.sel, ls)
                                 THEN ParseRawParams(f.sel[kind], f.raw[kind])
                                 ELSE NoParams]]

-----------------------------------------------------------------------------
(* The server's validation.                                                *)

(* The reading of the params, with no sweep in a list: its shorthand has   *)
(* commas.                                                                 *)
Expansion ==
  INSTANCE SweepExpansion WITH Number <- {"3", "true", "false"}, Text <- Part,
                               Sweep <- {}, FirstOf <- <<>>

(* The orders the JSON object may have its keys in: that of the schema for *)
(* the defaults, then that of the entries as they were first made.         *)
Orders(p) ==
  LET given == {k \in Key : p[k] # Null}
  IN {order \in [1..Cardinality(given) -> given] : ToSet(order) = given}

InOrder(p, order) ==
  [n \in 1..Len(order) |->
     [key |-> order[n], kind |-> p[order[n]].kind, items |-> p[order[n]].items]]

(* Pydantic reads "3" and "1_000", and turns true into 1; a switch takes   *)
(* no number.                                                              *)
PydanticAccepts(k) == {"true", "false"} \cup (IF k \in BooleanKey THEN {} ELSE {"3", "1_000"})

(* The adapter is built with the first point.                              *)
ParamsAccepted(x, p, order) ==
  /\ ~Expansion!FirstRaises(InOrder(p, order))
  /\ \A k \in Key :
       IF p[k] = Null THEN k \in PropsOf[x] => DefaultOf[x][k] # Null
       ELSE /\ k \in PropsOf[x]
            /\ Expansion!FirstPoint(InOrder(p, order))[k] \in PydanticAccepts(k)

(* Accepted, in one order at least.                                        *)
Accepted(cfg) ==
  /\ Validate(cfg.sel)
  /\ \A kind \in Kind : \E order \in Orders(cfg.params[kind]) :
       ParamsAccepted(cfg.sel[kind], cfg.params[kind], order)

-----------------------------------------------------------------------------
(* The form.                                                               *)

Init ==
  /\ form = InitialForm
  /\ step = 0
  /\ asked = ListKeysOf(InitialForm.sel)
  /\ lists = {} /\ offline = FALSE
  /\ loads = 1
  /\ edits = 0

(* Mutant of Selected: every card sets the circuit.                        *)
SelectedAsCircuit(f, kind, x) == [f EXCEPT !.sel["circuit"] = x]

(* updateFormVal: one selection changes, and nothing else.                 *)
Selected(f, kind, x) == [f EXCEPT !.sel[kind] = x]

(* A card of the step's list is clicked.                                   *)
Choose(kind, at, x) ==
  /\ ~offline /\ step = at
  /\ ListKey(kind, form.sel) \in lists
  /\ x \in Listed(kind, form.sel) \ {form.sel[kind]}
  /\ edits < MaxEdits
  /\ edits' = edits + 1
  /\ form' = Selected(form, kind, x)
  /\ asked' = asked \cup ListKeysOf(form'.sel)
  /\ UNCHANGED <<step, lists, offline, loads>>

ChooseCircuit == \E x \in Circuit : Choose("circuit", 1, x)
ChooseNoise == \E x \in Noise : Choose("noise", 2, x)
ChooseRunner == \E x \in Runner : Choose("runner", 3, x)
ChooseDecoder == \E x \in Decoder : Choose("decoder", 4, x)

(* The step of the wizard that is about each kind.                         *)
StepOf(kind) ==
  CASE kind = "circuit" -> 1 [] kind = "noise" -> 2 [] kind = "runner" -> 3 [] kind = "decoder" -> 4

(* The fields of a component: for every property a check box or a text,    *)
(* which can be given another text than they have.                         *)
Fields(x, raw) ==
  {e \in [key : PropsOf[x], text : Text] :
     /\ e.text # raw[e.key]
     /\ e.key \in BooleanKey => e.text \in {<<"true">>, <<"false">>}}

(* handleParamChange, from a field of the selected component.              *)
HandleParamChange(kind) ==
  /\ ~offline /\ step = StepOf(kind)
  /\ Described(kind, form.sel, lists)
  /\ edits < MaxEdits
  /\ edits' = edits + 1
  /\ \E e \in Fields(form.sel[kind], form.raw[kind]) :
       form' = [form EXCEPT !.raw[kind][e.key] = e.text]
  /\ UNCHANGED <<step, listVars>>

(* The stepper is there without the server too.                            *)
ClickStep ==
  /\ step' \in Step \ {step}
  /\ UNCHANGED <<form, listVars, edits>>

(* The footer.                                                             *)
Back ==
  /\ ~offline /\ step > 0
  /\ step' = step - 1
  /\ UNCHANGED <<form, listVars, edits>>

Continue ==
  /\ ~offline /\ step < 5
  /\ step' = step + 1
  /\ UNCHANGED <<form, listVars, edits>>

-----------------------------------------------------------------------------
(* Answers of the registry.                                                *)

(* A list may come when the selection it is for is gone: it waits under    *)
(* its key.                                                                *)
ListArrives(key) ==
  /\ key \in asked \ lists
  /\ key.kind = "circuit" => ~offline
  /\ lists' = lists \cup {key}
  /\ UNCHANGED <<form, step, asked, offline, loads, edits>>

CircuitsFail ==
  /\ ~offline
  /\ ListKey("circuit", form.sel) \notin lists
  /\ offline' = TRUE
  /\ UNCHANGED <<form, step, asked, lists, loads, edits>>

(* All four lists are asked for again.                                     *)
RetryConnection ==
  /\ offline
  /\ offline' = FALSE
  /\ UNCHANGED <<form, step, asked, lists, loads, edits>>

(* The store is persisted, the lists are not.                              *)
Reload ==
  /\ loads < MaxLoads
  /\ loads' = loads + 1
  /\ lists' = {} /\ asked' = ListKeysOf(form.sel)
  /\ offline' = FALSE
  /\ UNCHANGED <<form, step, edits>>

(* A launch succeeded.                                                     *)
ResetForm ==
  /\ step = 5
  /\ form' = InitialForm /\ step' = 0
  /\ asked' = asked \cup ListKeysOf(InitialForm.sel)
  /\ UNCHANGED <<lists, offline, loads, edits>>

Next ==
  \/ ChooseCircuit \/ ChooseNoise \/ ChooseRunner \/ ChooseDecoder
  \/ \E kind \in Kind : HandleParamChange(kind)
  \/ ClickStep \/ Back \/ Continue
  \/ \E key \in asked : ListArrives(key)
  \/ CircuitsFail \/ RetryConnection
  \/ Reload \/ ResetForm

Spec == Init /\ [][Next]_vars

-----------------------------------------------------------------------------
(* Properties.                                                             *)

(* The form is well formed, and the lists on the page include those asked  *)
(* for with the present selections.                                        *)
TypeOK ==
  /\ form \in Form
  /\ step \in Step
  /\ ListKeysOf(form.sel) \subseteq asked /\ lists \subseteq asked
  /\ offline \in BOOLEAN
  /\ loads \in 1..MaxLoads
  /\ edits \in 0..MaxEdits

(* Whatever is chosen from the lists as the server filters them passes the *)
(* validator's compatibility checks: the two readings of the declared sets *)
(* agree along the whole chain of steps, for selections made under other   *)
(* filters too, once they are in the list again.                           *)
OfferedIsAccepted ==
  (\A kind \in Kind : Described(kind, form.sel, lists)) => Validate(form.sel)

(* Every set that applies to the component is declared.                    *)
Declared(kind, x) ==
  CASE kind = "circuit" -> TRUE
    [] kind = "noise" -> CircuitsOf[x] # {}
    [] kind = "runner" -> CircuitsOf[x] # {} /\ NoisesOf[x] # {}
    [] kind = "decoder" -> CircuitsOf[x] # {} /\ NoisesOf[x] # {} /\ RunnersOf[x] # {}

(* A selection that went stale because an earlier one changed is caught:   *)
(* the server refuses a config with a component that is gone from the list *)
(* of its step, if the component declares all of its sets.  One that       *)
(* leaves a set empty is never listed and may be accepted.                 *)
StaleIsRefused ==
  \A kind \in Kind :
    /\ ListKey(kind, form.sel) \in lists
    /\ ~Described(kind, form.sel, lists)
    /\ Declared(kind, form.sel[kind])
    => ~Accepted(ExperimentConfig(form, lists))

(* What the server reads in a field otherwise than the field itself does:  *)
(* of a list it looks at the first member only, true is 1, 1_000 is a      *)
(* number, and a text is a reference when it names another parameter of    *)
(* the component, not just distance.                                       *)
OnlyTheServerReads(k, t, p) ==
  LET v == ParseInputValue(t) IN
  \/ v.kind = "list" /\ v.items[1] = "3"
  \/ v.items[1] \in {"true", "false", "1_000"}
  \/ v.items[1] \in {j \in Key \ {k} : p[j] # Null}

(* The fields' own check and the server agree but for those readings: with *)
(* any other field that is marked wrong, the server refuses the config.    *)
AcceptedIsUnflagged ==
  \A kind \in Kind : Described(kind, form.sel, lists) =>
    \A k \in PropsOf[form.sel[kind]] :
      Flagged(k, form.raw[kind][k]) =>
        \/ OnlyTheServerReads(k, form.raw[kind][k], ExperimentConfig(form, lists).params[kind])
        \/ ~Accepted(ExperimentConfig(form, lists))

=============================================================================
