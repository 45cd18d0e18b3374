---------------------------- MODULE WizardLaunch ----------------------------
(***************************************************************************)
(* Checking and launching what the creation wizard shows (tabs/            *)
(* ExperimentCreationTab.tsx): the JSON editor, the validation query, the  *)
(* submit mutation, and what becomes of them when the user leaves the      *)
(* wizard, comes back, or loads the page again.                            *)
(*                                                                         *)
(* The form is one of a set: CreationWizard has its selections, entries    *)
(* and lists.  Of those this module keeps what they make of the config:    *)
(* the whole one, or a bare one while a list is missing.  The steps before *)
(* the last one are one.                                                   *)
(*                                                                         *)
(* The query cache belongs to the page, the pending state and the error to *)
(* the instance of the component; the callbacks of a launch run for an     *)
(* instance that is gone, too, but not on a page that was loaded again.    *)
(***************************************************************************)
EXTENDS Integers, FiniteSets

CONSTANTS
  Form,         \* what the form can hold
  InitialForm,  \* initialExperimentForm
  Config,       \* configs
  WholeConfig,  \* WholeConfig[f]: the config of form f with all descriptors
  BareConfig,   \* BareConfig[f]: while a descriptor is missing
  Accepted,     \* the configs the server accepts
  TypedJson,    \* what users type in the JSON editor
  MaxEdits,     \* bound on the changes of the form and of the text
  MaxChecks,    \* bound on the validations in flight and in the cache
  MaxMounts,    \* bound on the component instances
  MaxLaunches,  \* bound on the launches
  Broken,       \* a text that is no JSON
  Null          \* no verdict

Text == Config \cup {Broken}

ASSUME LaunchAssumption ==
  /\ InitialForm \in Form
  /\ WholeConfig \in [Form -> Config] /\ BareConfig \in [Form -> Config]
  /\ Accepted \subseteq Config
  /\ TypedJson \subseteq Text
  /\ Broken \notin Config
  /\ Null \notin {"valid", "invalid"}
  /\ {MaxEdits, MaxChecks, MaxMounts, MaxLaunches} \subseteq Nat

VARIABLES
  form,       \* persisted
  loaded,     \* the lists of its selections are there
  step,       \* persisted
  advanced,   \* the JSON editor is on, persisted
  json,       \* its text, persisted
  checking,   \* validations in flight: the key, and the text that was sent
  verdicts,   \* their answers in the cache, one for a key at most
  launches,   \* launches in flight
  begun,      \* the launches so far
  inst,       \* the component instances so far
  mounted,    \* the last one is on screen
  page,       \* its first instance since the page was loaded
  error,      \* it shows a launch error
  server,     \* the configs of the experiments on the server
  refused,    \* history: the verdicts shown when refused configs were launched
  edits       \* the changes so far

vars == <<form, loaded, step, advanced, json, checking, verdicts, launches, begun,
          inst, mounted, page, error, server, refused, edits>>

draftVars == <<form, loaded, step, advanced, edits>>
launchVars == <<launches, begun, error, server, refused>>
pageVars == <<inst, mounted, page>>

IsLaunch(l) ==
  /\ l.cfg \in Text
  /\ l.inst \in 1..inst
  /\ l.verdict \in {Null, "valid", "invalid"}
  /\ l.form \in Form
  /\ l.edits \in 0..edits

(* Checks, answers and launches are well formed, and launches belong to    *)
(* instances there have been.                                              *)
TypeOK ==
  /\ form \in Form
  /\ loaded \in BOOLEAN /\ advanced \in BOOLEAN /\ mounted \in BOOLEAN /\ error \in BOOLEAN
  /\ step \in {"form", "review"}
  /\ json \in Text
  /\ \A c \in checking : c.cfg \in Text
  /\ \A v \in verdicts : v.verdict \in {"valid", "invalid"}
  /\ \A l \in launches : IsLaunch(l)
  /\ begun \in 0..MaxLaunches
  /\ inst \in Nat /\ page \in 1..inst
  /\ server \subseteq Accepted
  /\ edits \in Nat

-----------------------------------------------------------------------------
(* What is on screen.                                                      *)

ExperimentConfig(f, ls) == IF ls THEN WholeConfig[f] ELSE BareConfig[f]

(* What the validation checks and a launch sends.                          *)
Draft(f, ls, a, j) == IF a THEN j ELSE ExperimentConfig(f, ls)
Current == Draft(form, loaded, advanced, json)

(* Mutant of VerdictKey: one key for all texts.                            *)
VerdictKeyOfAll(text) == Broken

(* The key of a verdict is the text it is about.                           *)
VerdictKey(text) == text

(* validate_experiment; a text that is no JSON is not sent.                *)
Verdict(text) == IF text \in Accepted THEN "valid" ELSE "invalid"

(* The cached verdict of the draft.                                        *)
Shown ==
  IF \E v \in verdicts : v.key = VerdictKey(Current)
  THEN (CHOOSE v \in verdicts : v.key = VerdictKey(Current)).verdict
  ELSE Null

Pending == \E l \in launches : l.inst = inst

(* Mutant of CanLaunch: the verdict is not looked at.                      *)
CanLaunchAnything == mounted /\ step = "review" /\ ~Pending

(* Both buttons: on the last step, unless the verdict is bad.              *)
CanLaunch == mounted /\ step = "review" /\ ~Pending /\ Shown # "invalid"

-----------------------------------------------------------------------------
(* What every rendering brings about.                                      *)

(* A validation is sent when the last step shows a draft anew, unless one  *)
(* with its key is in flight.                                              *)
Validating(before, now) ==
  IF /\ mounted' /\ step' = "review"
     /\ ~(mounted /\ step = "review" /\ inst' = inst /\ before = VerdictKey(now))
     /\ \A c \in checking : c.key # VerdictKey(now)
  THEN checking \cup {[key |-> VerdictKey(now), cfg |-> now]}
  ELSE checking

(* The effect that copies the config into the editor while that is off,    *)
(* and the query.                                                          *)
Render(text) ==
  /\ json' = IF mounted' /\ ~advanced' THEN ExperimentConfig(form', loaded') ELSE text
  /\ checking' = Validating(VerdictKey(Current), Draft(form', loaded', advanced', json'))
  /\ Cardinality(checking') + Cardinality(verdicts) <= MaxChecks

-----------------------------------------------------------------------------
(* The draft.                                                              *)

Init ==
  /\ form = InitialForm /\ loaded = FALSE
  /\ step = "form"
  /\ advanced = FALSE
  /\ json = BareConfig[InitialForm]
  /\ checking = {} /\ verdicts = {}
  /\ launches = {} /\ begun = 0
  /\ inst = 1 /\ mounted = TRUE /\ page = 1
  /\ error = FALSE
  /\ server = {} /\ refused = {}
  /\ edits = 0

(* A selection or an entry changes.  The lists of other selections may or  *)
(* may not be in the cache.                                                *)
EditForm ==
  /\ mounted /\ ~advanced /\ step = "form"
  /\ edits < MaxEdits /\ edits' = edits + 1
  /\ form' \in Form \ {form}
  /\ loaded' \in BOOLEAN
  /\ UNCHANGED <<step, advanced, verdicts, launchVars, pageVars>>
  /\ Render(json)

ListsArrive ==
  /\ ~loaded
  /\ loaded' = TRUE
  /\ UNCHANGED <<form, step, advanced, edits, verdicts, launchVars, pageVars>>
  /\ Render(json)

SetActiveStep ==
  /\ mounted /\ ~advanced
  /\ step' \in {"form", "review"} \ {step}
  /\ UNCHANGED <<form, loaded, advanced, edits, verdicts, launchVars, pageVars>>
  /\ Render(json)

(* Leaving the editor puts the form's config in place of its text.         *)
ToggleAdvanced ==
  /\ mounted
  /\ advanced' = ~advanced
  /\ UNCHANGED <<form, loaded, step, edits, verdicts, launchVars, pageVars>>
  /\ Render(json)

EditJson ==
  /\ mounted /\ advanced
  /\ edits < MaxEdits /\ edits' = edits + 1
  /\ UNCHANGED <<form, loaded, step, advanced, verdicts, launchVars, pageVars>>
  /\ \E text \in TypedJson \ {json} : Render(text)

ResetToGuided ==
  /\ mounted /\ advanced
  /\ UNCHANGED <<draftVars, verdicts, launchVars, pageVars>>
  /\ Render(ExperimentConfig(form, loaded))

-----------------------------------------------------------------------------
(* The validation.                                                         *)

VerdictArrives(c) ==
  /\ checking' = checking \ {c}
  /\ verdicts' = {v \in verdicts : v.key # c.key}
                   \cup {[key |-> c.key, verdict |-> Verdict(c.cfg)]}
  /\ UNCHANGED <<draftVars, json, launchVars, pageVars>>

(* No answer after the retries: the report says failed, with no verdict.   *)
ValidationFails(c) ==
  /\ c.cfg # Broken
  /\ checking' = checking \ {c}
  /\ UNCHANGED <<draftVars, json, verdicts, launchVars, pageVars>>

-----------------------------------------------------------------------------
(* Launching.                                                              *)

Launch ==
  /\ CanLaunch
  /\ begun < MaxLaunches
  /\ begun' = begun + 1
  /\ launches' = launches \cup
       {[n |-> begun, cfg |-> Current, inst |-> inst, verdict |-> Shown,
         form |-> form, edits |-> edits]}
  /\ UNCHANGED <<draftVars, json, checking, verdicts, error, server, refused, pageVars>>

(* onSuccess: forget the error, reset the form and the step, and go to the *)
(* experiments.  The editor stays on, and its text stays.                  *)
OnSuccess(l) ==
  IF l.inst >= page
  THEN /\ form' = InitialForm
       /\ loaded' \in (IF form = InitialForm THEN {loaded} ELSE BOOLEAN)
       /\ step' = "form"
       /\ mounted' = FALSE
       /\ error' = FALSE
  ELSE UNCHANGED <<form, loaded, step, mounted, error>>

(* Mutant of LaunchAccepted: the server does not check the config.         *)
LaunchTaken(l) ==
  /\ launches' = launches \ {l}
  /\ server' = server \cup {l.cfg}
  /\ OnSuccess(l)
  /\ UNCHANGED <<advanced, json, checking, verdicts, edits, begun, refused, inst, page>>

LaunchAccepted(l) ==
  /\ l.cfg \in Accepted
  /\ launches' = launches \ {l}
  /\ server' = server \cup {l.cfg}
  /\ OnSuccess(l)
  /\ UNCHANGED <<advanced, json, checking, verdicts, edits, begun, refused, inst, page>>

(* Mutant of OnError: the form is reset whatever the answer.               *)
OnSettled(l) ==
  /\ launches' = launches \ {l}
  /\ form' = InitialForm
  /\ UNCHANGED <<error, loaded, step, advanced, edits, json, checking, verdicts, begun, pageVars>>

(* The error shows where the launch was made.                              *)
OnError(l) ==
  /\ launches' = launches \ {l}
  /\ error' = (error \/ (l.inst = inst /\ mounted))
  /\ UNCHANGED <<draftVars, json, checking, verdicts, begun, pageVars>>

(* The text is no JSON, or the server refuses the config.                  *)
LaunchRefused(l) ==
  /\ l.cfg \notin Accepted
  /\ refused' = refused \cup {l.verdict}
  /\ OnError(l)
  /\ UNCHANGED server

(* The request or its answer is lost.                                      *)
LaunchLost(l) ==
  /\ l.cfg # Broken
  /\ server' \in {server, server \cup ({l.cfg} \cap Accepted)}
  /\ OnError(l)
  /\ UNCHANGED refused

-----------------------------------------------------------------------------
(* The page.                                                               *)

Leave ==
  /\ mounted
  /\ mounted' = FALSE
  /\ UNCHANGED <<draftVars, json, checking, verdicts, launchVars, inst, page>>

Mount ==
  /\ ~mounted /\ inst < MaxMounts
  /\ inst' = inst + 1 /\ mounted' = TRUE
  /\ error' = FALSE
  /\ UNCHANGED <<draftVars, verdicts, launches, begun, server, refused, page>>
  /\ Render(json)

(* The form, the step and the editor are kept; the cache is not.           *)
Reload ==
  /\ inst < MaxMounts
  /\ inst' = inst + 1 /\ mounted' = TRUE /\ page' = inst + 1
  /\ loaded' = FALSE
  /\ error' = FALSE
  /\ verdicts' = {}
  /\ json' = Draft(form, FALSE, advanced, json)
  /\ checking' = IF step = "review"
                 THEN {[key |-> VerdictKey(json'), cfg |-> json']} ELSE {}
  /\ UNCHANGED <<form, step, advanced, edits, launches, begun, server, refused>>

Next ==
  \/ EditForm \/ ListsArrive \/ SetActiveStep
  \/ ToggleAdvanced \/ EditJson \/ ResetToGuided
  \/ \E c \in checking : VerdictArrives(c) \/ ValidationFails(c)
  \/ Launch
  \/ \E l \in launches : LaunchAccepted(l) \/ LaunchRefused(l) \/ LaunchLost(l)
  \/ Leave \/ Mount \/ Reload

Spec == Init /\ [][Next]_vars

-----------------------------------------------------------------------------
(* Properties.                                                             *)

(* The verdict on screen is the one of the draft on screen, however late   *)
(* the answers about other drafts come, and across the editor, the lists,  *)
(* other pages and reloads.                                                *)
VerdictIsCurrent == Shown # Null => Shown = Verdict(Current)

(* The server refuses no launched config that a verdict was shown for:     *)
(* only a launch made before the verdict came, or after its validation     *)
(* failed, can be refused.                                                 *)
RefusedOnlyUnseen == refused \subseteq {Null}

(* The form is thrown away only by the success of a launch: the server has *)
(* the launched config, and it was launched from this form, unless the     *)
(* user has changed something since.                                       *)
EntriesOutliveLaunch ==
  [][form' # form /\ edits' = edits =>
       \E l \in launches \ launches' :
         l.cfg \in server' /\ (l.edits = edits => l.form = form)]_vars

=============================================================================
