-------------------------- MODULE ExperimentBrowser --------------------------
(***************************************************************************)
(* The list of experiments in the browser (features/experiments/components *)
(* /ExperimentBrowser.tsx on the calls of api/experiments.ts): the list    *)
(* and its polling, the inspector, the actions of a row with their         *)
(* dialogs, and what happens when answers are late, are lost, or meet a    *)
(* server that has moved on.                                               *)
(*                                                                         *)
(* The server is ExperimentLife, the promise of the task queue: it may     *)
(* move at any time.  The cached list outlives the component.  What the    *)
(* inspector asks for is left out, as nothing else reads its answers, and  *)
(* so are sorting, filters and layout.                                     *)
(***************************************************************************)
EXTENDS Integers, FiniteSets

CONSTANTS
  ExpId,      \* primary keys of experiments
  Limit,      \* rows of a list, 100 in the code
  Job,        \* decoding jobs
  MaxMoves,   \* bound on the moves of the server on its own
  MaxWrites,  \* bound on the actions sent
  MaxMounts,  \* bound on the instances of the component
  Sent,       \* a request the server has not read
  None        \* nothing

Status == {"ABSENT", "PENDING", "RUNNING", "COMPLETED", "FAILED", "CANCELLED"}

(* An answer to the list: what the server had, at which version.           *)
Answer == [st : [ExpId -> Status], at : Nat]

ASSUME BrowserAssumption ==
  /\ ExpId \subseteq Nat \ {0}
  /\ Limit \in Nat \ {0}
  /\ {Sent, None} \cap Answer = {}
  /\ {MaxMoves, MaxWrites} \subseteq Nat /\ MaxMounts \in Nat \ {0}
  /\ Sent # None

VARIABLES
  st, left,   \* the server
  moves,      \* its moves on its own so far
  version,    \* its changes so far
  list,       \* the last answer, None before the first
  asking,     \* the request for it in flight: Sent, or the answer under way
  failed,     \* the list shows an error
  writes,     \* the actions in flight
  begun,      \* the actions so far
  mounted,    \* the component is on screen
  mounts,     \* its instances so far
  inspected,  \* detailExpId, 0 for null
  dialog,     \* the confirmation dialog that is open
  written,    \* history: the last own change answered on screen
  refusals    \* history: the statuses shown, and found, for refused actions

server == <<st, left, moves, version>>
query == <<list, asking, failed>>
screen == <<mounted, mounts, inspected, dialog>>
vars == <<server, query, writes, begun, screen, written, refusals>>

Server == INSTANCE ExperimentLife

Init ==
  /\ Server!Init
  /\ moves = 0 /\ version = 0
  /\ list = None /\ asking = Sent /\ failed = FALSE
  /\ writes = {} /\ begun = 0
  /\ mounted = TRUE /\ mounts = 1
  /\ inspected = 0 /\ dialog = None
  /\ written = 0 /\ refusals = {}

-----------------------------------------------------------------------------
(* The list.                                                               *)

(* One request at a time.                                                  *)
Asked == IF asking = None THEN Sent ELSE asking

(* Mutant of Poll: only experiments under way are polled for.              *)
PollWhileBusy ==
  /\ mounted /\ asking = None
  /\ list # None => \E i \in ExpId : list.st[i] \in {"PENDING", "RUNNING"}
  /\ asking' = Asked
  /\ UNCHANGED <<server, list, failed, writes, begun, screen, written, refusals>>

(* Every five seconds, the refresh button, and the focus on the window.    *)
Poll ==
  /\ mounted /\ asking = None
  /\ asking' = Asked
  /\ UNCHANGED <<server, list, failed, writes, begun, screen, written, refusals>>

(* The rows with fewer than Limit in front of them, the newest first:    *)
(* keys are given in the order of creation.                                *)
Present(s) == {i \in ExpId : s[i] # "ABSENT"}
Newest(s) == {i \in Present(s) : Cardinality({j \in Present(s) : j > i}) < Limit}

(* What a list holds of the statuses.                                      *)
Window(s) == [i \in ExpId |-> IF i \in Newest(s) THEN s[i] ELSE "ABSENT"]

(* list_experiments, asked for with no limit and no offset.                *)
ServerReads ==
  /\ asking = Sent
  /\ asking' = [st |-> Window(st), at |-> version]
  /\ UNCHANGED <<server, list, failed, writes, begun, screen, written, refusals>>

Answered ==
  /\ asking \notin {None, Sent}
  /\ list' = asking
  /\ asking' = None
  /\ failed' = FALSE
  /\ UNCHANGED <<server, writes, begun, screen, written, refusals>>

(* No answer after the retries: the rows stay, under an error.             *)
QueryFails ==
  /\ asking # None
  /\ asking' = None
  /\ failed' = TRUE
  /\ UNCHANGED <<server, list, writes, begun, screen, written, refusals>>

(* Mutant of Invalidated: a request in flight will do.                     *)
InvalidatedLazily == IF mounted THEN Asked ELSE asking

(* invalidateQueries: a list on screen is asked for anew, and an answer    *)
(* under way is dropped, unless it is the first.                           *)
Invalidated == IF mounted /\ (asking = None \/ list # None) THEN Sent ELSE asking

-----------------------------------------------------------------------------
(* What the user does.                                                     *)

(* The status the row of experiment i shows.                               *)
Shown(i) == IF list = None THEN "ABSENT" ELSE list.st[i]

(* The rows can be reached: no dialog covers them.                         *)
Row(i) == mounted /\ dialog = None /\ Shown(i) # "ABSENT"

(* Mutant of CanRetry: what has ended can be retried.                      *)
CanRetryEnded(s) == s \in {"FAILED", "CANCELLED", "COMPLETED"}

CanRetry(s) == s \in {"FAILED", "CANCELLED", "RUNNING"}
CanCancel(s) == s \in {"PENDING", "RUNNING"}

(* An action of this instance is in flight.                                *)
Busy == \E w \in writes : w.inst = mounts

ToggleDetails(i) ==
  /\ Row(i)
  /\ inspected' = IF inspected = i THEN 0 ELSE i
  /\ UNCHANGED <<server, query, writes, begun, mounted, mounts, dialog, written, refusals>>

CloseInspector ==
  /\ inspected # 0 /\ dialog = None
  /\ inspected' = 0
  /\ UNCHANGED <<server, query, writes, begun, mounted, mounts, dialog, written, refusals>>

(* mutate: the action goes to the server.                                  *)
Send(op, i, seen) ==
  /\ begun < MaxWrites
  /\ begun' = begun + 1
  /\ writes' = writes \cup
       {[op |-> op, on |-> i, seen |-> seen, inst |-> mounts, phase |-> "sent", at |-> 0]}
  /\ UNCHANGED <<server, query, screen, written, refusals>>

Retry(i) == Row(i) /\ ~Busy /\ CanRetry(Shown(i)) /\ Send("retry", i, Shown(i))

(* One button: Cancel while there is something to cancel, else Delete.     *)
OpenDialog(i) ==
  /\ Row(i) /\ ~Busy
  /\ dialog' = [op |-> IF CanCancel(Shown(i)) THEN "cancel" ELSE "delete",
                on |-> i, seen |-> Shown(i)]
  /\ UNCHANGED <<server, query, writes, begun, mounted, mounts, inspected, written, refusals>>

CloseDialog ==
  /\ dialog # None
  /\ dialog' = None
  /\ UNCHANGED <<server, query, writes, begun, mounted, mounts, inspected, written, refusals>>

Confirm == dialog # None /\ ~Busy /\ Send(dialog.op, dialog.on, dialog.seen)

-----------------------------------------------------------------------------
(* What becomes of an action.                                              *)

(* The handlers of routers/tasks.py refuse an experiment that is gone, and *)
(* cancel_experiment and retry_experiment one in the wrong status.         *)
Allowed(op, s) ==
  /\ s # "ABSENT"
  /\ op = "cancel" => s \in {"PENDING", "RUNNING"}
  /\ op = "retry" => s # "COMPLETED"

StatusAfter(op) ==
  CASE op = "cancel" -> "CANCELLED" [] op = "retry" -> "PENDING" [] op = "delete" -> "ABSENT"

(* The action arrives with the answer it gets.                             *)
Phased(w, phase, at) == (writes \ {w}) \cup {[w EXCEPT !.phase = phase, !.at = at]}

ServerWrites(w) ==
  /\ w.phase = "sent" /\ Allowed(w.op, st[w.on])
  /\ st' = [st EXCEPT ![w.on] = StatusAfter(w.op)]
  /\ left' = [left EXCEPT ![w.on] = IF w.op = "delete" THEN {} ELSE @]
  /\ version' = version + 1
  /\ writes' = Phased(w, "done", version')
  /\ UNCHANGED <<moves, query, begun, screen, written, refusals>>

ServerRefuses(w) ==
  /\ w.phase = "sent" /\ ~Allowed(w.op, st[w.on])
  /\ writes' = Phased(w, "refused", 0)
  /\ refusals' = refusals \cup {[seen |-> w.seen, found |-> st[w.on]]}
  /\ UNCHANGED <<server, query, begun, screen, written>>

(* onSuccess: ask for everything anew; the dialog of this kind of action   *)
(* closes, and with a deletion the inspector, whatever it shows.           *)
WriteSucceeds(w) ==
  /\ w.phase = "done"
  /\ writes' = writes \ {w}
  /\ asking' = Invalidated
  /\ LET here == mounted /\ w.inst = mounts IN
     /\ dialog' = IF here /\ dialog # None /\ dialog.op = w.op THEN None ELSE dialog
     /\ inspected' = IF here /\ w.op = "delete" THEN 0 ELSE inspected
  /\ written' = IF mounted /\ w.at > written THEN w.at ELSE written
  /\ UNCHANGED <<server, list, failed, begun, mounted, mounts, refusals>>

(* Refused, or the request or its answer is lost: nothing is asked for.    *)
WriteFails(w) ==
  /\ writes' = writes \ {w}
  /\ UNCHANGED <<server, query, begun, screen, written, refusals>>

-----------------------------------------------------------------------------
(* The component, and the server on its own.                               *)

Leave ==
  /\ mounted
  /\ mounted' = FALSE /\ inspected' = 0 /\ dialog' = None
  /\ UNCHANGED <<server, query, writes, begun, mounts, written, refusals>>

Mount ==
  /\ ~mounted /\ mounts < MaxMounts
  /\ mounted' = TRUE /\ mounts' = mounts + 1
  /\ asking' = Asked
  /\ UNCHANGED <<server, list, failed, writes, begun, inspected, dialog, written, refusals>>

(* Workers, the lease loop and other users.  A new experiment has a higher *)
(* key than all there are.                                                 *)
ServerMoves ==
  /\ moves < MaxMoves
  /\ moves' = moves + 1 /\ version' = version + 1
  /\ st' \in [ExpId -> Status]
  /\ Server!Next
  /\ \A i \in Present(st'), j \in Present(st) : i \notin Present(st) => i > j
  /\ UNCHANGED <<query, writes, begun, screen, written, refusals>>

Next ==
  \/ Poll \/ ServerReads \/ Answered \/ QueryFails
  \/ \E i \in ExpId : ToggleDetails(i) \/ Retry(i) \/ OpenDialog(i)
  \/ CloseInspector \/ CloseDialog \/ Confirm
  \/ \E w \in writes : ServerWrites(w) \/ ServerRefuses(w) \/ WriteSucceeds(w) \/ WriteFails(w)
  \/ Leave \/ Mount
  \/ ServerMoves

(* The timer goes on, and a server that is asked again and again answers   *)
(* at last.                                                                *)
Fairness ==
  /\ WF_vars(Poll)
  /\ SF_vars(ServerReads) /\ SF_vars(Answered)

Spec == Init /\ [][Next]_vars /\ Fairness

-----------------------------------------------------------------------------
(* Properties.                                                             *)

(* An own change that was answered on screen is in the list as soon as no  *)
(* request is under way, unless the list shows an error: an answer that    *)
(* was under way before the change never covers it up.                     *)
ListShowsOwnWrites ==
  asking = None /\ ~failed /\ written > 0 => list.at >= written

(* The buttons of a row and the server's checks agree: an action is        *)
(* refused only when the experiment has moved since the row was looked at. *)
RefusedOnlyMoved == \A r \in refusals : r.found # r.seen

(* Whatever is lost on the way, if the list stays on screen it comes to    *)
(* show the newest Limit experiments as the server has them, changes of    *)
(* others included.  Those before them cannot be reached: the component    *)
(* asks for no other page.                                                 *)
ListCatchesUp == <>[]mounted => <>[](list # None /\ list.st = Window(st))

=============================================================================
