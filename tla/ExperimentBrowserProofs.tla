----------------------- MODULE ExperimentBrowserProofs -----------------------
(* That the list shows the user's own changes and that only overtaken      *)
(* actions are refused, for any number of experiments, jobs, actions,      *)
(* instances of the component and moves of the server.                     *)
EXTENDS ExperimentBrowser, TLAPS

Op == {"cancel", "retry", "delete"}

Action == [op : Op, on : ExpId, seen : Status, inst : Nat,
           phase : {"sent", "done", "refused"}, at : Nat]

WellFormed ==
  /\ st \in [ExpId -> Status] /\ version \in Nat /\ written \in Nat /\ mounts \in Nat
  /\ list \in Answer \cup {None} /\ asking \in Answer \cup {None, Sent}
  /\ writes \subseteq Action
  /\ dialog # None => dialog \in [op : {"cancel", "delete"}, on : ExpId, seen : Status]

(* What is asked of the server, or may be, is allowed in the status that   *)
(* the row showed.                                                         *)
AskedOfRows ==
  /\ \A w \in writes : Allowed(w.op, w.seen)
  /\ dialog # None => Allowed(dialog.op, dialog.seen)

(* No changes of the user are answered that the server has not made, and   *)
(* none without a list they were asked from.                               *)
Made ==
  /\ written \leq version
  /\ \A w \in writes : w.at \leq version
  /\ list = None => writes = {} /\ dialog = None /\ written = 0

(* The answer the list will show next is no older than what it must show.  *)
NextIsFresh ==
  /\ asking \in Answer => asking.at >= written
  /\ ListShowsOwnWrites

Inv == WellFormed /\ AskedOfRows /\ Made /\ NextIsFresh /\ RefusedOnlyMoved

USE DEF Op

(* What is written on an action in flight is on an action, and it is still *)
(* the same action on the same row.                                        *)
LEMMA PhasedIsAction ==
  ASSUME writes \subseteq Action, NEW w \in writes, NEW a \in Nat,
         NEW p \in {"sent", "done", "refused"}
  PROVE  /\ Phased(w, p, a) \subseteq Action
         /\ \A v \in Phased(w, p, a) :
              v \in writes \/ (v.op = w.op /\ v.seen = w.seen /\ v.at = a)
<1> DEFINE v == [w EXCEPT !.phase = p, !.at = a]
<1>1. v \in Action /\ v.op = w.op /\ v.seen = w.seen /\ v.at = a
  BY DEF Action
<1>2. QED BY <1>1 DEF Phased

LEMMA InitInv == Init => Inv
<1> SUFFICES ASSUME Init PROVE Inv
  OBVIOUS
<1>1. WellFormed
  BY DEF Init, Server!Init, WellFormed, Status
<1>2. AskedOfRows /\ Made /\ RefusedOnlyMoved
  BY DEF Init, AskedOfRows, Made, RefusedOnlyMoved
<1>3. NextIsFresh
  BY BrowserAssumption DEF Init, NextIsFresh, ListShowsOwnWrites
<1>4. QED BY <1>1, <1>2, <1>3 DEF Inv

(* Steps that leave the server's version, the actions, the answered        *)
(* changes and the list alone keep what the invariant says of the actions. *)
LEMMA QuerySteps ==
  ASSUME Inv, Poll \/ ServerReads \/ Answered \/ QueryFails
  PROVE  Inv'
<1> USE DEF server, query, screen
<1>1. CASE Poll
  <2>1. asking' = Sent /\ UNCHANGED <<st, version, list, failed, writes, mounts, dialog, written, refusals>>
    BY <1>1 DEF Poll, Asked
  <2>2. QED BY <2>1, BrowserAssumption
    DEF Inv, WellFormed, AskedOfRows, Made, NextIsFresh, ListShowsOwnWrites, RefusedOnlyMoved, Allowed
<1>2. CASE ServerReads
  <2>1. asking' = [st |-> Window(st), at |-> version]
        /\ UNCHANGED <<st, version, list, failed, writes, mounts, dialog, written, refusals>>
    BY <1>2 DEF ServerReads
  <2>2. asking' \in Answer /\ asking'.at = version
    BY <2>1 DEF Inv, WellFormed, Answer, Window, Status
  <2>3. WellFormed' /\ AskedOfRows' /\ Made' /\ RefusedOnlyMoved'
    BY <2>1, <2>2 DEF Inv, WellFormed, AskedOfRows, Made, RefusedOnlyMoved, Allowed
  <2>4. NextIsFresh'
    BY <2>1, <2>2, BrowserAssumption
    DEF Inv, WellFormed, Made, NextIsFresh, ListShowsOwnWrites
  <2>5. QED BY <2>3, <2>4 DEF Inv
<1>3. CASE Answered
  <2>1. asking \in Answer /\ list' = asking /\ asking' = None
        /\ UNCHANGED <<st, version, writes, mounts, dialog, written, refusals>>
    BY <1>3 DEF Answered, Inv, WellFormed
  <2>2. WellFormed' /\ AskedOfRows' /\ Made' /\ RefusedOnlyMoved'
    BY <2>1, BrowserAssumption DEF Inv, WellFormed, AskedOfRows, Made, RefusedOnlyMoved, Allowed
  <2>3. NextIsFresh'
    BY <2>1, BrowserAssumption DEF Inv, NextIsFresh, ListShowsOwnWrites
  <2>4. QED BY <2>2, <2>3 DEF Inv
<1>4. CASE QueryFails
  <2>1. asking' = None /\ failed' = TRUE
        /\ UNCHANGED <<st, version, list, writes, mounts, dialog, written, refusals>>
    BY <1>4 DEF QueryFails
  <2>2. QED BY <2>1, BrowserAssumption
    DEF Inv, WellFormed, AskedOfRows, Made, NextIsFresh, ListShowsOwnWrites, RefusedOnlyMoved, Allowed
<1>5. QED BY <1>1, <1>2, <1>3, <1>4

(* The buttons of a row that is shown ask for what its status allows.      *)
LEMMA RowsOfList ==
  ASSUME Inv, NEW i \in ExpId, Row(i)
  PROVE  list # None /\ Shown(i) \in Status \ {"ABSENT"}
BY DEF Row, Shown, Inv, WellFormed, Answer

(* A new action that its row allows keeps the invariant.                   *)
LEMMA SendKeeps ==
  ASSUME Inv, list # None, NEW op \in Op, NEW i \in ExpId, NEW seen \in Status,
         Allowed(op, seen), Send(op, i, seen)
  PROVE  Inv'
<1> USE DEF server, query, screen
<1> DEFINE a == [op |-> op, on |-> i, seen |-> seen, inst |-> mounts, phase |-> "sent", at |-> 0]
<1>1. writes' = writes \cup {a}
      /\ UNCHANGED <<st, version, list, asking, failed, mounts, dialog, written, refusals>>
  BY DEF Send
<1>2. a \in Action
  BY DEF Inv, WellFormed, Action
<1>3. WellFormed'
  BY <1>1, <1>2 DEF Inv, WellFormed
<1>4. AskedOfRows' /\ Made'
  BY <1>1 DEF Inv, WellFormed, AskedOfRows, Made, Allowed
<1>5. NextIsFresh' /\ RefusedOnlyMoved'
  BY <1>1 DEF Inv, NextIsFresh, ListShowsOwnWrites, RefusedOnlyMoved
<1>6. QED BY <1>3, <1>4, <1>5 DEF Inv

LEMMA UserSteps ==
  ASSUME Inv,
         \/ \E i \in ExpId : ToggleDetails(i) \/ Retry(i) \/ OpenDialog(i)
         \/ CloseInspector \/ CloseDialog \/ Confirm \/ Leave
  PROVE  Inv'
<1> USE DEF server, query, screen
<1>1. ASSUME NEW i \in ExpId, Retry(i) PROVE Inv'
  <2>1. list # None /\ Shown(i) \in Status /\ Allowed("retry", Shown(i))
    BY <1>1, RowsOfList DEF Retry, CanRetry, Allowed
  <2>2. QED BY <1>1, <2>1, SendKeeps DEF Retry
<1>2. ASSUME NEW i \in ExpId, OpenDialog(i) PROVE Inv'
  <2>1. list # None /\ Shown(i) \in Status \ {"ABSENT"}
    BY <1>2, RowsOfList DEF OpenDialog
  <2>2. dialog' \in [op : {"cancel", "delete"}, on : ExpId, seen : Status]
        /\ Allowed(dialog'.op, dialog'.seen)
        /\ UNCHANGED <<st, version, list, asking, failed, writes, mounts, written, refusals>>
    BY <1>2, <2>1 DEF OpenDialog, CanCancel, Allowed
  <2>3. QED BY <2>1, <2>2
    DEF Inv, WellFormed, AskedOfRows, Made, NextIsFresh, ListShowsOwnWrites, RefusedOnlyMoved, Allowed
<1>3. CASE Confirm
  <2>1. list # None /\ dialog.op \in Op /\ dialog.on \in ExpId /\ dialog.seen \in Status
        /\ Allowed(dialog.op, dialog.seen)
    BY <1>3 DEF Confirm, Inv, WellFormed, AskedOfRows, Made
  <2>2. QED BY <1>3, <2>1, SendKeeps DEF Confirm
<1>4. ASSUME (\E i \in ExpId : ToggleDetails(i)) \/ CloseInspector \/ CloseDialog \/ Leave
      PROVE  Inv'
  <2>1. (dialog' = None \/ dialog' = dialog)
        /\ UNCHANGED <<st, version, list, asking, failed, writes, mounts, written, refusals>>
    BY <1>4 DEF ToggleDetails, CloseInspector, CloseDialog, Leave
  <2>2. QED BY <2>1
    DEF Inv, WellFormed, AskedOfRows, Made, NextIsFresh, ListShowsOwnWrites, RefusedOnlyMoved, Allowed
<1>5. QED BY <1>1, <1>2, <1>3, <1>4

(* An action is carried out: what it made is answered on screen later.     *)
LEMMA ServerWritesKeeps ==
  ASSUME Inv, NEW w \in writes, ServerWrites(w)
  PROVE  Inv'
<1> USE DEF server, query, screen
<1>1. /\ w \in Action /\ version' = version + 1 /\ version' \in Nat
      /\ writes' = Phased(w, "done", version')
      /\ UNCHANGED <<list, asking, failed, mounts, dialog, written, refusals>>
  BY DEF ServerWrites, Inv, WellFormed
<1>2. st' \in [ExpId -> Status]
  <2>1. StatusAfter(w.op) \in Status
    BY <1>1 DEF StatusAfter, Status, Action
  <2>2. QED BY <2>1 DEF ServerWrites, Inv, WellFormed
<1>3. writes' \subseteq Action
      /\ \A v \in writes' : v \in writes \/ (v.op = w.op /\ v.seen = w.seen /\ v.at = version')
  BY <1>1, PhasedIsAction DEF Inv, WellFormed
<1>4. WellFormed'
  BY <1>1, <1>2, <1>3 DEF Inv, WellFormed
<1>5. AskedOfRows'
  BY <1>1, <1>3 DEF Inv, AskedOfRows, Allowed
<1>6. Made'
  <2>1. \A v \in writes : v.at \in Nat /\ v.at \leq version
    BY DEF Inv, WellFormed, Made, Action
  <2>2. \A v \in writes' : v.at \leq version'
    BY <1>1, <1>3, <2>1 DEF Inv, WellFormed
  <2>3. list # None
    BY DEF Inv, Made
  <2>4. QED BY <1>1, <2>2, <2>3 DEF Inv, WellFormed, Made
<1>7. NextIsFresh' /\ RefusedOnlyMoved'
  BY <1>1 DEF Inv, NextIsFresh, ListShowsOwnWrites, RefusedOnlyMoved
<1>8. QED BY <1>4, <1>5, <1>6, <1>7 DEF Inv

(* A refusal: the action was allowed in the status the user saw.           *)
LEMMA ServerRefusesKeeps ==
  ASSUME Inv, NEW w \in writes, ServerRefuses(w)
  PROVE  Inv'
<1> USE DEF server, query, screen
<1>1. /\ writes' = Phased(w, "refused", 0)
      /\ refusals' = refusals \cup {[seen |-> w.seen, found |-> st[w.on]]}
      /\ UNCHANGED <<st, version, list, asking, failed, mounts, dialog, written>>
  BY DEF ServerRefuses
<1>2. writes' \subseteq Action
      /\ \A v \in writes' : v \in writes \/ (v.op = w.op /\ v.seen = w.seen /\ v.at = 0)
  BY <1>1, PhasedIsAction DEF Inv, WellFormed
<1>3. WellFormed'
  BY <1>1, <1>2 DEF Inv, WellFormed
<1>4. AskedOfRows'
  BY <1>1, <1>2 DEF Inv, AskedOfRows, Allowed
<1>5. Made'
  <2>1. list # None
    BY DEF Inv, Made
  <2>2. QED BY <1>1, <1>2, <2>1 DEF Inv, WellFormed, Made
<1>6. RefusedOnlyMoved'
  <2>1. st[w.on] # w.seen
    BY DEF ServerRefuses, Inv, AskedOfRows
  <2>2. QED BY <1>1, <2>1 DEF Inv, RefusedOnlyMoved
<1>7. NextIsFresh'
  BY <1>1 DEF Inv, NextIsFresh, ListShowsOwnWrites
<1>8. QED BY <1>3, <1>4, <1>5, <1>6, <1>7 DEF Inv

(* A success: the answer under way, if there is one, is dropped.           *)
LEMMA WriteSucceedsKeeps ==
  ASSUME Inv, NEW w \in writes, WriteSucceeds(w)
  PROVE  Inv'
<1> USE DEF server, query, screen
<1>1. /\ writes' = writes \ {w}
      /\ asking' = IF mounted THEN Sent ELSE asking
      /\ dialog' = None \/ dialog' = dialog
      /\ written' = IF mounted /\ w.at > written THEN w.at ELSE written
      /\ UNCHANGED <<st, version, list, failed, mounts, refusals>>
  BY DEF WriteSucceeds, Invalidated, Inv, Made
<1>2. w.at \in Nat /\ w.at \leq version /\ list # None
  BY DEF Inv, WellFormed, Made, Action
<1>3. WellFormed'
  BY <1>1, <1>2 DEF Inv, WellFormed
<1>4. AskedOfRows' /\ RefusedOnlyMoved'
  BY <1>1 DEF Inv, AskedOfRows, Allowed, RefusedOnlyMoved
<1>5. Made'
  BY <1>1, <1>2 DEF Inv, WellFormed, Made
<1>6. NextIsFresh'
  <2>1. CASE mounted
    BY <1>1, <2>1, BrowserAssumption DEF NextIsFresh, ListShowsOwnWrites
  <2>2. CASE ~mounted
    BY <1>1, <2>2 DEF Inv, NextIsFresh, ListShowsOwnWrites
  <2>3. QED BY <2>1, <2>2
<1>7. QED BY <1>3, <1>4, <1>5, <1>6 DEF Inv

LEMMA OtherSteps ==
  ASSUME Inv, (\E w \in writes : WriteFails(w)) \/ Mount \/ ServerMoves \/ UNCHANGED vars
  PROVE  Inv'
<1> USE DEF server, query, screen
<1>1. CASE \E w \in writes : WriteFails(w)
  <2>1. writes' \subseteq writes
        /\ UNCHANGED <<st, version, list, asking, failed, mounts, dialog, written, refusals>>
    BY <1>1 DEF WriteFails
  <2>2. WellFormed' /\ Made'
    BY <2>1 DEF Inv, WellFormed, Made
  <2>3. AskedOfRows' /\ NextIsFresh' /\ RefusedOnlyMoved'
    BY <2>1 DEF Inv, AskedOfRows, Allowed, NextIsFresh, ListShowsOwnWrites, RefusedOnlyMoved
  <2>4. QED BY <2>2, <2>3 DEF Inv
<1>2. CASE Mount
  <2>1. mounts' = mounts + 1 /\ asking' = Asked
        /\ UNCHANGED <<st, version, list, failed, writes, dialog, written, refusals>>
    BY <1>2 DEF Mount
  <2>2. (asking = None /\ asking' = Sent) \/ (asking # None /\ asking' = asking)
    BY <2>1 DEF Asked
  <2>3. WellFormed' /\ Made'
    BY <2>1, <2>2 DEF Inv, WellFormed, Made
  <2>4. AskedOfRows' /\ NextIsFresh' /\ RefusedOnlyMoved'
    BY <2>1, <2>2, BrowserAssumption
    DEF Inv, AskedOfRows, Allowed, NextIsFresh, ListShowsOwnWrites, RefusedOnlyMoved
  <2>5. QED BY <2>3, <2>4 DEF Inv
<1>3. CASE ServerMoves
  <2>1. st' \in [ExpId -> Status] /\ version' = version + 1
        /\ UNCHANGED <<list, asking, failed, writes, mounts, dialog, written, refusals>>
    BY <1>3 DEF ServerMoves
  <2>2. WellFormed'
    BY <2>1 DEF Inv, WellFormed
  <2>3. Made'
    BY <2>1 DEF Inv, WellFormed, Made, Action
  <2>4. AskedOfRows' /\ NextIsFresh' /\ RefusedOnlyMoved'
    BY <2>1 DEF Inv, AskedOfRows, Allowed, NextIsFresh, ListShowsOwnWrites, RefusedOnlyMoved
  <2>5. QED BY <2>2, <2>3, <2>4 DEF Inv
<1>4. CASE UNCHANGED vars
  BY <1>4 DEF vars, Inv, WellFormed, AskedOfRows, Made, NextIsFresh, ListShowsOwnWrites,
    RefusedOnlyMoved, Allowed
<1>5. QED BY <1>1, <1>2, <1>3, <1>4

LEMMA NextInv == Inv /\ [Next]_vars => Inv'
<1> SUFFICES ASSUME Inv, [Next]_vars PROVE Inv'
  OBVIOUS
<1>1. CASE Next
  BY <1>1, QuerySteps, UserSteps, ServerWritesKeeps, ServerRefusesKeeps, WriteSucceedsKeeps,
     OtherSteps DEF Next
<1>2. CASE UNCHANGED vars
  BY <1>2, OtherSteps
<1>3. QED BY <1>1, <1>2

THEOREM BrowserInvariant == Spec => []Inv
BY InitInv, NextInv, PTL DEF Spec

(* An own change that was answered on screen is in the list as soon as no  *)
(* request is under way: an answer that was under way before it never      *)
(* covers it up.                                                           *)
THEOREM OwnWritesShown == Spec => []ListShowsOwnWrites
<1>1. Inv => ListShowsOwnWrites
  BY DEF Inv, NextIsFresh
<1>2. QED BY <1>1, BrowserInvariant, PTL

(* The server refuses an action only when the experiment moved after the   *)
(* row was looked at: buttons and server agree on what each status allows. *)
THEOREM RefusalsExplained == Spec => []RefusedOnlyMoved
<1>1. Inv => RefusedOnlyMoved
  BY DEF Inv
<1>2. QED BY <1>1, BrowserInvariant, PTL

=============================================================================
