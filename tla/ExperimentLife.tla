--------------------------- MODULE ExperimentLife ---------------------------
(***************************************************************************)
(* What a user who watches the list of experiments may count on: the       *)
(* statuses an experiment goes through, and what each says about the jobs  *)
(* it has left.  Nothing of tasks, workers, leases or handlers; TaskQueue  *)
(* implements it as long as its handlers do not overlap.                   *)
(*                                                                         *)
(* One answer of the server may move several experiments, which share data *)
(* tasks: a step moves each of them once, or not at all.                   *)
(***************************************************************************)
CONSTANTS
  ExpId,   \* primary keys of experiments
  Job      \* decoding jobs

VARIABLES
  st,      \* st[i]: the status shown for experiment i
  left     \* left[i]: its jobs without a result

vars == <<st, left>>

Init == st = [i \in ExpId |-> "ABSENT"] /\ left = [i \in ExpId |-> {}]

(* Experiment i goes from one of the statuses From to the status to.       *)
Goes(i, From, to) == st[i] \in From /\ st'[i] = to

(* Results come and are never taken back.                                  *)
Shrinks(i) == left'[i] \subseteq left[i]

Submit(i) == Goes(i, {"ABSENT"}, "PENDING") /\ left'[i] # {}

(* There is work left as long as it is RUNNING.                            *)
Run(i) == Goes(i, {"PENDING", "RUNNING"}, "RUNNING") /\ Shrinks(i) /\ left'[i] # {}

(* COMPLETED means that every job has its result.                          *)
Complete(i) == Goes(i, {"PENDING", "RUNNING"}, "COMPLETED") /\ left'[i] = {}

(* It fails for good: results of other jobs may still come, but neither    *)
(* they nor the failed job make it anything else.                          *)
Fail(i) == Goes(i, {"PENDING", "RUNNING", "FAILED"}, "FAILED") /\ Shrinks(i) /\ left'[i] # {}

Cancel(i) == Goes(i, {"PENDING", "RUNNING"}, "CANCELLED") /\ UNCHANGED left[i]

(* A late result of a job that is waiting or cancelled.                    *)
LateResult(i) ==
  \E s \in {"PENDING", "CANCELLED"} : Goes(i, {s}, s) /\ Shrinks(i)

(* Retried; or rolled up with nothing but cancelled jobs left, which it    *)
(* inherits from a deleted experiment of the same key.                     *)
Requeue(i) == Goes(i, {"RUNNING", "FAILED", "CANCELLED"}, "PENDING") /\ Shrinks(i)

(* The only way out of COMPLETED.                                          *)
Delete(i) == st'[i] = "ABSENT" /\ left'[i] = {}

Stay(i) == UNCHANGED <<st[i], left[i]>>

Move(i) ==
  \/ Stay(i)
  \/ Submit(i) \/ Run(i) \/ Complete(i) \/ Fail(i) \/ Cancel(i)
  \/ LateResult(i) \/ Requeue(i) \/ Delete(i)

Next ==
  /\ left' \in [ExpId -> SUBSET Job]
  /\ \A i \in ExpId : Move(i)

Spec == Init /\ [][Next]_vars

=============================================================================
