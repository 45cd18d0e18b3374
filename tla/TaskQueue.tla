----------------------------- MODULE TaskQueue -----------------------------
(***************************************************************************)
(* The server's task queue: the three tables experiment_task,              *)
(* data_generation_task and decoding_task, the handlers of the routers     *)
(* tasks.py and worker.py that read and write them, the lease loop, and    *)
(* what the workers do that the server can see.                            *)
(*                                                                         *)
(* A handler that checks a row and then writes it does so with an await    *)
(* in between and no transaction around the check, so it is two steps      *)
(* here: Begin... reads and decides, Finish... writes and commits.  The    *)
(* writes of one handler, from its first UPDATE to its commit, hold        *)
(* SQLite's write lock and are one step.  Handlers that only issue UPDATE  *)
(* statements (heartbeat, the lease loop), or that begin with BEGIN        *)
(* IMMEDIATE (poll), are single steps.                                     *)
(***************************************************************************)
EXTENDS Integers, FiniteSets

CONSTANTS
  Submission,     \* experiments that may be submitted, each with its own config
  Data,           \* data generation specs (rows are shared by config hash)
  Decoding,       \* decoding jobs
  Worker,         \* worker processes (worker.py)
  User,           \* clients of the /tasks endpoints
  SubmissionOf,   \* SubmissionOf[j]: the experiment whose expansion holds job j
  DataOf,         \* DataOf[j]: the data spec job j decodes
  RowId,          \* RowId[t]: primary key of task t in its own table
  NeedsGpu,       \* the jobs with requires_gpu set
  HasGpu,         \* the workers that poll with has_gpu
  MayBreak,       \* the workers whose process pool may break
  BatchSize,      \* batch_size of a poll
  UserOps,        \* bound: the operations users issue besides submitting
  Overlap,        \* TRUE: handlers interleave, as they do in the server
  MaxInflight,    \* bound on the handlers between their check and their write
  MaxExp          \* bound on the primary keys of experiment_task

Task == Data \cup Decoding

ASSUME TaskAssumption == Data \cap Decoding = {}
ASSUME JobAssumption ==
  /\ SubmissionOf \in [Decoding -> Submission]
  /\ DataOf \in [Decoding -> Data]
  /\ NeedsGpu \subseteq Decoding
ASSUME RowIdAssumption ==
  /\ RowId \in [Task -> Nat]
  /\ \A T \in {Data, Decoding} : \A s, t \in T : RowId[s] = RowId[t] => s = t
ASSUME WorkerAssumption == HasGpu \subseteq Worker /\ MayBreak \subseteq Worker
ASSUME BoundAssumption ==
  /\ BatchSize \in Nat
  /\ MaxInflight \in Nat
  /\ MaxExp \in Nat
  /\ Overlap \in BOOLEAN
  /\ UserOps \subseteq {"cancel", "retry", "delete"}

-----------------------------------------------------------------------------
VARIABLES
  exp,            \* exp[i]: status of the experiment row with id i
  status,         \* status[t]: status of the row of task t
  lease,          \* lease[t]: leased_until, as NULL, in the future or in the past
  experimentId,   \* experimentId[j]: the experiment_id of row j, 0 before it exists
  run,            \* run[w][t]: where the execution of t by worker w stands
  broken,         \* the workers whose pool is broken and whose loop goes on
  inflight        \* the handlers that have done their check and not their write

vars == <<exp, status, lease, experimentId, run, broken, inflight>>

ExpId == 1..MaxExp
TaskStatus == {"PENDING", "RUNNING", "COMPLETED", "FAILED", "CANCELLED"}
Lease == {"null", "live", "expired"}
Executing == {"working", "reporting"}
Phase == Executing \cup {"idle", "kept"}
Op == {"upload", "complete", "fail", "cancel", "retry", "retryPending", "delete"}
Handler == [op : Op, on : Task \cup ExpId, by : Worker \cup User]

TypeOK ==
  /\ exp \in [ExpId -> TaskStatus \cup {"ABSENT"}]
  /\ status \in [Task -> TaskStatus \cup {"ABSENT"}]
  /\ lease \in [Task -> Lease]
  /\ experimentId \in [Decoding -> ExpId \cup {0}]
  /\ run \in [Worker -> [Task -> Phase]]
  /\ broken \subseteq Worker
  /\ inflight \subseteq Handler

Init ==
  /\ exp = [i \in ExpId |-> "ABSENT"]
  /\ status = [t \in Task |-> "ABSENT"]
  /\ lease = [t \in Task |-> "null"]
  /\ experimentId = [j \in Decoding |-> 0]
  /\ run = [w \in Worker |-> [t \in Task |-> "idle"]]
  /\ broken = {}
  /\ inflight = {}

-----------------------------------------------------------------------------
(* The rows of decoding_task, by foreign key.                              *)

JobsOf(i) == {j \in Decoding : experimentId[j] = i}
DecodingsOf(d) == {j \in Decoding : DataOf[j] = d /\ experimentId[j] # 0}
ExperimentsOn(d) == {experimentId[j] : j \in DecodingsOf(d)}

(* Mutants of RolledUp: any for all, and a status of another vocabulary.   *)
RolledUpOnAny(st, i) ==
  LET S == {st[j] : j \in JobsOf(i)} IN
  IF exp[i] \in {"ABSENT", "CANCELLED"} \/ S = {} THEN exp[i]
  ELSE IF "COMPLETED" \in S THEN "COMPLETED"
  ELSE IF "FAILED" \in S THEN "FAILED" ELSE "RUNNING"
RolledUpToDone(st, i) ==
  LET S == {st[j] : j \in JobsOf(i)} IN
  IF S = {"COMPLETED"} THEN "DONE" ELSE exp[i]

(* Mutant of RolledUp: CANCELLED is rolled up like the others.             *)
RolledUpCancelled(st, i) ==
  LET S == {st[j] : j \in JobsOf(i)} IN
  IF exp[i] = "ABSENT" \/ S = {} THEN exp[i]
  ELSE IF S = {"COMPLETED"} THEN "COMPLETED"
  ELSE IF "FAILED" \in S THEN "FAILED"
  ELSE IF S \cap {"RUNNING", "PENDING"} # {} THEN "RUNNING"
  ELSE "PENDING"

(* The status _rollup_experiment leaves on experiment i when the decoding  *)
(* rows have the statuses st.                                              *)
RolledUp(st, i) ==
  LET S == {st[j] : j \in JobsOf(i)} IN
  IF exp[i] \in {"ABSENT", "CANCELLED"} \/ S = {} THEN exp[i]
  ELSE IF S = {"COMPLETED"} THEN "COMPLETED"
  ELSE IF "FAILED" \in S THEN "FAILED"
  ELSE IF S \cap {"RUNNING", "PENDING"} # {} THEN "RUNNING"
  ELSE "PENDING"

(* Whether a step of another request may run now: always in the server,    *)
(* only between whole handlers in the serial instances.                    *)
Quiet == Overlap \/ inflight = {}

Begin(op, x, c) ==
  /\ Quiet
  /\ Cardinality(inflight) < MaxInflight
  /\ inflight' = inflight \cup {[op |-> op, on |-> x, by |-> c]}

-----------------------------------------------------------------------------
(* Requests of the users: routers/tasks.py and ExperimentService.          *)

(* SQLite's next rowid: one more than the largest id in use.               *)
IsNextId(i) ==
  /\ \A k \in ExpId : k >= i => exp[k] = "ABSENT"
  /\ i > 1 => exp[i - 1] # "ABSENT"

(* submit_experiment for a config no live row has: insert the experiment,  *)
(* the data rows that no earlier experiment has created, and a decoding    *)
(* row for each job.  Everything after the first INSERT is one             *)
(* transaction; a config already there only returns the existing row.      *)
Submit(s) ==
  LET jobs == {j \in Decoding : SubmissionOf[j] = s}
      new == jobs \cup {d \in Data : status[d] = "ABSENT" /\ \E j \in jobs : DataOf[j] = d}
  IN
  /\ Quiet
  /\ jobs # {}
  /\ \A j \in jobs : experimentId[j] = 0
  /\ \E i \in ExpId :
       /\ IsNextId(i)
       /\ exp' = [exp EXCEPT ![i] = "PENDING"]
       /\ experimentId' = [j \in Decoding |-> IF j \in jobs THEN i ELSE experimentId[j]]
  /\ status' = [t \in Task |-> IF t \in new THEN "PENDING" ELSE status[t]]
  /\ UNCHANGED <<lease, run, broken, inflight>>

BeginCancel(u, i) ==
  /\ "cancel" \in UserOps
  /\ exp[i] \in {"PENDING", "RUNNING"}
  /\ Begin("cancel", i, u)
  /\ UNCHANGED <<exp, status, lease, experimentId, run, broken>>

(* Mutant of Cancellable: the jobs that are being executed are left alone. *)
CancellablePending == {"PENDING"}

(* The job statuses cancel_experiment overwrites.                          *)
Cancellable == {"PENDING", "RUNNING"}

(* The write of a row that has been deleted meanwhile matches nothing: the *)
(* session raises and nothing is committed.                                *)
FinishCancel(h) ==
  /\ h.op = "cancel"
  /\ IF exp[h.on] = "ABSENT" THEN UNCHANGED <<exp, status>>
     ELSE /\ exp' = [exp EXCEPT ![h.on] = "CANCELLED"]
          /\ status' = [t \in Task |->
               IF t \in JobsOf(h.on) /\ status[t] \in Cancellable
               THEN "CANCELLED" ELSE status[t]]
  /\ inflight' = inflight \ {h}
  /\ UNCHANGED <<lease, experimentId, run, broken>>

(* retry_experiment refuses COMPLETED experiments only.  The assignment    *)
(* experiment.status = PENDING issues an UPDATE only when it changes the   *)
(* status that was read, hence the two operations.                         *)
BeginRetry(u, i) ==
  /\ "retry" \in UserOps
  /\ exp[i] \notin {"ABSENT", "COMPLETED"}
  /\ Begin(IF exp[i] = "PENDING" THEN "retryPending" ELSE "retry", i, u)
  /\ UNCHANGED <<exp, status, lease, experimentId, run, broken>>

(* The job and data statuses retry_experiment puts back to PENDING.        *)
RetriedJobs(i) ==
  {j \in JobsOf(i) : status[j] \in {"FAILED", "CANCELLED", "RUNNING"}}
RetriedData(i) ==
  {d \in Data : status[d] \in {"FAILED", "CANCELLED"}
                /\ \E j \in JobsOf(i) : DataOf[j] = d}

(* Mutant of RetriedExp: the jobs are reset, the experiment is not.        *)
RetriedExpKept(h) == exp

RetriedExp(h) == IF h.op = "retry" THEN [exp EXCEPT ![h.on] = "PENDING"] ELSE exp

FinishRetry(h) ==
  /\ h.op \in {"retry", "retryPending"}
  /\ IF h.op = "retry" /\ exp[h.on] = "ABSENT" THEN UNCHANGED <<exp, status>>
     ELSE /\ exp' = RetriedExp(h)
          /\ status' = [t \in Task |->
               IF t \in RetriedJobs(h.on) \cup RetriedData(h.on)
               THEN "PENDING" ELSE status[t]]
  /\ inflight' = inflight \ {h}
  /\ UNCHANGED <<lease, experimentId, run, broken>>

BeginDelete(u, i) ==
  /\ "delete" \in UserOps
  /\ exp[i] # "ABSENT"
  /\ Begin("delete", i, u)
  /\ UNCHANGED <<exp, status, lease, experimentId, run, broken>>

(* The DELETE removes the experiment row alone: the foreign keys of SQLite *)
(* are never switched on, so ON DELETE CASCADE does not fire.              *)
FinishDelete(h) ==
  /\ h.op = "delete"
  /\ exp' = [exp EXCEPT ![h.on] = "ABSENT"]
  /\ inflight' = inflight \ {h}
  /\ UNCHANGED <<status, lease, experimentId, run, broken>>

-----------------------------------------------------------------------------
(* Requests of the workers: routers/worker.py and TaskQueueService.        *)

PendingData == {d \in Data : status[d] = "PENDING"}

(* Mutants of Runnable: no look at the data task, and GPU jobs for nobody. *)
RunnableEarly(w) ==
  {j \in Decoding :
     /\ status[j] = "PENDING"
     /\ experimentId[j] \in ExpId
     /\ exp[experimentId[j]] \notin {"ABSENT", "CANCELLED"}
     /\ j \in NeedsGpu => w \in HasGpu}
RunnableWithoutGpu(w) ==
  {j \in Decoding \ NeedsGpu :
     /\ status[j] = "PENDING"
     /\ status[DataOf[j]] = "COMPLETED"
     /\ experimentId[j] \in ExpId
     /\ exp[experimentId[j]] \notin {"ABSENT", "CANCELLED"}}

(* The jobs poll_tasks may hand out: their outcome is there, their         *)
(* experiment row exists and is not cancelled, and a GPU is at hand.       *)
Runnable(w) ==
  {j \in Decoding :
     /\ status[j] = "PENDING"
     /\ status[DataOf[j]] = "COMPLETED"
     /\ experimentId[j] \in ExpId
     /\ exp[experimentId[j]] \notin {"ABSENT", "CANCELLED"}
     /\ j \in NeedsGpu => w \in HasGpu}

(* Some n of the rows of S, or all of them when there are fewer: the       *)
(* query has a LIMIT and no ORDER BY.                                      *)
Limited(S, n) ==
  {T \in SUBSET S : Cardinality(T) <= n /\ (Cardinality(T) < n => T = S)}

(* Mutant of Leased: only data tasks get a lease.                          *)
LeasedData(T) == [t \in Task |-> IF t \in T \cap Data THEN "live" ELSE lease[t]]

(* The leases after the tasks T are handed out.                            *)
Leased(T) == [t \in Task |-> IF t \in T THEN "live" ELSE lease[t]]

(* poll_tasks: data generation first, decoding in the slots that are left. *)
(* A worker polls again only when its whole batch is done (as_completed),  *)
(* or at once when its pool is broken: executor.submit raises after the    *)
(* ids have been added to active_tasks, and the loop goes on.              *)
PollTasks(w) ==
  /\ Quiet
  /\ \A t \in Task : run[w][t] \notin Executing
  /\ \E D \in Limited(PendingData, BatchSize) :
     \E J \in Limited(Runnable(w), BatchSize - Cardinality(D)) :
       LET affected == (UNION {ExperimentsOn(d) : d \in D}) \cup {experimentId[j] : j \in J} IN
       /\ D \cup J # {}
       /\ status' = [t \in Task |-> IF t \in D \cup J THEN "RUNNING" ELSE status[t]]
       /\ lease' = Leased(D \cup J)
       /\ exp' = [i \in ExpId |->
            IF i \in affected /\ exp[i] = "PENDING" THEN "RUNNING" ELSE exp[i]]
       /\ run' = [run EXCEPT ![w] =
            [t \in Task |-> IF t \notin D \cup J THEN run[w][t]
                            ELSE IF w \in broken THEN "kept" ELSE "working"]]
  /\ UNCHANGED <<experimentId, broken, inflight>>

KeptBy(w) == {t \in Task : run[w][t] = "kept"}

(* The worker's heartbeat thread posts active_tasks: what it executes, up  *)
(* to what is done or was given up at an earlier 404, and all it kept.     *)
(* heartbeat renews every RUNNING row, of either table, whose id is in the *)
(* request: data and decoding ids are not told apart.  When it renews none *)
(* it answers 404, and the worker forgets the ids it has posted.           *)
Heartbeat(w) ==
  /\ Quiet
  /\ \E T \in SUBSET {t \in Task : run[w][t] # "idle"} :
       LET renewed == {t \in Task : status[t] = "RUNNING"
                                      /\ \E s \in T : RowId[s] = RowId[t]} IN
       /\ KeptBy(w) \subseteq T
       /\ lease' = [t \in Task |-> IF t \in renewed THEN "live" ELSE lease[t]]
       /\ run' = IF renewed # {} THEN run
                 ELSE [run EXCEPT ![w] =
                        [t \in Task |-> IF t \in KeptBy(w) THEN "idle" ELSE run[w][t]]]
  /\ UNCHANGED <<exp, status, experimentId, broken, inflight>>

(* The outcome of a data task reaches upload_outcome.                      *)
BeginUpload(w, d) ==
  /\ run[w][d] = "working"
  /\ run' = [run EXCEPT ![w][d] = "reporting"]
  /\ IF status[d] = "COMPLETED" THEN Quiet /\ UNCHANGED inflight
     ELSE Begin("upload", d, w)
  /\ UNCHANGED <<exp, status, lease, experimentId, broken>>

FinishUpload(h) ==
  /\ h.op = "upload"
  /\ status' = [status EXCEPT ![h.on] = "COMPLETED"]
  /\ inflight' = inflight \ {h}
  /\ UNCHANGED <<exp, lease, experimentId, run, broken>>

(* Mutant of Settled: a late report may overwrite a result.                *)
SettledFailed == {"FAILED"}

(* complete_task does nothing to a task that is COMPLETED or FAILED.       *)
Settled == {"COMPLETED", "FAILED"}

BeginComplete(w, j) ==
  /\ run[w][j] = "working"
  /\ run' = [run EXCEPT ![w][j] = "reporting"]
  /\ IF status[j] \in Settled THEN Quiet /\ UNCHANGED inflight
     ELSE Begin("complete", j, w)
  /\ UNCHANGED <<exp, status, lease, experimentId, broken>>

(* Mutant of FinishComplete: the rollup reads the rows before the flush.   *)
FinishCompleteUnflushed(h) ==
  /\ h.op = "complete"
  /\ status' = [status EXCEPT ![h.on] = "COMPLETED"]
  /\ exp' = [k \in ExpId |-> IF k = experimentId[h.on] THEN RolledUp(status, k) ELSE exp[k]]
  /\ inflight' = inflight \ {h}
  /\ UNCHANGED <<lease, experimentId, run, broken>>

FinishComplete(h) ==
  LET st == [status EXCEPT ![h.on] = "COMPLETED"]
      i == experimentId[h.on]
  IN
  /\ h.op = "complete"
  /\ status' = st
  /\ exp' = [k \in ExpId |-> IF k = i THEN RolledUp(st, k) ELSE exp[k]]
  /\ inflight' = inflight \ {h}
  /\ UNCHANGED <<lease, experimentId, run, broken>>

(* A worker reports a failure: the task raised, or its success report      *)
(* raised (a timeout, an error status, a lost answer) and run_task reports *)
(* FAILED after all.                                                       *)
BeginFail(w, t) ==
  /\ run[w][t] \in Executing
  /\ run' = [run EXCEPT ![w][t] = "idle"]
  /\ IF status[t] \in Settled THEN Quiet /\ UNCHANGED inflight
     ELSE Begin("fail", t, w)
  /\ UNCHANGED <<exp, status, lease, experimentId, broken>>

(* A failed data task takes its open decoding jobs with it, and every      *)
(* experiment that has a job on it is rolled up.                           *)
FailedWith(t) ==
  {t} \cup (IF t \in Data
            THEN {j \in DecodingsOf(t) : status[j] \in {"PENDING", "RUNNING"}} ELSE {})

FinishFail(h) ==
  LET st == [t \in Task |-> IF t \in FailedWith(h.on) THEN "FAILED" ELSE status[t]]
      affected == IF h.on \in Data THEN ExperimentsOn(h.on) ELSE {experimentId[h.on]}
  IN
  /\ h.op = "fail"
  /\ status' = st
  /\ exp' = [i \in ExpId |-> IF i \in affected THEN RolledUp(st, i) ELSE exp[i]]
  /\ inflight' = inflight \ {h}
  /\ UNCHANGED <<lease, experimentId, run, broken>>

(* An execution is over: its report was answered, or its process, its      *)
(* worker, the answer to its poll or its failure report is lost.           *)
EndTask(w, t) ==
  /\ run[w][t] \in Executing
  /\ run' = [run EXCEPT ![w][t] = "idle"]
  /\ UNCHANGED <<exp, status, lease, experimentId, broken, inflight>>

(* A process of the worker's pool dies.  Its batch is over: as_completed   *)
(* gives up every future and drops its id, unless the pool broke while the *)
(* batch was being submitted, which leaves all the ids in active_tasks.    *)
BreakPool(w) ==
  /\ w \in MayBreak \ broken
  /\ broken' = broken \cup {w}
  /\ \E left \in {"idle", "kept"} :
       run' = [run EXCEPT ![w] =
                 [t \in Task |-> IF run[w][t] \in Executing THEN left ELSE "idle"]]
  /\ UNCHANGED <<exp, status, lease, experimentId, inflight>>

(* The process of such a worker ends, by hand or after its idle polls, and *)
(* is started anew: a new pool and an empty active_tasks.                  *)
RestartWorker(w) ==
  /\ w \in broken
  /\ broken' = broken \ {w}
  /\ run' = [run EXCEPT ![w] = [t \in Task |-> "idle"]]
  /\ UNCHANGED <<exp, status, lease, experimentId, inflight>>

-----------------------------------------------------------------------------
(* The lease loop, time, and the server itself.                            *)

LeaseRunsOut(t) ==
  /\ status[t] = "RUNNING"
  /\ lease[t] = "live"
  /\ lease' = [lease EXCEPT ![t] = "expired"]
  /\ UNCHANGED <<exp, status, experimentId, run, broken, inflight>>

(* Mutant of Expired: the lease loop looks at data tasks only.             *)
ExpiredData == {t \in Data : status[t] = "RUNNING" /\ lease[t] = "expired"}

(* The rows process_expired_leases puts back in the queue; a NULL lease    *)
(* compares to nothing.                                                    *)
Expired == {t \in Task : status[t] = "RUNNING" /\ lease[t] = "expired"}

ReclaimExpired ==
  /\ Quiet
  /\ Expired # {}
  /\ status' = [t \in Task |-> IF t \in Expired THEN "PENDING" ELSE status[t]]
  /\ lease' = [t \in Task |-> IF t \in Expired THEN "null" ELSE lease[t]]
  /\ UNCHANGED <<exp, experimentId, run, broken, inflight>>

(* The server restarts: handlers that have not committed are gone.         *)
Restart ==
  /\ inflight # {}
  /\ inflight' = {}
  /\ UNCHANGED <<exp, status, lease, experimentId, run, broken>>

-----------------------------------------------------------------------------
Finish(h) ==
  \/ FinishCancel(h)
  \/ FinishRetry(h)
  \/ FinishDelete(h)
  \/ FinishUpload(h)
  \/ FinishComplete(h)
  \/ FinishFail(h)

Report(w, t) ==
  \/ t \in Data /\ BeginUpload(w, t)
  \/ t \in Decoding /\ BeginComplete(w, t)

Next ==
  \/ \E s \in Submission : Submit(s)
  \/ \E u \in User, i \in ExpId :
       BeginCancel(u, i) \/ BeginRetry(u, i) \/ BeginDelete(u, i)
  \/ \E w \in Worker : PollTasks(w) \/ Heartbeat(w) \/ BreakPool(w) \/ RestartWorker(w)
  \/ \E w \in Worker, t \in Task : Report(w, t) \/ BeginFail(w, t) \/ EndTask(w, t)
  \/ \E h \in inflight : Finish(h)
  \/ \E t \in Task : LeaseRunsOut(t)
  \/ ReclaimExpired
  \/ Restart

Spec == Init /\ [][Next]_vars

(* What the scheduling gives: handlers that have started go on, workers    *)
(* poll and every execution ends, time passes, and the lease loop runs.    *)
(* Nobody has to restart a worker whose pool broke.  What the environment  *)
(* has to add: a task that is executed again and again is at last          *)
(* reported, and a report that is made again and again is at last          *)
(* committed (strong fairness).                                            *)
Deliver(t) == \E h \in inflight : h.on = t /\ h.op \in {"upload", "complete"} /\ Finish(h)

Fairness ==
  /\ \A c \in Worker \cup User : WF_vars(\E h \in inflight : h.by = c /\ Finish(h))
  /\ \A w \in Worker : WF_vars(PollTasks(w))
  /\ \A w \in Worker : WF_vars(\E t \in Task : EndTask(w, t))
  /\ \A t \in Task : WF_vars(LeaseRunsOut(t))
  /\ WF_vars(ReclaimExpired)
  /\ \A t \in Task : SF_vars(\E w \in Worker : Report(w, t)) /\ SF_vars(Deliver(t))

FairSpec == Spec /\ Fairness

-----------------------------------------------------------------------------
(* Safety                                                                  *)

(* An experiment is COMPLETED only when every one of its decoding rows is: *)
(* what download_experiment_results and the export worker rely on.         *)
CompletedMeansDone ==
  \A i \in ExpId : exp[i] = "COMPLETED" =>
    /\ JobsOf(i) # {}
    /\ \A j \in JobsOf(i) : status[j] = "COMPLETED"

(* A RUNNING row has a lease, so that a worker that dies can never keep it *)
(* for ever: process_expired_leases skips rows whose lease is NULL.        *)
RunningIsLeased ==
  \A t \in Task : status[t] = "RUNNING" => lease[t] # "null"

(* A decoding job is handed out or done only when the outcome it decodes   *)
(* is there: the /download it starts with would answer 404.                *)
OutcomeBeforeDecoding ==
  \A j \in Decoding :
    status[j] \in {"RUNNING", "COMPLETED"} => status[DataOf[j]] = "COMPLETED"

(* Cancelling an experiment leaves nothing of it in the queue.             *)
CancelledIsQuiet ==
  \A i \in ExpId : exp[i] = "CANCELLED" =>
    \A j \in JobsOf(i) : status[j] \notin {"PENDING", "RUNNING"}

(* An experiment is FAILED only because of a job that is.                  *)
FailedHasFailure ==
  \A i \in ExpId : exp[i] = "FAILED" => \E j \in JobsOf(i) : status[j] = "FAILED"

(* A RUNNING experiment has a job that is not done yet: no rollup is lost. *)
RunningHasWork ==
  \A i \in ExpId : exp[i] = "RUNNING" => \E j \in JobsOf(i) : status[j] # "COMPLETED"

(* A COMPLETED experiment stays COMPLETED until it is deleted, and a       *)
(* generated outcome stays available.                                      *)
CompletedIsFinal ==
  [][/\ \A i \in ExpId : exp[i] = "COMPLETED" => exp'[i] \in {"COMPLETED", "ABSENT"}
     /\ \A t \in Task : status[t] = "COMPLETED" => status'[t] = "COMPLETED"]_vars

(* Handlers and executions are about rows that exist.                      *)
TargetExists(h) ==
  /\ h.op = "upload" => h.on \in Data
  /\ h.op = "complete" => h.on \in Decoding /\ experimentId[h.on] # 0
  /\ h.op = "fail" => h.on \in Task /\ (h.on \in Decoding => experimentId[h.on] # 0)
  /\ h.op \in {"cancel", "retry", "retryPending", "delete"} => h.on \in ExpId

RowsExist ==
  /\ \A j \in Decoding : experimentId[j] = 0 => status[j] = "ABSENT"
  /\ \A w \in Worker, j \in Decoding : run[w][j] # "idle" => experimentId[j] # 0
  /\ \A h \in inflight : TargetExists(h)

(* What makes the last ones inductive when handlers do not overlap: the    *)
(* one handler in flight still sees what its check saw, and a job that is  *)
(* being executed has its outcome.                                         *)
CheckHolds(h) ==
  /\ h.op = "upload" => h.on \in Data /\ status[h.on] # "COMPLETED"
  /\ h.op = "complete" => /\ h.on \in Decoding
                          /\ status[h.on] \notin Settled
                          /\ status[DataOf[h.on]] = "COMPLETED"
  /\ h.op = "fail" => h.on \in Task /\ status[h.on] \notin Settled
  /\ h.op = "cancel" => h.on \in ExpId /\ exp[h.on] \in {"PENDING", "RUNNING"}
  /\ h.op = "retry" => h.on \in ExpId /\ exp[h.on] \in {"RUNNING", "FAILED", "CANCELLED"}
  /\ h.op = "retryPending" => h.on \in ExpId /\ exp[h.on] = "PENDING"
  /\ h.op = "delete" => h.on \in ExpId

SerialInv ==
  /\ \A h \in inflight : inflight = {h} /\ CheckHolds(h)
  /\ OutcomeBeforeDecoding
  /\ \A w \in Worker, j \in Decoding :
       run[w][j] # "idle" => status[DataOf[j]] = "COMPLETED"

(* What the jobs of an experiment still owe it.                            *)
Unfinished ==
  [i \in ExpId |->
     IF exp[i] = "ABSENT" THEN {} ELSE {j \in JobsOf(i) : status[j] # "COMPLETED"}]

Life == INSTANCE ExperimentLife WITH Job <- Decoding, st <- exp, left <- Unfinished

(* Without overlap the queue is an ExperimentLife: whatever the tasks, the *)
(* leases and late reports do, the user sees experiments go through these  *)
(* statuses only, no result is taken back, RUNNING and FAILED have work    *)
(* left, COMPLETED has none and is left by deletion alone.                 *)
LivesAsPromised == Life!Spec

(* What cancel_experiment says of itself (experiment.py:148), "Completed,  *)
(* failed or cancelled experiments cannot be cancelled": a COMPLETED       *)
(* experiment never becomes CANCELLED.  Overlapping handlers break it.     *)
CompletedIsNotCancelled ==
  [][\A i \in ExpId : exp[i] = "COMPLETED" => exp'[i] # "CANCELLED"]_vars

(* What the worker counts on when its lease is lost (worker.py:79), that   *)
(* "in-flight subprocess work may still finish harmlessly (upload/complete *)
(* are idempotent on the server)": a result that is there is not taken     *)
(* back.  A FAILED report that overlaps the other worker's report does.    *)
ResultsAreKept ==
  [][\A t \in Task : status[t] = "COMPLETED" => status'[t] = "COMPLETED"]_vars

-----------------------------------------------------------------------------
(* Liveness                                                                *)

(* The id of t is one of those that a worker with a broken pool posts.     *)
PostedForEver(t) == \E w \in Worker : \E s \in KeptBy(w) : RowId[s] = RowId[t]

(* No row is RUNNING for ever: the report or the lease loop moves it on    *)
(* when its worker dies, its execution is lost or another worker posts its *)
(* id.  The one exception is the worker whose pool broke (worker.py:204):  *)
(* it renews the leases of what it kept as long as its process lives.      *)
NoTaskIsStuck ==
  \A t \in Task : status[t] = "RUNNING" ~> status[t] # "RUNNING" \/ PostedForEver(t)

(* Every submitted experiment comes to an end, unless a worker's pool is   *)
(* broken: such a worker goes on polling and keeps all it is handed.       *)
EveryExperimentEnds ==
  \A i \in ExpId :
    exp[i] \in {"PENDING", "RUNNING"} ~> exp[i] \notin {"PENDING", "RUNNING"} \/ broken # {}

=============================================================================
