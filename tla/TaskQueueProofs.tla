-------------------------- MODULE TaskQueueProofs --------------------------
(***************************************************************************)
(* Proofs about TaskQueue, for any sets of tasks and workers, any batch    *)
(* size and any bounds.                                                    *)
(***************************************************************************)
EXTENDS TaskQueue, TLAPS

(* Updating a function at any argument, of its domain or not, keeps its type. *)
LEMMA ExceptType ==
  ASSUME NEW S, NEW T, NEW f \in [S -> T], NEW a, NEW b \in T
  PROVE  [f EXCEPT ![a] = b] \in [S -> T]
OBVIOUS

(* The phase of one execution changes to another phase.                    *)
LEMMA RunType ==
  ASSUME TypeOK, NEW w \in Worker, NEW t \in Task, NEW p \in Phase
  PROVE  [run EXCEPT ![w][t] = p] \in [Worker -> [Task -> Phase]]
BY SMT DEF TypeOK

(* A rolled-up status is a status: what _rollup_experiment writes, or what *)
(* was there when it returns early.                                        *)
LEMMA RolledUpType ==
  ASSUME TypeOK, NEW i \in ExpId, NEW st
  PROVE  RolledUp(st, i) \in TaskStatus \cup {"ABSENT"}
BY SMT DEF RolledUp, TypeOK, TaskStatus

(* What a worker does besides polling, executing and reporting.            *)
Aside(w) == Heartbeat(w) \/ BreakPool(w) \/ RestartWorker(w)

(* It touches no row but its lease, no handler, and starts no execution.   *)
LEMMA AsideStartsNothing ==
  ASSUME TypeOK, NEW w \in Worker, Aside(w)
  PROVE  /\ UNCHANGED <<exp, status, experimentId, inflight>>
         /\ run' \in [Worker -> [Task -> Phase]]
         /\ \A v \in Worker, t \in Task : run'[v][t] # "idle" => run[v][t] # "idle"
<1>1. UNCHANGED <<exp, status, experimentId, inflight>>
  BY DEF Aside, Heartbeat, BreakPool, RestartWorker
<1>2. run' = run \/ \E f \in [Task -> Phase] :
        /\ run' = [run EXCEPT ![w] = f]
        /\ \A t \in Task : f[t] # "idle" => run[w][t] # "idle"
  <2>1. CASE Heartbeat(w)
    <3> DEFINE f == [t \in Task |-> IF t \in KeptBy(w) THEN "idle" ELSE run[w][t]]
    <3>1. f \in [Task -> Phase]
      BY DEF TypeOK, Phase
    <3>2. run' = run \/ run' = [run EXCEPT ![w] = f]
      BY <2>1 DEF Heartbeat
    <3>3. QED
      BY <3>1, <3>2
  <2>2. CASE BreakPool(w)
    <3>1. PICK left \in {"idle", "kept"} :
            run' = [run EXCEPT ![w] =
                      [t \in Task |-> IF run[w][t] \in Executing THEN left ELSE "idle"]]
      BY <2>2 DEF BreakPool
    <3> DEFINE f == [t \in Task |-> IF run[w][t] \in Executing THEN left ELSE "idle"]
    <3>2. f \in [Task -> Phase] /\ \A t \in Task : f[t] # "idle" => run[w][t] # "idle"
      BY DEF Phase, Executing
    <3>3. QED
      BY <3>1, <3>2
  <2>3. CASE RestartWorker(w)
    <3> DEFINE f == [t \in Task |-> "idle"]
    <3>1. f \in [Task -> Phase] /\ run' = [run EXCEPT ![w] = f]
      BY <2>3 DEF RestartWorker, Phase
    <3>2. QED
      BY <3>1
  <2>4. QED
    BY <2>1, <2>2, <2>3 DEF Aside
<1>3. QED
  BY <1>1, <1>2 DEF TypeOK

(* A handler record in flight has an operation, a target and a client.     *)
LEMMA BeginType ==
  ASSUME TypeOK, NEW op \in Op, NEW x \in Task \cup ExpId,
         NEW c \in Worker \cup User, Begin(op, x, c)
  PROVE  inflight' \subseteq Handler
BY SMT DEF Begin, TypeOK, Handler

(* Every variable of the queue keeps to its type: the rows to the five     *)
(* statuses of TaskStatus (models/db.py), the handlers to theirs.          *)
THEOREM TypeCorrect == Spec => []TypeOK
<1>1. Init => TypeOK
  BY SMT DEF Init, TypeOK, TaskStatus, Lease, Phase
<1>2. TypeOK /\ [Next]_vars => TypeOK'
  <2> SUFFICES ASSUME TypeOK, [Next]_vars PROVE TypeOK'
    OBVIOUS
  <2>1. ASSUME NEW s \in Submission, Submit(s) PROVE TypeOK'
    BY <2>1, SMT DEF TypeOK, Submit, TaskStatus
  <2>2. ASSUME NEW u \in User, NEW i \in ExpId, BeginCancel(u, i) PROVE TypeOK'
    BY <2>2, BeginType, SMT DEF TypeOK, BeginCancel, Op
  <2>3. ASSUME NEW u \in User, NEW i \in ExpId, BeginRetry(u, i) PROVE TypeOK'
    BY <2>3, BeginType, SMT DEF TypeOK, BeginRetry, Op
  <2>4. ASSUME NEW u \in User, NEW i \in ExpId, BeginDelete(u, i) PROVE TypeOK'
    BY <2>4, BeginType, SMT DEF TypeOK, BeginDelete, Op
  <2>5. ASSUME NEW w \in Worker, PollTasks(w) PROVE TypeOK'
    BY <2>5, SMT DEF TypeOK, PollTasks, Leased, TaskStatus, Lease, Phase, Executing
  <2>6. ASSUME NEW w \in Worker, Aside(w) PROVE TypeOK'
    <3>1. UNCHANGED <<exp, status, experimentId, inflight>> /\ run' \in [Worker -> [Task -> Phase]]
      BY <2>6, AsideStartsNothing
    <3>2. lease' \in [Task -> Lease] /\ broken' \subseteq Worker
      BY <2>6 DEF Aside, Heartbeat, BreakPool, RestartWorker, TypeOK, Lease
    <3>3. QED
      BY <3>1, <3>2 DEF TypeOK
  <2>7. ASSUME NEW w \in Worker, NEW d \in Data, BeginUpload(w, d) PROVE TypeOK'
    <3>1. d \in Task /\ "upload" \in Op /\ "reporting" \in Phase
      BY DEF Task, Op, Phase, Executing
    <3>2. run' \in [Worker -> [Task -> Phase]]
      BY <2>7, <3>1, RunType DEF BeginUpload
    <3>3. inflight' \subseteq Handler
      BY <2>7, <3>1, BeginType DEF BeginUpload, TypeOK
    <3>4. QED
      BY <2>7, <3>2, <3>3 DEF BeginUpload, TypeOK
  <2>8. ASSUME NEW w \in Worker, NEW j \in Decoding, BeginComplete(w, j) PROVE TypeOK'
    <3>1. j \in Task /\ "complete" \in Op /\ "reporting" \in Phase
      BY DEF Task, Op, Phase, Executing
    <3>2. run' \in [Worker -> [Task -> Phase]]
      BY <2>8, <3>1, RunType DEF BeginComplete
    <3>3. inflight' \subseteq Handler
      BY <2>8, <3>1, BeginType DEF BeginComplete, TypeOK
    <3>4. QED
      BY <2>8, <3>2, <3>3 DEF BeginComplete, TypeOK
  <2>9. ASSUME NEW w \in Worker, NEW t \in Task, BeginFail(w, t) PROVE TypeOK'
    BY <2>9, BeginType, SMT DEF TypeOK, BeginFail, Op, Phase, Executing
  <2>10. ASSUME NEW w \in Worker, NEW t \in Task, EndTask(w, t) PROVE TypeOK'
    BY <2>10, SMT DEF TypeOK, EndTask, Phase, Executing
  <2>11. ASSUME NEW h \in inflight, FinishCancel(h) PROVE TypeOK'
    BY <2>11, SMT DEF TypeOK, FinishCancel, TaskStatus
  <2>12. ASSUME NEW h \in inflight, FinishRetry(h) PROVE TypeOK'
    BY <2>12, SMT DEF TypeOK, FinishRetry, RetriedExp, TaskStatus
  <2>13. ASSUME NEW h \in inflight, FinishDelete(h) PROVE TypeOK'
    BY <2>13, ExceptType DEF TypeOK, FinishDelete
  <2>14. ASSUME NEW h \in inflight, FinishUpload(h) PROVE TypeOK'
    BY <2>14, ExceptType DEF TypeOK, FinishUpload, TaskStatus
  <2>15. ASSUME NEW h \in inflight, FinishComplete(h) PROVE TypeOK'
    <3>1. status' \in [Task -> TaskStatus \cup {"ABSENT"}]
      BY <2>15, ExceptType DEF TypeOK, FinishComplete, TaskStatus
    <3>2. exp' \in [ExpId -> TaskStatus \cup {"ABSENT"}]
      BY <2>15, RolledUpType, SMT DEF TypeOK, FinishComplete
    <3>3. QED
      BY <2>15, <3>1, <3>2 DEF TypeOK, FinishComplete
  <2>16. ASSUME NEW h \in inflight, FinishFail(h) PROVE TypeOK'
    BY <2>16, RolledUpType, SMT DEF TypeOK, FinishFail, TaskStatus
  <2>17. ASSUME NEW t \in Task, LeaseRunsOut(t) PROVE TypeOK'
    BY <2>17, SMT DEF TypeOK, LeaseRunsOut, Lease
  <2>18. CASE ReclaimExpired
    BY <2>18, SMT DEF TypeOK, ReclaimExpired, TaskStatus, Lease
  <2>19. CASE Restart
    BY <2>19, SMT DEF TypeOK, Restart
  <2>20. CASE UNCHANGED vars
    BY <2>20, SMT DEF TypeOK, vars
  <2>21. QED
    BY <2>1, <2>2, <2>3, <2>4, <2>5, <2>6, <2>7, <2>8, <2>9, <2>10, <2>11, <2>12,
       <2>13, <2>14, <2>15, <2>16, <2>17, <2>18, <2>19, <2>20 DEF Next, Finish, Report, Aside
<1>3. QED
  BY <1>1, <1>2, PTL DEF Spec

-----------------------------------------------------------------------------
(* The rollup says COMPLETED of an experiment that was not only when it    *)
(* has jobs and all of them are.                                           *)
LEMMA RolledUpCompleted ==
  ASSUME NEW i \in ExpId, NEW st, RolledUp(st, i) = "COMPLETED",
         exp[i] = "COMPLETED" => JobsOf(i) # {}
  PROVE  JobsOf(i) # {} /\ \A j \in JobsOf(i) : st[j] = "COMPLETED"
<1> DEFINE S == {st[j] : j \in JobsOf(i)}
<1>1. CASE exp[i] \in {"ABSENT", "CANCELLED"}
  BY <1>1 DEF RolledUp
<1>2. CASE S = {}
  <2>1. JobsOf(i) = {}
    BY <1>2
  <2>2. exp[i] = "COMPLETED"
    BY <1>2 DEF RolledUp
  <2>3. QED
    BY <2>1, <2>2
<1>3. CASE exp[i] \notin {"ABSENT", "CANCELLED"} /\ S # {}
  <2>1. S = {"COMPLETED"}
    BY <1>3 DEF RolledUp
  <2>2. QED
    BY <2>1
<1>4. QED
  BY <1>1, <1>2, <1>3

(* An experiment is COMPLETED only when all its jobs are, however the      *)
(* handlers overlap: the rollup and the write of the job are one           *)
(* transaction, no handler overwrites the result of a job without a        *)
(* rollup, and retry takes no COMPLETED job back.                          *)
THEOREM CompletedCorrect == Spec => []CompletedMeansDone
<1>1. Init => CompletedMeansDone
  BY DEF Init, CompletedMeansDone
<1>2. TypeOK /\ CompletedMeansDone /\ [Next]_vars => CompletedMeansDone'
  <2> SUFFICES ASSUME TypeOK, CompletedMeansDone, [Next]_vars,
                      NEW k \in ExpId, exp'[k] = "COMPLETED"
               PROVE  (/\ JobsOf(k) # {}
                       /\ \A j \in JobsOf(k) : status[j] = "COMPLETED")'
    BY DEF CompletedMeansDone
  <2> DEFINE Done == /\ JobsOf(k) # {}
                     /\ \A j \in JobsOf(k) : status[j] = "COMPLETED"
  <2>a. exp[k] = "COMPLETED" => Done
    BY DEF CompletedMeansDone
  <2>b. 0 \notin ExpId
    BY DEF ExpId
  <2>c. (Done /\ experimentId' = experimentId
         /\ \A j \in JobsOf(k) : status[j] = "COMPLETED" => status'[j] = "COMPLETED") => Done'
    BY DEF JobsOf
  <2>d. (UNCHANGED <<exp, status, experimentId>>) => Done'
    BY <2>a, <2>c
  <2>1. ASSUME NEW s \in Submission, Submit(s) PROVE Done'
    <3>1. PICK i \in ExpId :
            /\ IsNextId(i)
            /\ exp' = [exp EXCEPT ![i] = "PENDING"]
            /\ experimentId' = [j \in Decoding |->
                 IF j \in {x \in Decoding : SubmissionOf[x] = s} THEN i ELSE experimentId[j]]
      BY <2>1 DEF Submit
    <3>2. k # i /\ exp[k] = "COMPLETED"
      BY <3>1 DEF TypeOK
    <3>3. \A j \in Decoding : SubmissionOf[j] = s => experimentId[j] = 0
      BY <2>1 DEF Submit
    <3>4. JobsOf(k)' = JobsOf(k)
      BY <3>1, <3>2, <3>3, <2>b DEF JobsOf
    <3>5. \A j \in JobsOf(k) : status'[j] = status[j]
      <4> SUFFICES ASSUME NEW j \in JobsOf(k) PROVE status'[j] = status[j]
        OBVIOUS
      <4>1. j \in Decoding /\ SubmissionOf[j] # s /\ j \notin Data
        BY <3>3, <2>b, TaskAssumption DEF JobsOf
      <4>2. QED
        BY <4>1, <2>1 DEF Submit, Task
    <3>6. QED
      BY <3>2, <3>4, <3>5, <2>a
  <2>2. ASSUME NEW u \in User, NEW i \in ExpId, BeginCancel(u, i) PROVE Done'
    BY <2>2, <2>d DEF BeginCancel
  <2>3. ASSUME NEW u \in User, NEW i \in ExpId, BeginRetry(u, i) PROVE Done'
    BY <2>3, <2>d DEF BeginRetry
  <2>4. ASSUME NEW u \in User, NEW i \in ExpId, BeginDelete(u, i) PROVE Done'
    BY <2>4, <2>d DEF BeginDelete
  <2>5. ASSUME NEW w \in Worker, PollTasks(w) PROVE Done'
    <3>1. PICK D \in SUBSET PendingData, J \in SUBSET Runnable(w) :
            /\ status' = [t \in Task |-> IF t \in D \cup J THEN "RUNNING" ELSE status[t]]
            /\ exp' = [i \in ExpId |->
                 IF /\ i \in (UNION {ExperimentsOn(d) : d \in D}) \cup {experimentId[j] : j \in J}
                    /\ exp[i] = "PENDING"
                 THEN "RUNNING" ELSE exp[i]]
      BY <2>5 DEF PollTasks, Limited
    <3>2. exp[k] = "COMPLETED"
      BY <3>1
    <3>3. \A t \in D \cup J : status[t] = "PENDING"
      BY <3>1 DEF PendingData, Runnable
    <3>4. \A j \in JobsOf(k) : status[j] = "COMPLETED" => status'[j] = "COMPLETED"
      BY <3>1, <3>3 DEF JobsOf, Task
    <3>5. QED
      BY <3>2, <3>4, <2>a, <2>c, <2>5 DEF PollTasks
  <2>6. ASSUME NEW w \in Worker, Aside(w) PROVE Done'
    BY <2>6, <2>d, AsideStartsNothing
  <2>7. ASSUME NEW w \in Worker, NEW d \in Data, BeginUpload(w, d) PROVE Done'
    BY <2>7, <2>d DEF BeginUpload
  <2>8. ASSUME NEW w \in Worker, NEW j \in Decoding, BeginComplete(w, j) PROVE Done'
    BY <2>8, <2>d DEF BeginComplete
  <2>9. ASSUME NEW w \in Worker, NEW t \in Task, BeginFail(w, t) PROVE Done'
    BY <2>9, <2>d DEF BeginFail
  <2>10. ASSUME NEW w \in Worker, NEW t \in Task, EndTask(w, t) PROVE Done'
    BY <2>10, <2>d DEF EndTask
  <2>11. ASSUME NEW h \in inflight, FinishCancel(h) PROVE Done'
    <3>1. CASE exp[h.on] = "ABSENT"
      BY <3>1, <2>11, <2>d DEF FinishCancel
    <3>2. CASE exp[h.on] # "ABSENT"
      <4>1. exp' = [exp EXCEPT ![h.on] = "CANCELLED"]
        BY <3>2, <2>11 DEF FinishCancel
      <4>2. k # h.on /\ exp[k] = "COMPLETED"
        BY <4>1 DEF TypeOK
      <4>3. \A j \in JobsOf(k) : j \notin JobsOf(h.on)
        BY <4>2 DEF JobsOf
      <4>4. \A j \in JobsOf(k) : status'[j] = status[j]
        BY <4>3, <3>2, <2>11 DEF FinishCancel, JobsOf, Task
      <4>5. QED
        BY <4>2, <4>4, <2>a, <2>c, <2>11 DEF FinishCancel
    <3>3. QED
      BY <3>1, <3>2
  <2>12. ASSUME NEW h \in inflight, FinishRetry(h) PROVE Done'
    <3>1. CASE UNCHANGED <<exp, status>>
      BY <3>1, <2>12, <2>d DEF FinishRetry
    <3>2. CASE /\ exp' = RetriedExp(h)
               /\ status' = [t \in Task |->
                    IF t \in RetriedJobs(h.on) \cup RetriedData(h.on)
                    THEN "PENDING" ELSE status[t]]
      <4>1. exp[k] = "COMPLETED"
        BY <3>2 DEF RetriedExp, TypeOK
      <4>2. \A j \in JobsOf(k) : status[j] = "COMPLETED" => status'[j] = "COMPLETED"
        BY <3>2, TaskAssumption DEF RetriedJobs, RetriedData, JobsOf, Task
      <4>3. QED
        BY <4>1, <4>2, <2>a, <2>c, <2>12 DEF FinishRetry
    <3>3. QED
      BY <3>1, <3>2, <2>12 DEF FinishRetry
  <2>13. ASSUME NEW h \in inflight, FinishDelete(h) PROVE Done'
    <3>1. exp[k] = "COMPLETED"
      BY <2>13 DEF FinishDelete, TypeOK
    <3>2. QED
      BY <3>1, <2>a, <2>c, <2>13 DEF FinishDelete
  <2>14. ASSUME NEW h \in inflight, FinishUpload(h) PROVE Done'
    <3>1. \A j \in JobsOf(k) : status[j] = "COMPLETED" => status'[j] = "COMPLETED"
      BY <2>14 DEF FinishUpload, TypeOK, JobsOf, Task
    <3>2. QED
      BY <3>1, <2>a, <2>c, <2>14 DEF FinishUpload
  <2>15. ASSUME NEW h \in inflight, FinishComplete(h) PROVE Done'
    <3>1. \A j \in JobsOf(k) : status[j] = "COMPLETED" => status'[j] = "COMPLETED"
      BY <2>15 DEF FinishComplete, TypeOK, JobsOf, Task
    <3>2. CASE k # experimentId[h.on]
      <4>1. exp[k] = "COMPLETED"
        BY <3>2, <2>15 DEF FinishComplete
      <4>2. QED
        BY <4>1, <3>1, <2>a, <2>c, <2>15 DEF FinishComplete
    <3>3. CASE k = experimentId[h.on]
      <4>1. RolledUp(status', k) = "COMPLETED"
        BY <3>3, <2>15 DEF FinishComplete
      <4>2. JobsOf(k) # {} /\ \A j \in JobsOf(k) : status'[j] = "COMPLETED"
        BY <4>1, <2>a, RolledUpCompleted
      <4>3. QED
        BY <4>2, <2>15 DEF FinishComplete, JobsOf
    <3>4. QED
      BY <3>2, <3>3
  <2>16. ASSUME NEW h \in inflight, FinishFail(h) PROVE Done'
    <3> DEFINE affected == IF h.on \in Data THEN ExperimentsOn(h.on) ELSE {experimentId[h.on]}
    <3>1. exp' = [i \in ExpId |-> IF i \in affected THEN RolledUp(status', i) ELSE exp[i]]
      BY <2>16 DEF FinishFail
    <3>2. CASE k \notin affected
      <4>1. exp[k] = "COMPLETED"
        BY <3>1, <3>2
      <4>2. \A j \in JobsOf(k) : j \notin FailedWith(h.on)
        BY <3>2, <2>b, TaskAssumption DEF FailedWith, JobsOf, DecodingsOf, ExperimentsOn
      <4>3. \A j \in JobsOf(k) : status'[j] = status[j]
        BY <4>2, <2>16 DEF FinishFail, JobsOf, Task
      <4>4. QED
        BY <4>1, <4>3, <2>a, <2>c, <2>16 DEF FinishFail
    <3>3. CASE k \in affected
      <4>1. RolledUp(status', k) = "COMPLETED"
        BY <3>1, <3>3
      <4>2. JobsOf(k) # {} /\ \A j \in JobsOf(k) : status'[j] = "COMPLETED"
        BY <4>1, <2>a, RolledUpCompleted
      <4>3. QED
        BY <4>2, <2>16 DEF FinishFail, JobsOf
    <3>4. QED
      BY <3>2, <3>3
  <2>17. ASSUME NEW t \in Task, LeaseRunsOut(t) PROVE Done'
    BY <2>17, <2>d DEF LeaseRunsOut
  <2>18. CASE ReclaimExpired
    <3>1. \A j \in JobsOf(k) : status[j] = "COMPLETED" => status'[j] = "COMPLETED"
      BY <2>18 DEF ReclaimExpired, Expired, JobsOf, Task
    <3>2. QED
      BY <3>1, <2>a, <2>c, <2>18 DEF ReclaimExpired
  <2>19. CASE Restart
    BY <2>19, <2>d DEF Restart
  <2>20. CASE UNCHANGED vars
    BY <2>20, <2>d DEF vars
  <2>21. QED
    BY <2>1, <2>2, <2>3, <2>4, <2>5, <2>6, <2>7, <2>8, <2>9, <2>10, <2>11, <2>12,
       <2>13, <2>14, <2>15, <2>16, <2>17, <2>18, <2>19, <2>20 DEF Next, Finish, Report, Aside
<1>3. QED
  BY <1>1, <1>2, TypeCorrect, PTL DEF Spec

-----------------------------------------------------------------------------
(* A RUNNING row always has a lease, so the lease loop can always reclaim  *)
(* it: only poll_tasks makes a row RUNNING, and only the lease loop, which *)
(* puts the row back to PENDING, takes a lease away.                       *)
THEOREM RunningLeased == Spec => []RunningIsLeased
<1>1. Init => RunningIsLeased
  BY DEF Init, RunningIsLeased
<1>2. TypeOK /\ RunningIsLeased /\ [Next]_vars => RunningIsLeased'
  <2> SUFFICES ASSUME TypeOK, RunningIsLeased, [Next]_vars,
                      NEW t \in Task, status'[t] = "RUNNING"
               PROVE  lease'[t] # "null"
    BY DEF RunningIsLeased
  <2>a. status[t] = "RUNNING" /\ lease' = lease => lease'[t] # "null"
    BY DEF RunningIsLeased
  <2>1. ASSUME NEW s \in Submission, Submit(s) PROVE lease'[t] # "null"
    BY <2>1, <2>a DEF Submit
  <2>2. ASSUME NEW u \in User, NEW i \in ExpId,
               BeginCancel(u, i) \/ BeginRetry(u, i) \/ BeginDelete(u, i)
        PROVE  lease'[t] # "null"
    BY <2>2, <2>a DEF BeginCancel, BeginRetry, BeginDelete
  <2>3. ASSUME NEW w \in Worker, PollTasks(w) PROVE lease'[t] # "null"
    <3>1. PICK T : /\ status' = [x \in Task |-> IF x \in T THEN "RUNNING" ELSE status[x]]
                   /\ lease' = Leased(T)
      BY <2>3 DEF PollTasks
    <3>2. QED
      BY <3>1 DEF Leased, RunningIsLeased
  <2>4. ASSUME NEW w \in Worker, Aside(w) PROVE lease'[t] # "null"
    BY <2>4 DEF Aside, Heartbeat, BreakPool, RestartWorker, RunningIsLeased
  <2>5. ASSUME NEW w \in Worker, NEW x \in Task,
               Report(w, x) \/ BeginFail(w, x) \/ EndTask(w, x)
        PROVE  lease'[t] # "null"
    BY <2>5, <2>a DEF Report, BeginUpload, BeginComplete, BeginFail, EndTask
  <2>6. ASSUME NEW h \in inflight, FinishCancel(h) PROVE lease'[t] # "null"
    BY <2>6, <2>a DEF FinishCancel
  <2>7. ASSUME NEW h \in inflight, FinishRetry(h) PROVE lease'[t] # "null"
    BY <2>7, <2>a DEF FinishRetry
  <2>8. ASSUME NEW h \in inflight, FinishDelete(h) \/ FinishUpload(h) \/ FinishComplete(h)
        PROVE  lease'[t] # "null"
    BY <2>8, <2>a DEF FinishDelete, FinishUpload, FinishComplete, TypeOK
  <2>9. ASSUME NEW h \in inflight, FinishFail(h) PROVE lease'[t] # "null"
    BY <2>9, <2>a DEF FinishFail
  <2>10. ASSUME NEW x \in Task, LeaseRunsOut(x) PROVE lease'[t] # "null"
    BY <2>10 DEF LeaseRunsOut, RunningIsLeased, TypeOK
  <2>11. CASE ReclaimExpired
    BY <2>11 DEF ReclaimExpired, RunningIsLeased
  <2>12. CASE Restart \/ UNCHANGED vars
    BY <2>12, <2>a DEF Restart, vars
  <2>13. QED
    BY <2>1, <2>2, <2>3, <2>4, <2>5, <2>6, <2>7, <2>8, <2>9, <2>10, <2>11, <2>12
       DEF Next, Finish, Aside
<1>3. QED
  BY <1>1, <1>2, TypeCorrect, PTL DEF Spec

-----------------------------------------------------------------------------
(* A new handler record is the only one added.                             *)
LEMMA BeginAdds ==
  ASSUME NEW op, NEW x, NEW c, Begin(op, x, c)
  PROVE  inflight' = inflight \cup {[op |-> op, on |-> x, by |-> c]}
BY DEF Begin

(* Starting a handler on a row that exists keeps RowsExist.                *)
LEMMA BeginOnRow ==
  ASSUME RowsExist, NEW op, NEW x, NEW c, Begin(op, x, c),
         UNCHANGED <<status, experimentId>>,
         TargetExists([op |-> op, on |-> x, by |-> c]),
         \A w \in Worker, j \in Decoding : run'[w][j] # "idle" => run[w][j] # "idle"
  PROVE  RowsExist'
<1>1. \A h \in inflight' : TargetExists(h)'
  BY BeginAdds DEF RowsExist, TargetExists
<1>2. QED
  BY <1>1 DEF RowsExist

(* So does a step that creates no row, starts no handler and no execution, *)
(* and writes existing rows only.                                          *)
LEMMA OnlyRowsWritten ==
  ASSUME RowsExist, UNCHANGED experimentId, inflight' \subseteq inflight,
         \A j \in Decoding : experimentId[j] = 0 => status'[j] = status[j],
         \A w \in Worker, j \in Decoding : run'[w][j] # "idle" => run[w][j] # "idle"
  PROVE  RowsExist'
<1>1. \A h \in inflight' : TargetExists(h)'
  BY DEF RowsExist, TargetExists
<1>2. QED
  BY <1>1 DEF RowsExist

(* No handler and no execution is about a decoding row that does not       *)
(* exist: rows are created by submit_experiment, never deleted, and only   *)
(* found through their ids.                                                *)
THEOREM RowsExistAlways == Spec => []RowsExist
<1>1. Init => RowsExist
  BY DEF Init, RowsExist, Task
<1>2. TypeOK /\ RowsExist /\ [Next]_vars => RowsExist'
  <2> SUFFICES ASSUME TypeOK, RowsExist, [Next]_vars PROVE RowsExist'
    OBVIOUS
  <2>a. 0 \notin ExpId
    BY DEF ExpId
  <2>1. ASSUME NEW s \in Submission, Submit(s) PROVE RowsExist'
    <3>1. \A j \in Decoding : experimentId[j] # 0 => experimentId'[j] # 0
      BY <2>1, <2>a DEF Submit
    <3>2. \A j \in Decoding : experimentId'[j] = 0 =>
            experimentId[j] = 0 /\ SubmissionOf[j] # s
      BY <2>1, <2>a DEF Submit
    <3>3. \A j \in Decoding : experimentId'[j] = 0 => status'[j] = status[j]
      BY <2>1, <3>2, TaskAssumption DEF Submit, Task
    <3>4. \A h \in inflight' : TargetExists(h)'
      BY <2>1, <3>1 DEF Submit, RowsExist, TargetExists
    <3>5. QED
      BY <2>1, <3>1, <3>2, <3>3, <3>4 DEF Submit, RowsExist
  <2>2. ASSUME NEW u \in User, NEW i \in ExpId, BeginCancel(u, i) PROVE RowsExist'
    <3>1. TargetExists([op |-> "cancel", on |-> i, by |-> u])
      BY DEF TargetExists
    <3>2. QED
      BY <2>2, <3>1, BeginOnRow DEF BeginCancel
  <2>3. ASSUME NEW u \in User, NEW i \in ExpId, BeginRetry(u, i) PROVE RowsExist'
    <3> DEFINE op == IF exp[i] = "PENDING" THEN "retryPending" ELSE "retry"
    <3>1. TargetExists([op |-> op, on |-> i, by |-> u])
      BY DEF TargetExists
    <3>2. Begin(op, i, u)
      BY <2>3 DEF BeginRetry
    <3>3. QED
      BY <2>3, <3>1, <3>2, BeginOnRow DEF BeginRetry
  <2>4. ASSUME NEW u \in User, NEW i \in ExpId, BeginDelete(u, i) PROVE RowsExist'
    <3>1. TargetExists([op |-> "delete", on |-> i, by |-> u])
      BY DEF TargetExists
    <3>2. QED
      BY <2>4, <3>1, BeginOnRow DEF BeginDelete
  <2>5. ASSUME NEW w \in Worker, PollTasks(w) PROVE RowsExist'
    <3>1. PICK D \in SUBSET PendingData, J \in SUBSET Runnable(w) :
            /\ status' = [t \in Task |-> IF t \in D \cup J THEN "RUNNING" ELSE status[t]]
            /\ run' = [run EXCEPT ![w] =
                 [t \in Task |-> IF t \notin D \cup J THEN run[w][t]
                                 ELSE IF w \in broken THEN "kept" ELSE "working"]]
      BY <2>5 DEF PollTasks, Limited
    <3>2. \A j \in Decoding : j \in D \cup J => experimentId[j] # 0
      BY <3>1, <2>a, TaskAssumption DEF PendingData, Runnable
    <3>3. \A j \in Decoding : experimentId[j] = 0 => status'[j] = status[j]
      BY <3>1, <3>2 DEF Task
    <3>4. \A v \in Worker, j \in Decoding : run'[v][j] # "idle" => experimentId[j] # 0
      BY <3>1, <3>2 DEF Task, TypeOK, RowsExist
    <3>5. UNCHANGED <<experimentId, inflight>>
      BY <2>5 DEF PollTasks
    <3>6. \A h \in inflight' : TargetExists(h)'
      BY <3>5 DEF RowsExist, TargetExists
    <3>7. QED
      BY <3>3, <3>4, <3>5, <3>6 DEF RowsExist
  <2>6. ASSUME NEW w \in Worker, Aside(w) PROVE RowsExist'
    BY <2>6, AsideStartsNothing, OnlyRowsWritten DEF Task
  <2>7. ASSUME NEW w \in Worker, NEW d \in Data, BeginUpload(w, d) PROVE RowsExist'
    <3>1. \A v \in Worker, j \in Decoding : run'[v][j] # "idle" => run[v][j] # "idle"
      BY <2>7 DEF BeginUpload, TypeOK, Task
    <3>2. TargetExists([op |-> "upload", on |-> d, by |-> w])
      BY DEF TargetExists
    <3>3. QED
      BY <2>7, <3>1, <3>2, BeginOnRow, OnlyRowsWritten DEF BeginUpload
  <2>8. ASSUME NEW w \in Worker, NEW j \in Decoding, BeginComplete(w, j) PROVE RowsExist'
    <3>1. \A v \in Worker, k \in Decoding : run'[v][k] # "idle" => run[v][k] # "idle"
      BY <2>8 DEF BeginComplete, TypeOK, Task
    <3>2. experimentId[j] # 0
      BY <2>8 DEF BeginComplete, RowsExist
    <3>3. TargetExists([op |-> "complete", on |-> j, by |-> w])
      BY <3>2 DEF TargetExists
    <3>4. QED
      BY <2>8, <3>1, <3>3, BeginOnRow, OnlyRowsWritten DEF BeginComplete
  <2>9. ASSUME NEW w \in Worker, NEW t \in Task, BeginFail(w, t) PROVE RowsExist'
    <3>1. \A v \in Worker, k \in Decoding : run'[v][k] # "idle" => run[v][k] # "idle"
      BY <2>9 DEF BeginFail, TypeOK, Task
    <3>2. t \in Decoding => experimentId[t] # 0
      BY <2>9 DEF BeginFail, RowsExist, Executing
    <3>3. TargetExists([op |-> "fail", on |-> t, by |-> w])
      BY <3>2 DEF TargetExists
    <3>4. QED
      BY <2>9, <3>1, <3>3, BeginOnRow, OnlyRowsWritten DEF BeginFail
  <2>10. ASSUME NEW w \in Worker, NEW t \in Task, EndTask(w, t) PROVE RowsExist'
    <3>1. \A v \in Worker, k \in Decoding : run'[v][k] # "idle" => run[v][k] # "idle"
      BY <2>10 DEF EndTask, TypeOK, Task
    <3>2. QED
      BY <2>10, <3>1, OnlyRowsWritten DEF EndTask
  <2>11. ASSUME NEW h \in inflight, Finish(h) PROVE RowsExist'
    <3>1. TargetExists(h)
      BY DEF RowsExist
    <3>2. UNCHANGED <<experimentId, run>> /\ inflight' \subseteq inflight
      BY <2>11 DEF Finish, FinishCancel, FinishRetry, FinishDelete, FinishUpload,
         FinishComplete, FinishFail
    <3>3. ASSUME NEW j \in Decoding, experimentId[j] = 0 PROVE status'[j] = status[j]
      <4>1. j \in Task /\ j \notin Data
        BY TaskAssumption DEF Task
      <4>2. h.on \in ExpId => j \notin JobsOf(h.on)
        BY <3>3, <2>a DEF JobsOf
      <4>3. CASE FinishCancel(h)
        BY <3>1, <4>1, <4>2, <4>3 DEF FinishCancel, TargetExists
      <4>4. CASE FinishRetry(h)
        BY <3>1, <4>1, <4>2, <4>4 DEF FinishRetry, TargetExists, RetriedJobs, RetriedData
      <4>5. CASE FinishDelete(h)
        BY <4>5 DEF FinishDelete
      <4>6. CASE FinishUpload(h)
        BY <3>1, <4>1, <4>6 DEF FinishUpload, TargetExists, TypeOK
      <4>7. CASE FinishComplete(h)
        BY <3>1, <3>3, <4>1, <4>7 DEF FinishComplete, TargetExists, TypeOK
      <4>8. CASE FinishFail(h)
        <5>1. j \notin FailedWith(h.on)
          BY <3>1, <3>3, <4>8 DEF FinishFail, TargetExists, FailedWith, DecodingsOf
        <5>2. QED
          BY <4>1, <4>8, <5>1 DEF FinishFail
      <4>9. QED
        BY <2>11, <4>3, <4>4, <4>5, <4>6, <4>7, <4>8 DEF Finish
    <3>4. QED
      BY <3>2, <3>3, OnlyRowsWritten
  <2>12. ASSUME NEW t \in Task, LeaseRunsOut(t) PROVE RowsExist'
    BY <2>12, OnlyRowsWritten DEF LeaseRunsOut
  <2>13. CASE ReclaimExpired
    <3>1. \A j \in Decoding : experimentId[j] = 0 => status'[j] = status[j]
      BY <2>13 DEF ReclaimExpired, Expired, RowsExist, Task
    <3>2. QED
      BY <2>13, <3>1, OnlyRowsWritten DEF ReclaimExpired
  <2>14. CASE Restart \/ UNCHANGED vars
    BY <2>14, OnlyRowsWritten DEF Restart, vars
  <2>15. QED
    BY <2>1, <2>2, <2>3, <2>4, <2>5, <2>6, <2>7, <2>8, <2>9, <2>10, <2>11, <2>12,
       <2>13, <2>14 DEF Next, Report, Aside
<1>3. QED
  BY <1>1, <1>2, TypeCorrect, PTL DEF Spec

-----------------------------------------------------------------------------
(***************************************************************************)
(* What the queue guarantees when no request runs between the check and    *)
(* the write of another one, for any sets of tasks and workers.            *)
(***************************************************************************)

(* When a handler starts, no other one is in flight.                       *)
LEMMA BeginAlone ==
  ASSUME ~Overlap, NEW op, NEW x, NEW c, Begin(op, x, c)
  PROVE  inflight' = {[op |-> op, on |-> x, by |-> c]}
BY DEF Begin, Quiet

(* A step that starts a handler whose check holds, and changes no row and  *)
(* no execution other than by ending or advancing one, keeps SerialInv.    *)
LEMMA BeginKeeps ==
  ASSUME SerialInv, ~Overlap, NEW op \in Op, NEW x, NEW c, Begin(op, x, c),
         UNCHANGED <<exp, status>>,
         CheckHolds([op |-> op, on |-> x, by |-> c]),
         \A w \in Worker, j \in Decoding : run'[w][j] # "idle" => run[w][j] # "idle"
  PROVE  SerialInv'
<1> DEFINE g == [op |-> op, on |-> x, by |-> c]
<1>1. inflight' = {g}
  BY BeginAlone
<1>2. CheckHolds(g)'
  BY DEF CheckHolds
<1>3. \A h \in inflight' : inflight' = {h} /\ CheckHolds(h)'
  BY <1>1, <1>2
<1>4. QED
  BY <1>3 DEF SerialInv, OutcomeBeforeDecoding

(* A step that changes no row, starts no handler and starts no execution   *)
(* keeps SerialInv.                                                        *)
LEMMA RowsKept ==
  ASSUME SerialInv, UNCHANGED <<exp, status>>, inflight' \subseteq inflight,
         \A w \in Worker, j \in Decoding : run'[w][j] # "idle" => run[w][j] # "idle"
  PROVE  SerialInv'
<1>1. \A h \in inflight' : inflight' = {h} /\ CheckHolds(h)'
  BY DEF SerialInv, CheckHolds
<1>2. QED
  BY <1>1 DEF SerialInv, OutcomeBeforeDecoding

(* A step that leaves no handler in flight, keeps every outcome, and hands *)
(* out or completes only jobs that have theirs keeps SerialInv.            *)
LEMMA NoHandlerLeft ==
  ASSUME SerialInv, inflight' = {}, DataOf \in [Decoding -> Data],
         \A d \in Data : status[d] = "COMPLETED" => status'[d] = "COMPLETED",
         \A j \in Decoding : status'[j] \in {"RUNNING", "COMPLETED"} =>
           status[j] \in {"RUNNING", "COMPLETED"} \/ status[DataOf[j]] = "COMPLETED",
         \A w \in Worker, j \in Decoding : run'[w][j] # "idle" =>
           run[w][j] # "idle" \/ status[DataOf[j]] = "COMPLETED"
  PROVE  SerialInv'
<1>1. \A j \in Decoding : status[DataOf[j]] = "COMPLETED" => status'[DataOf[j]] = "COMPLETED"
  OBVIOUS
<1>2. OutcomeBeforeDecoding'
  BY <1>1 DEF SerialInv, OutcomeBeforeDecoding
<1>3. \A w \in Worker, j \in Decoding :
        run'[w][j] # "idle" => status'[DataOf[j]] = "COMPLETED"
  BY <1>1 DEF SerialInv
<1>4. QED
  BY <1>2, <1>3 DEF SerialInv

(* The write of a handler whose check still holds leaves every COMPLETED   *)
(* row as it is.                                                           *)
LEMMA FinishKeepsCompleted ==
  ASSUME TypeOK, SerialInv, NEW h \in inflight, Finish(h), NEW t \in Task,
         status[t] = "COMPLETED"
  PROVE  status'[t] = "COMPLETED"
<1>1. CheckHolds(h)
  BY DEF SerialInv
<1>2. CASE FinishCancel(h)
  BY <1>2 DEF FinishCancel, Cancellable
<1>3. CASE FinishRetry(h)
  BY <1>3 DEF FinishRetry, RetriedJobs, RetriedData
<1>4. CASE FinishDelete(h)
  BY <1>4 DEF FinishDelete
<1>5. CASE FinishUpload(h)
  BY <1>5 DEF FinishUpload, TypeOK
<1>6. CASE FinishComplete(h)
  BY <1>6 DEF FinishComplete, TypeOK
<1>7. CASE FinishFail(h)
  <2>1. t \notin FailedWith(h.on)
    BY <1>1, <1>7 DEF FinishFail, CheckHolds, FailedWith, Settled
  <2>2. QED
    BY <2>1, <1>7 DEF FinishFail
<1>8. QED
  BY <1>2, <1>3, <1>4, <1>5, <1>6, <1>7 DEF Finish

(* The write of a handler makes a job RUNNING or COMPLETED only when its   *)
(* outcome is there.                                                       *)
LEMMA FinishNeedsOutcome ==
  ASSUME TypeOK, SerialInv, NEW h \in inflight, Finish(h), NEW j \in Decoding,
         status'[j] \in {"RUNNING", "COMPLETED"}
  PROVE  status[j] \in {"RUNNING", "COMPLETED"} \/ status[DataOf[j]] = "COMPLETED"
<1>1. CheckHolds(h) /\ j \in Task
  BY DEF SerialInv, Task
<1>2. CASE FinishCancel(h)
  BY <1>1, <1>2 DEF FinishCancel
<1>3. CASE FinishRetry(h)
  BY <1>1, <1>3 DEF FinishRetry
<1>4. CASE FinishDelete(h)
  BY <1>4 DEF FinishDelete
<1>5. CASE FinishUpload(h)
  BY <1>1, <1>5, TaskAssumption DEF FinishUpload, CheckHolds, TypeOK
<1>6. CASE FinishComplete(h)
  BY <1>1, <1>6 DEF FinishComplete, CheckHolds, TypeOK
<1>7. CASE FinishFail(h)
  BY <1>1, <1>7 DEF FinishFail
<1>8. QED
  BY <1>2, <1>3, <1>4, <1>5, <1>6, <1>7 DEF Finish

(* With whole handlers one after the other, a check still holds when its   *)
(* handler writes, and no decoding job runs before its outcome is there.   *)
THEOREM SerialCorrect == ASSUME ~Overlap PROVE Spec => []SerialInv
<1>1. Init => SerialInv
  BY JobAssumption DEF Init, SerialInv, OutcomeBeforeDecoding, Task
<1>2. TypeOK /\ SerialInv /\ [Next]_vars => SerialInv'
  <2> SUFFICES ASSUME TypeOK, SerialInv, [Next]_vars PROVE SerialInv'
    OBVIOUS
  <2>a. DataOf \in [Decoding -> Data]
    BY JobAssumption
  <2>1. ASSUME NEW s \in Submission, Submit(s) PROVE SerialInv'
    <3>1. inflight' = {}
      BY <2>1 DEF Submit, Quiet
    <3>2. \A t \in Task : status'[t] = status[t] \/ status'[t] = "PENDING"
      BY <2>1 DEF Submit
    <3>3. \A d \in Data : status[d] = "COMPLETED" => status'[d] = "COMPLETED"
      BY <2>1, TaskAssumption DEF Submit, Task
    <3>4. QED
      BY <3>1, <3>2, <3>3, <2>1, <2>a, NoHandlerLeft DEF Submit, Task
  <2>2. ASSUME NEW u \in User, NEW i \in ExpId, BeginCancel(u, i) PROVE SerialInv'
    <3>1. CheckHolds([op |-> "cancel", on |-> i, by |-> u])
      BY <2>2 DEF BeginCancel, CheckHolds
    <3>2. QED
      BY <2>2, <3>1, BeginKeeps DEF BeginCancel, Op
  <2>3. ASSUME NEW u \in User, NEW i \in ExpId, BeginRetry(u, i) PROVE SerialInv'
    <3> DEFINE op == IF exp[i] = "PENDING" THEN "retryPending" ELSE "retry"
    <3>1. CheckHolds([op |-> op, on |-> i, by |-> u])
      BY <2>3 DEF BeginRetry, CheckHolds, TypeOK, TaskStatus
    <3>2. Begin(op, i, u) /\ op \in Op
      BY <2>3 DEF BeginRetry, Op
    <3>3. QED
      BY <2>3, <3>1, <3>2, BeginKeeps DEF BeginRetry
  <2>4. ASSUME NEW u \in User, NEW i \in ExpId, BeginDelete(u, i) PROVE SerialInv'
    <3>1. CheckHolds([op |-> "delete", on |-> i, by |-> u])
      BY <2>4 DEF CheckHolds
    <3>2. QED
      BY <2>4, <3>1, BeginKeeps DEF BeginDelete, Op
  <2>5. ASSUME NEW w \in Worker, PollTasks(w) PROVE SerialInv'
    <3>1. PICK D \in SUBSET PendingData, J \in SUBSET Runnable(w) :
            /\ status' = [t \in Task |-> IF t \in D \cup J THEN "RUNNING" ELSE status[t]]
            /\ run' = [run EXCEPT ![w] =
                 [t \in Task |-> IF t \notin D \cup J THEN run[w][t]
                                 ELSE IF w \in broken THEN "kept" ELSE "working"]]
      BY <2>5 DEF PollTasks, Limited
    <3>2. inflight' = {}
      BY <2>5 DEF PollTasks, Quiet
    <3>3. \A t \in D \cup J : status[t] = "PENDING"
      BY <3>1 DEF PendingData, Runnable
    <3>4. \A j \in Decoding : j \in D \cup J => status[DataOf[j]] = "COMPLETED"
      BY <3>1, TaskAssumption DEF PendingData, Runnable
    <3>5. \A d \in Data : status[d] = "COMPLETED" => status'[d] = "COMPLETED"
      BY <3>1, <3>3 DEF Task
    <3>6. \A j \in Decoding : status'[j] \in {"RUNNING", "COMPLETED"} =>
            status[j] \in {"RUNNING", "COMPLETED"} \/ status[DataOf[j]] = "COMPLETED"
      BY <3>1, <3>4 DEF Task
    <3>7. \A v \in Worker, j \in Decoding : run'[v][j] # "idle" =>
            run[v][j] # "idle" \/ status[DataOf[j]] = "COMPLETED"
      BY <3>1, <3>4 DEF Task, TypeOK
    <3>8. QED
      BY <3>2, <3>5, <3>6, <3>7, <2>a, NoHandlerLeft
  <2>6. ASSUME NEW w \in Worker, Aside(w) PROVE SerialInv'
    BY <2>6, AsideStartsNothing, RowsKept DEF Task
  <2>7. ASSUME NEW w \in Worker, NEW d \in Data, BeginUpload(w, d) PROVE SerialInv'
    <3>1. \A v \in Worker, j \in Decoding : run'[v][j] # "idle" => run[v][j] # "idle"
      BY <2>7 DEF BeginUpload, TypeOK, Task
    <3>2. CASE status[d] = "COMPLETED"
      BY <3>1, <3>2, <2>7, RowsKept DEF BeginUpload
    <3>3. CASE status[d] # "COMPLETED"
      <4>1. CheckHolds([op |-> "upload", on |-> d, by |-> w])
        BY <3>3 DEF CheckHolds
      <4>2. QED
        BY <3>1, <3>3, <4>1, <2>7, BeginKeeps DEF BeginUpload, Op
    <3>4. QED
      BY <3>2, <3>3
  <2>8. ASSUME NEW w \in Worker, NEW j \in Decoding, BeginComplete(w, j) PROVE SerialInv'
    <3>1. \A v \in Worker, k \in Decoding : run'[v][k] # "idle" => run[v][k] # "idle"
      BY <2>8 DEF BeginComplete, TypeOK, Task
    <3>2. CASE status[j] \in Settled
      BY <3>1, <3>2, <2>8, RowsKept DEF BeginComplete
    <3>3. CASE status[j] \notin Settled
      <4>1. status[DataOf[j]] = "COMPLETED"
        BY <2>8 DEF BeginComplete, SerialInv
      <4>2. CheckHolds([op |-> "complete", on |-> j, by |-> w])
        BY <3>3, <4>1 DEF CheckHolds
      <4>3. QED
        BY <3>1, <3>3, <4>2, <2>8, BeginKeeps DEF BeginComplete, Op
    <3>4. QED
      BY <3>2, <3>3
  <2>9. ASSUME NEW w \in Worker, NEW t \in Task, BeginFail(w, t) PROVE SerialInv'
    <3>1. \A v \in Worker, k \in Decoding : run'[v][k] # "idle" => run[v][k] # "idle"
      BY <2>9 DEF BeginFail, TypeOK, Task
    <3>2. CASE status[t] \in Settled
      BY <3>1, <3>2, <2>9, RowsKept DEF BeginFail
    <3>3. CASE status[t] \notin Settled
      <4>1. CheckHolds([op |-> "fail", on |-> t, by |-> w])
        BY <3>3 DEF CheckHolds
      <4>2. QED
        BY <3>1, <3>3, <4>1, <2>9, BeginKeeps DEF BeginFail, Op
    <3>4. QED
      BY <3>2, <3>3
  <2>10. ASSUME NEW w \in Worker, NEW t \in Task, EndTask(w, t) PROVE SerialInv'
    <3>1. \A v \in Worker, k \in Decoding : run'[v][k] # "idle" => run[v][k] # "idle"
      BY <2>10 DEF EndTask, TypeOK, Task
    <3>2. QED
      BY <3>1, <2>10, RowsKept DEF EndTask
  <2>11. ASSUME NEW h \in inflight, Finish(h) PROVE SerialInv'
    <3>1. inflight = {h} /\ CheckHolds(h)
      BY DEF SerialInv
    <3>2. inflight' = {} /\ run' = run
      BY <3>1, <2>11 DEF Finish, FinishCancel, FinishRetry, FinishDelete, FinishUpload,
         FinishComplete, FinishFail
    <3>3. \A d \in Data : status[d] = "COMPLETED" => status'[d] = "COMPLETED"
      BY <2>11, FinishKeepsCompleted DEF Task
    <3>4. \A j \in Decoding : status'[j] \in {"RUNNING", "COMPLETED"} =>
            status[j] \in {"RUNNING", "COMPLETED"} \/ status[DataOf[j]] = "COMPLETED"
      BY <2>11, FinishNeedsOutcome
    <3>5. QED
      BY <3>2, <3>3, <3>4, <2>a, NoHandlerLeft
  <2>12. ASSUME NEW t \in Task, LeaseRunsOut(t) PROVE SerialInv'
    BY <2>12, RowsKept DEF LeaseRunsOut
  <2>13. CASE ReclaimExpired
    <3>1. inflight' = {} /\ run' = run
      BY <2>13 DEF ReclaimExpired, Quiet
    <3>2. \A t \in Task : status[t] = "COMPLETED" => status'[t] = "COMPLETED"
      BY <2>13 DEF ReclaimExpired, Expired
    <3>3. \A t \in Task : status'[t] = status[t] \/ status'[t] = "PENDING"
      BY <2>13 DEF ReclaimExpired
    <3>4. QED
      BY <3>1, <3>2, <3>3, <2>a, NoHandlerLeft DEF Task
  <2>14. CASE Restart
    BY <2>14, RowsKept DEF Restart
  <2>15. CASE UNCHANGED vars
    BY <2>15, RowsKept DEF vars
  <2>16. QED
    BY <2>1, <2>2, <2>3, <2>4, <2>5, <2>6, <2>7, <2>8, <2>9, <2>10, <2>11, <2>12,
       <2>13, <2>14, <2>15 DEF Next, Report, Aside
<1>3. QED
  BY <1>1, <1>2, TypeCorrect, PTL DEF Spec

(* The part a reader cares about: no job is handed out or done before its  *)
(* outcome is there.                                                       *)
THEOREM OutcomeFirst == ASSUME ~Overlap PROVE Spec => []OutcomeBeforeDecoding
<1>1. SerialInv => OutcomeBeforeDecoding
  BY DEF SerialInv
<1>2. QED
  BY <1>1, SerialCorrect, PTL

-----------------------------------------------------------------------------
(* A COMPLETED experiment is not rolled up to anything else.               *)
LEMMA RolledUpDone ==
  ASSUME NEW i \in ExpId, NEW st, exp[i] = "COMPLETED",
         JobsOf(i) # {}, \A j \in JobsOf(i) : st[j] = "COMPLETED"
  PROVE  RolledUp(st, i) = "COMPLETED"
<1>1. {st[j] : j \in JobsOf(i)} = {"COMPLETED"}
  OBVIOUS
<1>2. QED
  BY <1>1 DEF RolledUp

(* Whole handlers, one after the other, never take back a result: not the  *)
(* COMPLETED of a task, whose outcome or metrics are stored, nor that of   *)
(* an experiment, except by deleting it.                                   *)
THEOREM CompletedFinal == ASSUME ~Overlap PROVE Spec => CompletedIsFinal
<1> DEFINE ExpKept == \A i \in ExpId : exp[i] = "COMPLETED" => exp'[i] \in {"COMPLETED", "ABSENT"}
           RowKept == \A t \in Task : status[t] = "COMPLETED" => status'[t] = "COMPLETED"
<1>1. TypeOK /\ SerialInv /\ RowsExist /\ CompletedMeansDone /\ [Next]_vars
        => [ExpKept /\ RowKept]_vars
  <2> SUFFICES ASSUME TypeOK, SerialInv, RowsExist, CompletedMeansDone, Next
               PROVE  ExpKept /\ RowKept
    OBVIOUS
  <2>a. UNCHANGED exp => ExpKept
    OBVIOUS
  <2>b. UNCHANGED status => RowKept
    OBVIOUS
  <2>1. ASSUME NEW s \in Submission, Submit(s) PROVE ExpKept /\ RowKept
    <3>1. \A j \in Decoding : SubmissionOf[j] = s => status[j] = "ABSENT"
      BY <2>1 DEF Submit, RowsExist
    <3>2. RowKept
      BY <2>1, <3>1 DEF Submit
    <3>3. \A i \in ExpId : IsNextId(i) => exp[i] = "ABSENT"
      BY DEF IsNextId, ExpId
    <3>4. ExpKept
      BY <2>1, <3>3 DEF Submit, TypeOK
    <3>5. QED
      BY <3>2, <3>4
  <2>2. ASSUME NEW u \in User, NEW i \in ExpId,
               BeginCancel(u, i) \/ BeginRetry(u, i) \/ BeginDelete(u, i)
        PROVE  ExpKept /\ RowKept
    BY <2>2, <2>a, <2>b DEF BeginCancel, BeginRetry, BeginDelete
  <2>3. ASSUME NEW w \in Worker, PollTasks(w) PROVE ExpKept /\ RowKept
    <3>1. PICK D \in SUBSET PendingData, J \in SUBSET Runnable(w) :
            /\ status' = [t \in Task |-> IF t \in D \cup J THEN "RUNNING" ELSE status[t]]
            /\ exp' = [i \in ExpId |->
                 IF /\ i \in (UNION {ExperimentsOn(d) : d \in D}) \cup {experimentId[j] : j \in J}
                    /\ exp[i] = "PENDING"
                 THEN "RUNNING" ELSE exp[i]]
      BY <2>3 DEF PollTasks, Limited
    <3>2. \A t \in D \cup J : status[t] = "PENDING"
      BY <3>1 DEF PendingData, Runnable
    <3>3. QED
      BY <3>1, <3>2
  <2>4. ASSUME NEW w \in Worker, Aside(w) PROVE ExpKept /\ RowKept
    BY <2>4, <2>a, <2>b, AsideStartsNothing
  <2>5. ASSUME NEW w \in Worker, NEW t \in Task,
               Report(w, t) \/ BeginFail(w, t) \/ EndTask(w, t)
        PROVE  ExpKept /\ RowKept
    BY <2>5, <2>a, <2>b DEF Report, BeginUpload, BeginComplete, BeginFail, EndTask
  <2>6. ASSUME NEW h \in inflight, Finish(h) PROVE ExpKept /\ RowKept
    <3>1. RowKept
      BY <2>6, FinishKeepsCompleted
    <3>2. CheckHolds(h)
      BY DEF SerialInv
    <3>3. ASSUME NEW i \in ExpId, exp[i] = "COMPLETED"
          PROVE  exp'[i] \in {"COMPLETED", "ABSENT"}
      <4>1. JobsOf(i) # {} /\ \A j \in JobsOf(i) : status[j] = "COMPLETED" /\ status'[j] = "COMPLETED"
        BY <3>1, <3>3 DEF CompletedMeansDone, JobsOf, Task
      <4>2. RolledUp(status', i) = "COMPLETED"
        BY <3>3, <4>1, RolledUpDone
      <4>3. CASE FinishCancel(h) \/ FinishDelete(h)
        BY <3>2, <3>3, <4>3 DEF FinishCancel, FinishDelete, CheckHolds, TypeOK
      <4>4. CASE FinishRetry(h)
        BY <3>2, <3>3, <4>4 DEF FinishRetry, RetriedExp, CheckHolds, TypeOK
      <4>5. CASE FinishUpload(h)
        BY <3>3, <4>5 DEF FinishUpload
      <4>6. CASE FinishComplete(h)
        BY <3>3, <4>2, <4>6 DEF FinishComplete
      <4>7. CASE FinishFail(h)
        BY <3>3, <4>2, <4>7 DEF FinishFail
      <4>8. QED
        BY <2>6, <4>3, <4>4, <4>5, <4>6, <4>7 DEF Finish
    <3>4. QED
      BY <3>1, <3>3
  <2>7. ASSUME NEW t \in Task, LeaseRunsOut(t) PROVE ExpKept /\ RowKept
    BY <2>7, <2>a, <2>b DEF LeaseRunsOut
  <2>8. CASE ReclaimExpired
    BY <2>8, <2>a DEF ReclaimExpired, Expired
  <2>9. CASE Restart
    BY <2>9, <2>a, <2>b DEF Restart
  <2>10. QED
    BY <2>1, <2>2, <2>3, <2>4, <2>5, <2>6, <2>7, <2>8, <2>9 DEF Next, Aside
<1>2. QED
  BY <1>1, SerialCorrect, RowsExistAlways, CompletedCorrect, TypeCorrect, PTL
     DEF Spec, CompletedIsFinal

-----------------------------------------------------------------------------
(* The statuses of experiments that are neither COMPLETED nor PENDING say  *)
(* something true about their jobs.                                        *)
Honest(k) ==
  /\ exp[k] = "CANCELLED" => \A j \in JobsOf(k) : status[j] \notin {"PENDING", "RUNNING"}
  /\ exp[k] = "FAILED" => \E j \in JobsOf(k) : status[j] = "FAILED"
  /\ exp[k] = "RUNNING" => \E j \in JobsOf(k) : status[j] # "COMPLETED"

(* A rollup of an honest experiment is honest.                             *)
LEMMA RolledUpHonest ==
  ASSUME NEW k \in ExpId, Honest(k), UNCHANGED experimentId,
         exp'[k] = RolledUp(status', k),
         \A j \in JobsOf(k) : status'[j] # status[j] => status'[j] \in Settled
  PROVE  Honest(k)'
<1> DEFINE S == {status'[j] : j \in JobsOf(k)}
<1>1. JobsOf(k)' = JobsOf(k)
  BY DEF JobsOf
<1>2. CASE exp[k] \in {"ABSENT", "CANCELLED"}
  <2>1. exp'[k] = exp[k]
    BY <1>2 DEF RolledUp
  <2>2. QED
    BY <1>1, <1>2, <2>1 DEF Honest, Settled
<1>3. CASE S = {}
  <2>1. exp'[k] = exp[k] /\ JobsOf(k) = {}
    BY <1>3 DEF RolledUp
  <2>2. QED
    BY <1>1, <2>1 DEF Honest
<1>4. CASE exp[k] \notin {"ABSENT", "CANCELLED"} /\ S # {}
  <2>1. CASE S = {"COMPLETED"}
    BY <1>4, <2>1 DEF RolledUp, Honest
  <2>2. CASE S # {"COMPLETED"} /\ "FAILED" \in S
    <3>1. exp'[k] = "FAILED"
      BY <1>4, <2>2 DEF RolledUp
    <3>2. PICK j \in JobsOf(k) : status'[j] = "FAILED"
      BY <2>2
    <3>3. QED
      BY <1>1, <3>1, <3>2 DEF Honest
  <2>3. CASE S # {"COMPLETED"} /\ "FAILED" \notin S /\ S \cap {"RUNNING", "PENDING"} # {}
    <3>1. exp'[k] = "RUNNING"
      BY <1>4, <2>3 DEF RolledUp
    <3>2. PICK j \in JobsOf(k) : status'[j] \in {"RUNNING", "PENDING"}
      BY <2>3
    <3>3. QED
      BY <1>1, <3>1, <3>2 DEF Honest
  <2>4. CASE S # {"COMPLETED"} /\ "FAILED" \notin S /\ S \cap {"RUNNING", "PENDING"} = {}
    <3>1. exp'[k] = "PENDING"
      BY <1>4, <2>4 DEF RolledUp
    <3>2. QED
      BY <3>1 DEF Honest
  <2>5. QED
    BY <2>1, <2>2, <2>3, <2>4
<1>5. QED
  BY <1>2, <1>3, <1>4

(* An experiment whose row and jobs are not touched stays honest.          *)
LEMMA UntouchedHonest ==
  ASSUME NEW k \in ExpId, Honest(k), exp'[k] = exp[k], JobsOf(k)' = JobsOf(k),
         \A j \in JobsOf(k) : status'[j] = status[j]
  PROVE  Honest(k)'
BY DEF Honest

(* With whole handlers one after the other, CANCELLED leaves nothing in    *)
(* the queue, FAILED names a failed job, and RUNNING has work left.        *)
THEOREM StatusesHonest ==
  ASSUME ~Overlap PROVE Spec => [](CancelledIsQuiet /\ FailedHasFailure /\ RunningHasWork)
<1> DEFINE H == \A k \in ExpId : Honest(k)
<1>1. Init => H
  BY DEF Init, Honest
<1>2. TypeOK /\ SerialInv /\ RowsExist /\ H /\ [Next]_vars => H'
  <2> SUFFICES ASSUME TypeOK, SerialInv, RowsExist, H, [Next]_vars, NEW k \in ExpId
               PROVE  Honest(k)'
    OBVIOUS
  <2>a. Honest(k)
    OBVIOUS
  <2>b. 0 \notin ExpId
    BY DEF ExpId
  <2>c. UNCHANGED experimentId => JobsOf(k)' = JobsOf(k)
    BY DEF JobsOf
  <2>d. UNCHANGED <<exp, status, experimentId>> => Honest(k)'
    BY <2>a, <2>c, UntouchedHonest
  <2>e. \A j \in JobsOf(k) : j \in Task /\ j \notin Data
    BY TaskAssumption DEF JobsOf, Task
  <2>1. ASSUME NEW s \in Submission, Submit(s) PROVE Honest(k)'
    <3>1. PICK i \in ExpId :
            /\ exp' = [exp EXCEPT ![i] = "PENDING"]
            /\ experimentId' = [j \in Decoding |->
                 IF j \in {x \in Decoding : SubmissionOf[x] = s} THEN i ELSE experimentId[j]]
      BY <2>1 DEF Submit
    <3>2. CASE k = i
      BY <3>1, <3>2 DEF Honest, TypeOK
    <3>3. CASE k # i
      <4>1. \A j \in Decoding : SubmissionOf[j] = s => experimentId[j] = 0
        BY <2>1 DEF Submit
      <4>2. JobsOf(k)' = JobsOf(k)
        BY <3>1, <3>3, <4>1, <2>b DEF JobsOf
      <4>3. \A j \in JobsOf(k) : j \in Decoding /\ SubmissionOf[j] # s
        BY <4>1, <2>b DEF JobsOf
      <4>4. \A j \in JobsOf(k) : status'[j] = status[j]
        BY <2>1, <4>3, <2>e DEF Submit
      <4>5. QED
        BY <3>1, <3>3, <4>2, <4>4, <2>a, UntouchedHonest DEF TypeOK
    <3>4. QED
      BY <3>2, <3>3
  <2>2. ASSUME NEW u \in User, NEW i \in ExpId,
               BeginCancel(u, i) \/ BeginRetry(u, i) \/ BeginDelete(u, i)
        PROVE  Honest(k)'
    BY <2>2, <2>d DEF BeginCancel, BeginRetry, BeginDelete
  <2>3. ASSUME NEW w \in Worker, PollTasks(w) PROVE Honest(k)'
    <3>1. PICK D \in SUBSET PendingData, J \in SUBSET Runnable(w) :
            /\ status' = [t \in Task |-> IF t \in D \cup J THEN "RUNNING" ELSE status[t]]
            /\ exp' = [i \in ExpId |->
                 IF /\ i \in (UNION {ExperimentsOn(d) : d \in D}) \cup {experimentId[j] : j \in J}
                    /\ exp[i] = "PENDING"
                 THEN "RUNNING" ELSE exp[i]]
      BY <2>3 DEF PollTasks, Limited
    <3>2. \A t \in D \cup J : status[t] = "PENDING"
      BY <3>1 DEF PendingData, Runnable
    <3>3. JobsOf(k)' = JobsOf(k)
      BY <2>3, <2>c DEF PollTasks
    <3>4. \A j \in JobsOf(k) : status[j] # "PENDING" => status'[j] = status[j]
      BY <3>1, <3>2, <2>e
    <3>5. \A j \in JobsOf(k) : status[j] # "COMPLETED" => status'[j] # "COMPLETED"
      BY <3>1, <2>e
    <3>6. CASE exp'[k] = exp[k]
      BY <3>3, <3>4, <3>5, <3>6, <2>a DEF Honest
    <3>7. CASE exp'[k] # exp[k]
      <4>1. exp'[k] = "RUNNING"
            /\ k \in (UNION {ExperimentsOn(d) : d \in D}) \cup {experimentId[j] : j \in J}
        BY <3>1, <3>7
      <4>2. CASE \E j \in J : k = experimentId[j]
        <5>1. PICK j \in J : k = experimentId[j]
          BY <4>2
        <5>2. j \in JobsOf(k) /\ status'[j] = "RUNNING"
          BY <3>1, <5>1 DEF JobsOf, Runnable, Task
        <5>3. QED
          BY <3>3, <4>1, <5>2 DEF Honest
      <4>3. CASE \E d \in D : k \in ExperimentsOn(d)
        <5>1. PICK d \in D, j \in Decoding : DataOf[j] = d /\ experimentId[j] = k
          BY <4>3 DEF ExperimentsOn, DecodingsOf
        <5>2. status[d] = "PENDING"
          BY <3>2
        <5>3. j \in JobsOf(k) /\ status[j] # "COMPLETED"
          BY <5>1, <5>2 DEF SerialInv, OutcomeBeforeDecoding, JobsOf
        <5>4. QED
          BY <3>3, <3>5, <4>1, <5>3 DEF Honest
      <4>4. CASE k \in {experimentId[j] : j \in J}
        <5>1. \E j \in J : k = experimentId[j]
          BY <4>4
        <5>2. QED
          BY <4>2, <5>1
      <4>5. CASE k \in UNION {ExperimentsOn(d) : d \in D}
        <5>1. \E d \in D : k \in ExperimentsOn(d)
          BY <4>5
        <5>2. QED
          BY <4>3, <5>1
      <4>6. QED
        BY <4>1, <4>4, <4>5
    <3>8. QED
      BY <3>6, <3>7
  <2>4. ASSUME NEW w \in Worker, Aside(w) PROVE Honest(k)'
    BY <2>4, <2>d, AsideStartsNothing
  <2>5. ASSUME NEW w \in Worker, NEW t \in Task,
               Report(w, t) \/ BeginFail(w, t) \/ EndTask(w, t)
        PROVE  Honest(k)'
    BY <2>5, <2>d DEF Report, BeginUpload, BeginComplete, BeginFail, EndTask
  <2>6. ASSUME NEW h \in inflight, FinishCancel(h) PROVE Honest(k)'
    <3>1. CheckHolds(h) /\ UNCHANGED experimentId /\ h.op = "cancel"
      BY <2>6 DEF SerialInv, FinishCancel
    <3>2. h.on \in ExpId /\ exp[h.on] # "ABSENT"
      BY <3>1 DEF CheckHolds
    <3>3. /\ exp' = [exp EXCEPT ![h.on] = "CANCELLED"]
          /\ status' = [t \in Task |->
               IF t \in JobsOf(h.on) /\ status[t] \in Cancellable
               THEN "CANCELLED" ELSE status[t]]
      BY <2>6, <3>2 DEF FinishCancel
    <3>4. CASE k = h.on
      BY <3>1, <3>3, <3>4, <2>c, <2>e DEF Honest, Cancellable, TypeOK
    <3>5. CASE k # h.on
      <4>1. \A j \in JobsOf(k) : j \notin JobsOf(h.on)
        BY <3>5 DEF JobsOf
      <4>2. \A j \in JobsOf(k) : status'[j] = status[j]
        BY <3>3, <4>1, <2>e
      <4>3. QED
        BY <3>1, <3>3, <3>5, <4>2, <2>a, <2>c, UntouchedHonest DEF TypeOK
    <3>6. QED
      BY <3>4, <3>5
  <2>7. ASSUME NEW h \in inflight, FinishRetry(h) PROVE Honest(k)'
    <3>1. CheckHolds(h) /\ UNCHANGED experimentId /\ h.op \in {"retry", "retryPending"}
      BY <2>7 DEF SerialInv, FinishRetry
    <3>2. h.on \in ExpId /\ exp[h.on] # "ABSENT"
          /\ (h.op = "retryPending" => exp[h.on] = "PENDING")
      BY <3>1 DEF CheckHolds
    <3>3. /\ exp' = RetriedExp(h)
          /\ status' = [t \in Task |->
               IF t \in RetriedJobs(h.on) \cup RetriedData(h.on)
               THEN "PENDING" ELSE status[t]]
      BY <2>7, <3>2 DEF FinishRetry
    <3>4. CASE k = h.on
      <4>1. exp'[k] = "PENDING"
        BY <3>1, <3>2, <3>3, <3>4 DEF RetriedExp, TypeOK
      <4>2. QED
        BY <4>1 DEF Honest
    <3>5. CASE k # h.on
      <4>1. \A j \in JobsOf(k) : j \notin RetriedJobs(h.on) \cup RetriedData(h.on)
        BY <3>5, <2>e DEF JobsOf, RetriedJobs, RetriedData
      <4>2. \A j \in JobsOf(k) : status'[j] = status[j]
        BY <3>3, <4>1, <2>e
      <4>3. exp'[k] = exp[k]
        BY <3>3, <3>5 DEF RetriedExp, TypeOK
      <4>4. QED
        BY <3>1, <4>2, <4>3, <2>a, <2>c, UntouchedHonest
    <3>6. QED
      BY <3>4, <3>5
  <2>8. ASSUME NEW h \in inflight, FinishDelete(h) PROVE Honest(k)'
    <3>1. UNCHANGED <<status, experimentId>> /\ exp' = [exp EXCEPT ![h.on] = "ABSENT"]
      BY <2>8 DEF FinishDelete
    <3>2. CASE k = h.on
      BY <3>1, <3>2 DEF Honest, TypeOK
    <3>3. CASE k # h.on
      BY <3>1, <3>3, <2>a, <2>c, UntouchedHonest DEF TypeOK
    <3>4. QED
      BY <3>2, <3>3
  <2>9. ASSUME NEW h \in inflight, FinishUpload(h) PROVE Honest(k)'
    <3>1. CheckHolds(h) /\ UNCHANGED <<exp, experimentId>>
      BY <2>9 DEF SerialInv, FinishUpload
    <3>2. \A j \in JobsOf(k) : status'[j] = status[j]
      BY <2>9, <3>1, <2>e DEF FinishUpload, CheckHolds, TypeOK
    <3>3. QED
      BY <3>1, <3>2, <2>a, <2>c, UntouchedHonest
  <2>10. ASSUME NEW h \in inflight, FinishComplete(h) PROVE Honest(k)'
    <3>1. UNCHANGED experimentId /\ status' = [status EXCEPT ![h.on] = "COMPLETED"]
      BY <2>10 DEF FinishComplete
    <3>2. CASE k = experimentId[h.on]
      <4>1. exp'[k] = RolledUp(status', k)
        BY <2>10, <3>2 DEF FinishComplete
      <4>2. \A j \in JobsOf(k) : status'[j] # status[j] => status'[j] \in Settled
        BY <3>1, <2>e DEF TypeOK, Settled
      <4>3. QED
        BY <3>1, <4>1, <4>2, <2>a, RolledUpHonest
    <3>3. CASE k # experimentId[h.on]
      <4>1. exp'[k] = exp[k]
        BY <2>10, <3>3 DEF FinishComplete
      <4>2. \A j \in JobsOf(k) : status'[j] = status[j]
        BY <3>1, <3>3, <2>e DEF TypeOK, JobsOf
      <4>3. QED
        BY <3>1, <4>1, <4>2, <2>a, <2>c, UntouchedHonest
    <3>4. QED
      BY <3>2, <3>3
  <2>11. ASSUME NEW h \in inflight, FinishFail(h) PROVE Honest(k)'
    <3> DEFINE affected == IF h.on \in Data THEN ExperimentsOn(h.on) ELSE {experimentId[h.on]}
    <3>1. /\ UNCHANGED experimentId
          /\ status' = [t \in Task |-> IF t \in FailedWith(h.on) THEN "FAILED" ELSE status[t]]
          /\ exp' = [i \in ExpId |-> IF i \in affected THEN RolledUp(status', i) ELSE exp[i]]
      BY <2>11 DEF FinishFail
    <3>2. CASE k \in affected
      <4>1. exp'[k] = RolledUp(status', k)
        BY <3>1, <3>2
      <4>2. \A j \in JobsOf(k) : status'[j] # status[j] => status'[j] \in Settled
        BY <3>1, <2>e DEF Settled
      <4>3. QED
        BY <3>1, <4>1, <4>2, <2>a, RolledUpHonest
    <3>3. CASE k \notin affected
      <4>1. exp'[k] = exp[k]
        BY <3>1, <3>3
      <4>2. \A j \in JobsOf(k) : j \notin FailedWith(h.on)
        BY <3>3, <2>b, <2>e DEF FailedWith, JobsOf, DecodingsOf, ExperimentsOn
      <4>3. \A j \in JobsOf(k) : status'[j] = status[j]
        BY <3>1, <4>2, <2>e
      <4>4. QED
        BY <3>1, <4>1, <4>3, <2>a, <2>c, UntouchedHonest
    <3>4. QED
      BY <3>2, <3>3
  <2>12. ASSUME NEW t \in Task, LeaseRunsOut(t) PROVE Honest(k)'
    BY <2>12, <2>d DEF LeaseRunsOut
  <2>13. CASE ReclaimExpired
    <3>1. UNCHANGED <<exp, experimentId>>
      BY <2>13 DEF ReclaimExpired
    <3>2. \A j \in JobsOf(k) : status[j] # "RUNNING" => status'[j] = status[j]
      BY <2>13, <2>e DEF ReclaimExpired, Expired
    <3>3. \A j \in JobsOf(k) : status[j] = "RUNNING" => status'[j] # "COMPLETED"
      BY <2>13, <2>e DEF ReclaimExpired
    <3>4. QED
      BY <3>1, <3>2, <3>3, <2>a, <2>c DEF Honest
  <2>14. CASE Restart \/ UNCHANGED vars
    BY <2>14, <2>d DEF Restart, vars
  <2>15. QED
    BY <2>1, <2>2, <2>3, <2>4, <2>5, <2>6, <2>7, <2>8, <2>9, <2>10, <2>11, <2>12,
       <2>13, <2>14 DEF Next, Finish, Aside
<1>3. H => CancelledIsQuiet /\ FailedHasFailure /\ RunningHasWork
  BY DEF Honest, CancelledIsQuiet, FailedHasFailure, RunningHasWork
<1>4. QED
  BY <1>1, <1>2, <1>3, SerialCorrect, RowsExistAlways, TypeCorrect, PTL DEF Spec

-----------------------------------------------------------------------------
(***************************************************************************)
(* That the queue implements ExperimentLife when handlers do not overlap,  *)
(* for any sets of experiments, tasks and workers.                         *)
(*                                                                         *)
(* The invariants of the section above, in the state before and the        *)
(* state after a step, say most of what a move of ExperimentLife asks for. *)
(* What is left is which status a step may change into which: Moved.       *)
(***************************************************************************)

(* What a step does to experiment k, but for what the invariants say.      *)
Moved(k) ==
  \/ exp'[k] \in {exp[k], "ABSENT"}
  \/ exp[k] = "ABSENT" /\ exp'[k] = "PENDING" /\ Unfinished'[k] # {}
  \/ exp[k] \in {"PENDING", "RUNNING"} /\ exp'[k] \in {"RUNNING", "COMPLETED", "FAILED"}
  \/ /\ exp[k] \in {"PENDING", "RUNNING"} /\ exp'[k] = "CANCELLED"
     /\ Unfinished'[k] = Unfinished[k]
  \/ exp[k] \in {"RUNNING", "FAILED", "CANCELLED"} /\ exp'[k] = "PENDING"

(* No result of experiment k is taken back while it is there.              *)
Kept(k) ==
  exp[k] # "ABSENT" /\ exp'[k] # "ABSENT" => Unfinished'[k] \subseteq Unfinished[k]

(* Experiments that are gone, or have every result, owe nothing; those     *)
(* that are RUNNING or FAILED owe something.                               *)
Owes ==
  \A k \in ExpId :
    /\ exp[k] \in {"ABSENT", "COMPLETED"} => Unfinished[k] = {}
    /\ exp[k] \in {"RUNNING", "FAILED"} => Unfinished[k] # {}

(* With that, what Moved and Kept say makes a move of ExperimentLife.      *)
LEMMA MovedIsMove ==
  ASSUME TypeOK, Owes, Owes', NEW k \in ExpId, Moved(k), Kept(k)
  PROVE  Life!Move(k)
<1> USE DEF Life!Move, Life!Goes, Life!Shrinks
<1>a. exp[k] \in TaskStatus \cup {"ABSENT"}
  BY DEF TypeOK
<1>b. /\ exp[k] \in {"ABSENT", "COMPLETED"} => Unfinished[k] = {}
      /\ exp'[k] \in {"ABSENT", "COMPLETED"} => Unfinished'[k] = {}
      /\ exp'[k] \in {"RUNNING", "FAILED"} => Unfinished'[k] # {}
  BY DEF Owes
<1>1. CASE exp'[k] = "ABSENT"
  BY <1>1, <1>b DEF Life!Delete
<1>2. CASE exp'[k] = exp[k] /\ exp[k] \in {"PENDING", "CANCELLED"}
  BY <1>2 DEF Life!LateResult, Kept
<1>3. CASE exp'[k] = exp[k] /\ exp[k] = "RUNNING"
  BY <1>3, <1>b DEF Life!Run, Kept
<1>4. CASE exp'[k] = exp[k] /\ exp[k] = "FAILED"
  BY <1>4, <1>b DEF Life!Fail, Kept
<1>5. CASE exp'[k] = exp[k] /\ exp[k] = "COMPLETED"
  BY <1>5, <1>b DEF Life!Stay
<1>6. CASE exp[k] = "ABSENT" /\ exp'[k] = "PENDING" /\ Unfinished'[k] # {}
  BY <1>6 DEF Life!Submit
<1>7. CASE exp[k] \in {"PENDING", "RUNNING"} /\ exp'[k] \in {"RUNNING", "COMPLETED", "FAILED"}
  BY <1>7, <1>b DEF Life!Run, Life!Complete, Life!Fail, Kept
<1>8. CASE exp[k] \in {"PENDING", "RUNNING"} /\ exp'[k] = "CANCELLED"
           /\ Unfinished'[k] = Unfinished[k]
  BY <1>8 DEF Life!Cancel
<1>9. CASE exp[k] \in {"RUNNING", "FAILED", "CANCELLED"} /\ exp'[k] = "PENDING"
  BY <1>9 DEF Life!Requeue, Kept
<1>10. QED
  BY <1>a, <1>1, <1>2, <1>3, <1>4, <1>5, <1>6, <1>7, <1>8, <1>9 DEF Moved, TaskStatus

(* A step that changes no foreign key and takes back no COMPLETED row      *)
(* keeps results.                                                          *)
LEMMA SameJobsKept ==
  ASSUME NEW k \in ExpId, UNCHANGED experimentId,
         \A t \in Task : status[t] = "COMPLETED" => status'[t] = "COMPLETED"
  PROVE  Kept(k)
<1>1. JobsOf(k)' = JobsOf(k) /\ JobsOf(k) \subseteq Task
  BY DEF JobsOf, Task
<1>2. QED
  BY <1>1 DEF Kept, Unfinished

(* A rollup that takes back no failure is a move.                          *)
LEMMA RolledUpMoved ==
  ASSUME FailedHasFailure, CompletedMeansDone, NEW k \in ExpId,
         exp[k] \in TaskStatus \cup {"ABSENT"}, exp'[k] = RolledUp(status', k),
         \A j \in JobsOf(k) : status[j] \in Settled => status'[j] = status[j]
  PROVE  Moved(k)
<1> DEFINE S == {status'[j] : j \in JobsOf(k)}
<1>1. CASE exp[k] \in {"ABSENT", "CANCELLED"} \/ S = {}
  BY <1>1 DEF RolledUp, Moved
<1>2. CASE exp[k] = "COMPLETED"
  <2>1. JobsOf(k) # {} /\ \A j \in JobsOf(k) : status'[j] = "COMPLETED"
    BY <1>2 DEF CompletedMeansDone, Settled
  <2>2. QED
    BY <1>2, <2>1, RolledUpDone DEF Moved
<1>3. CASE exp[k] = "FAILED"
  <2>1. PICK j \in JobsOf(k) : status[j] = "FAILED"
    BY <1>3 DEF FailedHasFailure
  <2>2. "FAILED" \in S
    BY <2>1 DEF Settled
  <2>3. exp'[k] = "FAILED"
    BY <1>3, <2>2 DEF RolledUp
  <2>4. QED
    BY <1>3, <2>3 DEF Moved
<1>4. CASE exp[k] \in {"PENDING", "RUNNING"} /\ S # {}
  <2>1. exp'[k] \in {"COMPLETED", "FAILED", "RUNNING", "PENDING"}
    BY <1>4 DEF RolledUp
  <2>2. QED
    BY <1>4, <2>1 DEF Moved
<1>5. QED
  BY <1>1, <1>2, <1>3, <1>4 DEF TaskStatus

(* The write of a handler whose check still holds moves every experiment   *)
(* as ExperimentLife allows.                                               *)
LEMMA FinishMoves ==
  ASSUME TypeOK, SerialInv, FailedHasFailure, CompletedMeansDone,
         NEW h \in inflight, Finish(h), NEW k \in ExpId
  PROVE  Moved(k)
<1>a. CheckHolds(h)
  BY DEF SerialInv
<1>b. exp[k] \in TaskStatus \cup {"ABSENT"}
  BY DEF TypeOK
<1>c. JobsOf(k) \subseteq Task
  BY DEF JobsOf, Task
<1>1. CASE FinishCancel(h)
  <2>1. h.on \in ExpId /\ exp[h.on] \in {"PENDING", "RUNNING"}
    BY <1>a, <1>1 DEF FinishCancel, CheckHolds
  <2>2. /\ exp' = [exp EXCEPT ![h.on] = "CANCELLED"]
        /\ status' = [t \in Task |->
             IF t \in JobsOf(h.on) /\ status[t] \in Cancellable
             THEN "CANCELLED" ELSE status[t]]
        /\ UNCHANGED experimentId
    BY <1>1, <2>1 DEF FinishCancel
  <2>3. \A t \in Task : status'[t] = "COMPLETED" <=> status[t] = "COMPLETED"
    BY <2>2 DEF Cancellable
  <2>4. CASE k = h.on
    <3>1. exp[k] \in {"PENDING", "RUNNING"} /\ exp'[k] = "CANCELLED"
      BY <2>1, <2>2, <2>4 DEF TypeOK
    <3>2. JobsOf(k)' = JobsOf(k)
      BY <2>2 DEF JobsOf
    <3>3. Unfinished'[k] = Unfinished[k]
      BY <3>1, <3>2, <2>3, <1>c DEF Unfinished
    <3>4. QED
      BY <3>1, <3>3 DEF Moved
  <2>5. CASE k # h.on
    BY <2>2, <2>5 DEF Moved, TypeOK
  <2>6. QED
    BY <2>4, <2>5
<1>2. CASE FinishRetry(h)
  <2>1. /\ h.op = "retry" => h.on \in ExpId /\ exp[h.on] \in {"RUNNING", "FAILED", "CANCELLED"}
        /\ h.op \in {"retry", "retryPending"}
    BY <1>a, <1>2 DEF FinishRetry, CheckHolds
  <2>2. exp' = RetriedExp(h)
    BY <1>2, <2>1 DEF FinishRetry
  <2>3. QED
    BY <2>1, <2>2 DEF RetriedExp, Moved, TypeOK
<1>3. CASE FinishDelete(h)
  BY <1>3 DEF FinishDelete, Moved, TypeOK
<1>4. CASE FinishUpload(h)
  BY <1>4 DEF FinishUpload, Moved
<1>5. CASE FinishComplete(h)
  <2>1. \A t \in Task : status[t] \in Settled => status'[t] = status[t]
    BY <1>a, <1>5 DEF FinishComplete, CheckHolds, TypeOK
  <2>2. exp'[k] \in {exp[k], RolledUp(status', k)}
    BY <1>5 DEF FinishComplete
  <2>3. QED
    BY <1>b, <1>c, <2>1, <2>2, RolledUpMoved DEF Moved
<1>6. CASE FinishFail(h)
  <2>1. \A t \in Task : status[t] \in Settled => t \notin FailedWith(h.on)
    BY <1>a, <1>6 DEF FinishFail, CheckHolds, FailedWith, Settled
  <2>2. \A t \in Task : status[t] \in Settled => status'[t] = status[t]
    BY <1>6, <2>1 DEF FinishFail
  <2>3. exp'[k] \in {exp[k], RolledUp(status', k)}
    BY <1>6 DEF FinishFail
  <2>4. QED
    BY <1>b, <1>c, <2>2, <2>3, RolledUpMoved DEF Moved
<1>7. QED
  BY <1>1, <1>2, <1>3, <1>4, <1>5, <1>6 DEF Finish

(* A submission opens one experiment that has all its work left, and       *)
(* leaves the jobs of the others alone.                                    *)
LEMMA SubmitMoves ==
  ASSUME TypeOK, RowsExist, NEW s \in Submission, Submit(s), NEW k \in ExpId
  PROVE  Moved(k) /\ Kept(k)
<1> DEFINE jobs == {j \in Decoding : SubmissionOf[j] = s}
<1>1. PICK i \in ExpId :
        /\ IsNextId(i)
        /\ exp' = [exp EXCEPT ![i] = "PENDING"]
        /\ experimentId' = [j \in Decoding |-> IF j \in jobs THEN i ELSE experimentId[j]]
  BY DEF Submit
<1>2. exp[i] = "ABSENT"
  BY <1>1 DEF IsNextId, ExpId
<1>3. \A j \in jobs : experimentId[j] = 0 /\ status[j] = "ABSENT"
  BY DEF Submit, RowsExist
<1>4. CASE k = i
  <2>1. exp[k] = "ABSENT" /\ exp'[k] = "PENDING"
    BY <1>1, <1>2, <1>4 DEF TypeOK
  <2>2. PICK j \in jobs : TRUE
    BY DEF Submit
  <2>3. status'[j] = "PENDING"
    BY DEF Submit, Task
  <2>4. j \in JobsOf(k)'
    BY <1>1, <1>4 DEF JobsOf
  <2>5. j \in Unfinished'[k]
    BY <2>1, <2>3, <2>4 DEF Unfinished
  <2>6. QED
    BY <2>1, <2>5 DEF Moved, Kept
<1>5. CASE k # i
  <2>1. exp'[k] = exp[k]
    BY <1>1, <1>5 DEF TypeOK
  <2>2. 0 \notin ExpId
    BY DEF ExpId
  <2>3. JobsOf(k)' = JobsOf(k)
    BY <1>1, <1>3, <1>5, <2>2 DEF JobsOf
  <2>4. \A j \in JobsOf(k) : j \in Decoding /\ j \notin jobs
    BY <1>3, <2>2 DEF JobsOf
  <2>5. \A j \in JobsOf(k) : status'[j] = status[j]
    BY <2>4, TaskAssumption DEF Submit, Task
  <2>6. QED
    BY <2>1, <2>3, <2>5 DEF Moved, Kept, Unfinished
<1>6. QED
  BY <1>4, <1>5

(* Without overlap every behaviour of the queue is one of ExperimentLife.  *)
THEOREM LifeImplemented == ASSUME ~Overlap PROVE Spec => LivesAsPromised
<1> DEFINE Inv == /\ TypeOK /\ SerialInv /\ RowsExist
                  /\ CompletedMeansDone /\ FailedHasFailure /\ RunningHasWork
           Final == /\ \A i \in ExpId : exp[i] = "COMPLETED" => exp'[i] \in {"COMPLETED", "ABSENT"}
                    /\ \A t \in Task : status[t] = "COMPLETED" => status'[t] = "COMPLETED"
<1>1. Init => Life!Init
  BY DEF Init, Life!Init, Unfinished
<1>2. Inv /\ Inv' /\ [Next]_vars /\ [Final]_vars => [Life!Next]_Life!vars
  <2>a. UNCHANGED vars => UNCHANGED Life!vars
    <3>1. SUFFICES ASSUME UNCHANGED vars PROVE UNCHANGED Life!vars
      OBVIOUS
    <3>2. UNCHANGED <<exp, status, experimentId>>
      BY <3>1 DEF vars
    <3>3. Unfinished' = Unfinished
      BY <3>2 DEF Unfinished, JobsOf
    <3>4. QED
      BY <3>2, <3>3 DEF Life!vars
  <2>b. Inv /\ Inv' /\ Next /\ Final => Life!Next
    <3> SUFFICES ASSUME Inv, Inv', Next, Final PROVE Life!Next
      OBVIOUS
    <3>1. Owes /\ Owes'
      BY DEF Owes, Unfinished, CompletedMeansDone, FailedHasFailure, RunningHasWork
    <3>2. \A k \in ExpId : UNCHANGED exp => Moved(k)
      BY DEF Moved
    <3>3. ASSUME NEW k \in ExpId PROVE Moved(k) /\ Kept(k)
      <4>1. ASSUME NEW s \in Submission, Submit(s) PROVE Moved(k) /\ Kept(k)
        BY <4>1, SubmitMoves
      <4>2. CASE UNCHANGED experimentId
        <5>1. Kept(k)
          BY <4>2, SameJobsKept
        <5>2. ASSUME NEW h \in inflight, Finish(h) PROVE Moved(k)
          BY <5>2, FinishMoves
        <5>3. ASSUME NEW w \in Worker, PollTasks(w) PROVE Moved(k)
          <6>1. exp'[k] = exp[k] \/ (exp[k] = "PENDING" /\ exp'[k] = "RUNNING")
            BY <5>3 DEF PollTasks
          <6>2. QED
            BY <6>1 DEF Moved
        <5>4. ASSUME NEW s \in Submission, Submit(s) PROVE Moved(k)
          BY <5>4, SubmitMoves
        <5>5. QED
          BY <5>1, <5>2, <5>3, <5>4, <3>2 DEF Next, BeginCancel, BeginRetry, BeginDelete,
             Heartbeat, BreakPool, RestartWorker, Report, BeginUpload, BeginComplete, BeginFail, EndTask, LeaseRunsOut,
             ReclaimExpired, Restart
      <4>3. CASE ~ UNCHANGED experimentId
        <5>1. \E s \in Submission : Submit(s)
          BY <4>3 DEF Next, BeginCancel, BeginRetry, BeginDelete, PollTasks, Heartbeat, BreakPool, RestartWorker, Report,
             BeginUpload, BeginComplete, BeginFail, EndTask, LeaseRunsOut, ReclaimExpired,
             Restart, Finish, FinishCancel, FinishRetry, FinishDelete, FinishUpload,
             FinishComplete, FinishFail
        <5>2. QED
          BY <5>1, <4>1
      <4>4. QED
        BY <4>2, <4>3
    <3>4. \A k \in ExpId : Life!Move(k)
      BY <3>1, <3>3, MovedIsMove
    <3>5. Unfinished' \in [ExpId -> SUBSET Decoding]
      BY DEF Unfinished, JobsOf
    <3>6. QED
      BY <3>4, <3>5 DEF Life!Next
  <2>c. QED
    <3>1. CASE UNCHANGED vars
      BY <2>a, <3>1
    <3>2. CASE ~UNCHANGED vars
      BY <2>b, <3>2
    <3>3. QED
      BY <3>1, <3>2
<1>3. QED
  BY <1>1, <1>2, TypeCorrect, SerialCorrect, RowsExistAlways, CompletedCorrect,
     StatusesHonest, CompletedFinal, PTL
  DEF Spec, Life!Spec, LivesAsPromised, CompletedIsFinal

=============================================================================
