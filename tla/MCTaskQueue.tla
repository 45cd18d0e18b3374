---------------------------- MODULE MCTaskQueue ----------------------------
(* Instances of TaskQueue for TLC.                                         *)
EXTENDS TaskQueue, TLC

CONSTANTS s1, s2, d1, j1, j2, j3, w1, w2

(* Two experiments, of two jobs and of one, that share the outcome of d1.  *)
(* The data task has the primary key of the first job.                     *)
SharedSubmissionOf == (j1 :> s1) @@ (j2 :> s1) @@ (j3 :> s2)
SharedDataOf == (j1 :> d1) @@ (j2 :> d1) @@ (j3 :> d1)
SharedRowId == (d1 :> 1) @@ (j1 :> 1) @@ (j2 :> 2) @@ (j3 :> 3)

(* One experiment of two jobs on d1.                                       *)
TwoSubmissionOf == (j1 :> s1) @@ (j2 :> s1)
TwoDataOf == (j1 :> d1) @@ (j2 :> d1)
TwoRowId == (d1 :> 1) @@ (j1 :> 1) @@ (j2 :> 2)

(* One experiment with one job.                                            *)
OneSubmissionOf == j1 :> s1
OneDataOf == j1 :> d1
OneRowId == (d1 :> 1) @@ (j1 :> 1)

(* The lease of a row that is not RUNNING is never read: poll_tasks sets   *)
(* it when it makes the row RUNNING, heartbeat and the lease loop select   *)
(* RUNNING rows.  States that differ only there are explored once.         *)
LeaseView ==
  <<exp, status, [t \in Task |-> IF status[t] = "RUNNING" THEN lease[t] ELSE "null"],
    experimentId, run, broken, inflight>>

WorkerSymmetry == Permutations({w1, w2})

=============================================================================
