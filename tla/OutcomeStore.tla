---------------------------- MODULE OutcomeStore ----------------------------
(***************************************************************************)
(* The outcome files of the data generation tasks: the upload handler,     *)
(* which writes <storage>/outcomes/<id>.pkl.gz before it looks at the row, *)
(* the row that records the path, and the downloads of the decoding jobs.  *)
(*                                                                         *)
(* A file is a sequence of blocks, each of the execution that wrote it.    *)
(* Executions of one task produce different samples, hence different       *)
(* blocks, and files of different lengths.  Path.write_bytes truncates the *)
(* file and then writes it in a thread, so two uploads of one task         *)
(* interleave and a download may read between the two.                     *)
(***************************************************************************)
EXTENDS Integers, Sequences

CONSTANTS
  Data,           \* data generation tasks
  Execution,      \* executions of data tasks by workers
  Reader,         \* executions of decoding jobs, which download an outcome
  NoExecution,    \* stands for no execution
  DataOf,         \* DataOf[e]: the data task execution e is for
  Blocks,         \* Blocks[e]: the number of blocks of its outcome
  ReadsFrom       \* ReadsFrom[r]: the data task whose outcome r downloads

ASSUME ExecutionAssumption ==
  /\ DataOf \in [Execution -> Data]
  /\ Blocks \in [Execution -> Nat \ {0}]
  /\ NoExecution \notin Execution
ASSUME ReaderAssumption == ReadsFrom \in [Reader -> Data]

VARIABLES
  status,   \* status[d]: status of the row of d
  path,     \* path[d]: whether outcome_file_path is set
  shots,    \* shots[d]: the execution whose shots and timings the row holds
  exists,   \* exists[d]: whether the outcome file of d is on disk
  file,     \* file[d]: its blocks
  upload,   \* upload[e]: where execution e and its upload stand
  report,   \* report[e]: where its failure report stands
  download, \* download[r]: where the download of r stands
  got       \* got[r]: the blocks r has received

vars == <<status, path, shots, exists, file, upload, report, download, got>>

UploadPhase ==
  {"unused", "working", "failed", "posted", "opened", "written", "checked", "over", "lost"}

TypeOK ==
  /\ status \in [Data -> {"PENDING", "RUNNING", "COMPLETED", "FAILED"}]
  /\ path \in [Data -> BOOLEAN]
  /\ shots \in [Data -> Execution \cup {NoExecution}]
  /\ exists \in [Data -> BOOLEAN]
  /\ file \in [Data -> Seq(Execution)]
  /\ upload \in [Execution -> UploadPhase]
  /\ report \in [Execution -> {"none", "checked", "over"}]
  /\ download \in [Reader -> {"idle", "handed", "found", "missing", "read"}]
  /\ got \in [Reader -> Seq(Execution)]

Init ==
  /\ status = [d \in Data |-> "PENDING"]
  /\ path = [d \in Data |-> FALSE]
  /\ shots = [d \in Data |-> NoExecution]
  /\ exists = [d \in Data |-> FALSE]
  /\ file = [d \in Data |-> <<>>]
  /\ upload = [e \in Execution |-> "unused"]
  /\ report = [e \in Execution |-> "none"]
  /\ download = [r \in Reader |-> "idle"]
  /\ got = [r \in Reader |-> <<>>]

-----------------------------------------------------------------------------
(* The queue, as far as the outcomes are concerned (see TaskQueue).        *)

HandOut(e) ==
  /\ upload[e] = "unused"
  /\ status[DataOf[e]] = "PENDING"
  /\ status' = [status EXCEPT ![DataOf[e]] = "RUNNING"]
  /\ upload' = [upload EXCEPT ![e] = "working"]
  /\ UNCHANGED <<path, shots, exists, file, report, download, got>>

(* The lease ran out, or a failed task is retried.                         *)
Requeue(d) ==
  /\ status[d] \in {"RUNNING", "FAILED"}
  /\ status' = [status EXCEPT ![d] = "PENDING"]
  /\ UNCHANGED <<path, shots, exists, file, upload, report, download, got>>

(* The worker gives the execution up: it raised, or the answer to its      *)
(* upload did not come, while the server may still be busy with it.  The   *)
(* report is looked at and committed in two steps (complete_task).         *)
ReportFailure(e) ==
  /\ upload[e] \notin {"unused", "over"}
  /\ report[e] = "none"
  /\ report' = [report EXCEPT ![e] =
       IF status[DataOf[e]] \in {"COMPLETED", "FAILED"} THEN "over" ELSE "checked"]
  /\ upload' = [upload EXCEPT ![e] =
       CASE upload[e] = "working" -> "failed"
         [] upload[e] = "lost" -> "over"
         [] OTHER -> upload[e]]
  /\ UNCHANGED <<status, path, shots, exists, file, download, got>>

(* Mutant of CommitFailure: the data task is cancelled, like a job.        *)
CommitCancel(e) ==
  /\ report[e] = "checked"
  /\ status' = [status EXCEPT ![DataOf[e]] = "CANCELLED"]
  /\ report' = [report EXCEPT ![e] = "over"]
  /\ UNCHANGED <<path, shots, exists, file, upload, download, got>>

CommitFailure(e) ==
  /\ report[e] = "checked"
  /\ status' = [status EXCEPT ![DataOf[e]] = "FAILED"]
  /\ report' = [report EXCEPT ![e] = "over"]
  /\ UNCHANGED <<path, shots, exists, file, upload, download, got>>

-----------------------------------------------------------------------------
(* upload_outcome: write the file in a thread, look at the row, commit.    *)

Post(e) ==
  /\ upload[e] = "working"
  /\ upload' = [upload EXCEPT ![e] = "posted"]
  /\ UNCHANGED <<status, path, shots, exists, file, report, download, got>>

Open(e) ==
  /\ upload[e] = "posted"
  /\ exists' = [exists EXCEPT ![DataOf[e]] = TRUE]
  /\ file' = [file EXCEPT ![DataOf[e]] = <<>>]
  /\ upload' = [upload EXCEPT ![e] = "opened"]
  /\ UNCHANGED <<status, path, shots, report, download, got>>

(* The blocks of e laid over those of f, from the start of the file.       *)
Overlaid(e, f) ==
  [k \in 1..(IF Blocks[e] > Len(f) THEN Blocks[e] ELSE Len(f)) |->
     IF k <= Blocks[e] THEN e ELSE f[k]]

Write(e) ==
  /\ upload[e] = "opened"
  /\ file' = [file EXCEPT ![DataOf[e]] = Overlaid(e, file[DataOf[e]])]
  /\ upload' = [upload EXCEPT ![e] = "written"]
  /\ UNCHANGED <<status, path, shots, exists, report, download, got>>

(* Mutants of CheckFrom: the row is looked at, and then committed, before  *)
(* the file is open, or before it is written.                              *)
CheckBeforeOpen == {"posted"}
CheckBeforeWrite == {"opened"}

(* Where the handler stands when it looks at the row.                      *)
CheckFrom == {"written"}

(* The row says COMPLETED already: the handler answers 200 and is done.    *)
Check(e) ==
  /\ upload[e] \in CheckFrom
  /\ upload' = [upload EXCEPT ![e] =
       IF status[DataOf[e]] = "COMPLETED" THEN "over" ELSE "checked"]
  /\ UNCHANGED <<status, path, shots, exists, file, report, download, got>>

Commit(e) ==
  /\ upload[e] = "checked"
  /\ status' = [status EXCEPT ![DataOf[e]] = "COMPLETED"]
  /\ path' = [path EXCEPT ![DataOf[e]] = TRUE]
  /\ shots' = [shots EXCEPT ![DataOf[e]] = e]
  /\ upload' = [upload EXCEPT ![e] = "over"]
  /\ UNCHANGED <<exists, file, report, download, got>>

(* The server stops: handlers and downloads end where they stand, and the  *)
(* files stay as they are.                                                 *)
Restart ==
  /\ upload' = [e \in Execution |->
       IF upload[e] \in {"posted", "opened", "written", "checked"} THEN "lost" ELSE upload[e]]
  /\ report' = [e \in Execution |-> IF report[e] = "checked" THEN "over" ELSE report[e]]
  /\ download' = [r \in Reader |-> IF download[r] = "found" THEN "idle" ELSE download[r]]
  /\ got' = [r \in Reader |-> IF download[r] = "found" THEN <<>> ELSE got[r]]
  /\ UNCHANGED <<status, path, shots, exists, file>>

-----------------------------------------------------------------------------
(* download_outcome, for a decoding job that poll_tasks has handed out.    *)

HandOutJob(r) ==
  /\ download[r] = "idle"
  /\ status[ReadsFrom[r]] = "COMPLETED"
  /\ download' = [download EXCEPT ![r] = "handed"]
  /\ UNCHANGED <<status, path, shots, exists, file, upload, report, got>>

Find(r) ==
  /\ download[r] = "handed"
  /\ download' = [download EXCEPT ![r] =
       IF path[ReadsFrom[r]] /\ exists[ReadsFrom[r]] THEN "found" ELSE "missing"]
  /\ UNCHANGED <<status, path, shots, exists, file, upload, report, got>>

(* FileResponse streams the file block by block.                           *)
ReadBlock(r) ==
  LET f == file[ReadsFrom[r]] IN
  /\ download[r] = "found"
  /\ IF Len(got[r]) < Len(f)
     THEN /\ got' = [got EXCEPT ![r] = Append(got[r], f[Len(got[r]) + 1])]
          /\ UNCHANGED download
     ELSE /\ download' = [download EXCEPT ![r] = "read"]
          /\ UNCHANGED got
  /\ UNCHANGED <<status, path, shots, exists, file, upload, report>>

-----------------------------------------------------------------------------
Next ==
  \/ \E e \in Execution :
       \/ HandOut(e) \/ ReportFailure(e) \/ CommitFailure(e)
       \/ Post(e) \/ Open(e) \/ Write(e) \/ Check(e) \/ Commit(e)
  \/ \E d \in Data : Requeue(d)
  \/ \E r \in Reader : HandOutJob(r) \/ Find(r) \/ ReadBlock(r)
  \/ Restart

Spec == Init /\ [][Next]_vars

-----------------------------------------------------------------------------
(* Safety                                                                  *)

Outcome(e) == [k \in 1..Blocks[e] |-> e]
Whole(f) == \E e \in Execution : f = Outcome(e)

(* The executions whose upload has reached the server.                     *)
Uploaders(d) ==
  {e \in Execution : DataOf[e] = d /\ upload[e] \notin {"unused", "working", "failed"}}

(* A job that is handed out finds the outcome it needs: /download never    *)
(* answers 404 to it, whatever uploads and restarts go on.                 *)
HandedOutFindsFile == \A r \in Reader : download[r] # "missing"

(* As long as one execution alone has uploaded an outcome, the file of a   *)
(* COMPLETED task is that outcome and the row describes it.                *)
SoleUploadIsKept ==
  \A d \in Data, e \in Execution :
    status[d] = "COMPLETED" /\ Uploaders(d) = {e} => file[d] = Outcome(e) /\ shots[d] = e

(* Then a download, begun at any time, receives that outcome.              *)
SoleUploadIsRead ==
  \A r \in Reader, e \in Execution :
    download[r] = "read" /\ Uploaders(ReadsFrom[r]) = {e} => got[r] = Outcome(e)

(* Why a handed out job finds its file: a row is COMPLETED only with a     *)
(* path, a path is recorded only for a file that is there, and no file     *)
(* goes away.                                                              *)
FilesInv ==
  /\ \A d \in Data : status[d] = "COMPLETED" => path[d]
  /\ \A d \in Data : path[d] => exists[d]
  /\ \A e \in Execution : upload[e] \in {"opened", "written", "checked"} => exists[DataOf[e]]
  /\ \A r \in Reader : download[r] \in {"handed", "found", "read"} => path[ReadsFrom[r]]
  /\ HandedOutFindsFile

(* Why one upload does no harm: from Open on the file is its own, and      *)
(* what a download has received is the beginning of it.                    *)
Sole(e) == Uploaders(DataOf[e]) \subseteq {e}

SoleKept(e) ==
  /\ upload[e] = "opened" => file[DataOf[e]] = <<>>
  /\ upload[e] \in {"written", "checked"} => file[DataOf[e]] = Outcome(e)
  /\ path[DataOf[e]] =>
       upload[e] = "over" /\ file[DataOf[e]] = Outcome(e) /\ shots[DataOf[e]] = e
  /\ \A r \in Reader : ReadsFrom[r] = DataOf[e] =>
       /\ download[r] \in {"idle", "handed"} => got[r] = <<>>
       /\ download[r] = "found" =>
            /\ Len(got[r]) <= Blocks[e]
            /\ \A k \in 1..Len(got[r]) : got[r][k] = e
       /\ download[r] = "read" => got[r] = Outcome(e)

SoleInv == \A e \in Execution : Sole(e) => SoleKept(e)

(* What the worker's heartbeat says (worker.py:79-81), "in-flight          *)
(* subprocess work may still finish harmlessly (upload/complete are        *)
(* idempotent on the server)": a COMPLETED task has a readable outcome     *)
(* whenever no upload of it is between opening and writing the file.  A    *)
(* second upload of the task breaks it.                                    *)
CompletedIsReadable ==
  \A d \in Data :
    /\ status[d] = "COMPLETED"
    /\ \A e \in Execution : DataOf[e] = d => upload[e] # "opened"
    => Whole(file[d])

=============================================================================
