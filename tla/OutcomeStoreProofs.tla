------------------------- MODULE OutcomeStoreProofs -------------------------
(* Type correctness of OutcomeStore, and that a job that is handed out     *)
(* finds the file it needs, for any number of tasks, executions and jobs.  *)
EXTENDS OutcomeStore, TLAPS

(* Laying one outcome over a file gives a file.                            *)
LEMMA OverlaidType ==
  ASSUME NEW e \in Execution, NEW f \in Seq(Execution)
  PROVE  Overlaid(e, f) \in Seq(Execution)
<1> DEFINE n == IF Blocks[e] > Len(f) THEN Blocks[e] ELSE Len(f)
<1>1. n \in Nat
  BY ExecutionAssumption
<1>2. \A k \in 1..n : (IF k <= Blocks[e] THEN e ELSE f[k]) \in Execution
  BY ExecutionAssumption
<1>3. Overlaid(e, f) = [k \in 1..n |-> IF k <= Blocks[e] THEN e ELSE f[k]]
  BY DEF Overlaid
<1>4. Overlaid(e, f) \in [1..n -> Execution]
  BY <1>2, <1>3
<1>5. QED
  BY <1>1, <1>4

(* Every reachable state of the outcome store is well typed.               *)
THEOREM StoreTypeCorrect == Spec => []TypeOK
<1>1. Init => TypeOK
  BY ExecutionAssumption DEF Init, TypeOK, UploadPhase
<1>2. TypeOK /\ [Next]_vars => TypeOK'
  <2> SUFFICES ASSUME TypeOK, [Next]_vars PROVE TypeOK'
    OBVIOUS
  <2> USE ExecutionAssumption, ReaderAssumption
  <2>1. ASSUME NEW e \in Execution, HandOut(e) PROVE TypeOK'
    BY <2>1 DEF TypeOK, HandOut, UploadPhase
  <2>2. ASSUME NEW e \in Execution, ReportFailure(e) PROVE TypeOK'
    BY <2>2 DEF TypeOK, ReportFailure, UploadPhase
  <2>3. ASSUME NEW e \in Execution, CommitFailure(e) PROVE TypeOK'
    BY <2>3 DEF TypeOK, CommitFailure
  <2>4. ASSUME NEW e \in Execution, Post(e) PROVE TypeOK'
    BY <2>4 DEF TypeOK, Post, UploadPhase
  <2>5. ASSUME NEW e \in Execution, Open(e) PROVE TypeOK'
    <3>1. <<>> \in Seq(Execution)
      OBVIOUS
    <3>2. QED
      BY <2>5, <3>1 DEF TypeOK, Open, UploadPhase
  <2>6. ASSUME NEW e \in Execution, Write(e) PROVE TypeOK'
    <3>1. Overlaid(e, file[DataOf[e]]) \in Seq(Execution)
      BY OverlaidType DEF TypeOK
    <3>2. QED
      BY <2>6, <3>1 DEF TypeOK, Write, UploadPhase
  <2>7. ASSUME NEW e \in Execution, Check(e) PROVE TypeOK'
    BY <2>7 DEF TypeOK, Check, UploadPhase
  <2>8. ASSUME NEW e \in Execution, Commit(e) PROVE TypeOK'
    BY <2>8 DEF TypeOK, Commit, UploadPhase
  <2>9. ASSUME NEW d \in Data, Requeue(d) PROVE TypeOK'
    BY <2>9 DEF TypeOK, Requeue
  <2>10. ASSUME NEW r \in Reader, HandOutJob(r) \/ Find(r) PROVE TypeOK'
    BY <2>10 DEF TypeOK, HandOutJob, Find
  <2>11. ASSUME NEW r \in Reader, ReadBlock(r) PROVE TypeOK'
    <3>1. CASE Len(got[r]) < Len(file[ReadsFrom[r]])
      <4>1. file[ReadsFrom[r]] \in Seq(Execution) /\ got[r] \in Seq(Execution)
        BY DEF TypeOK
      <4>2. file[ReadsFrom[r]][Len(got[r]) + 1] \in Execution
        BY <3>1, <4>1
      <4>3. Append(got[r], file[ReadsFrom[r]][Len(got[r]) + 1]) \in Seq(Execution)
        BY <4>1, <4>2
      <4>4. QED
        BY <2>11, <3>1, <4>3 DEF TypeOK, ReadBlock
    <3>2. CASE ~(Len(got[r]) < Len(file[ReadsFrom[r]]))
      BY <2>11, <3>2 DEF TypeOK, ReadBlock
    <3>3. QED
      BY <3>1, <3>2
  <2>12. CASE Restart
    <3>1. <<>> \in Seq(Execution)
      OBVIOUS
    <3>2. QED
      BY <2>12, <3>1 DEF TypeOK, Restart, UploadPhase
  <2>13. CASE UNCHANGED vars
    BY <2>13 DEF TypeOK, vars
  <2>14. QED
    BY <2>1, <2>2, <2>3, <2>4, <2>5, <2>6, <2>7, <2>8, <2>9, <2>10, <2>11, <2>12, <2>13
    DEF Next
<1>3. QED
  BY <1>1, <1>2, PTL DEF Spec

(* A COMPLETED row has a path, and a recorded path has a file.             *)
THEOREM FilesAlways == Spec => []FilesInv
<1>1. Init => FilesInv
  BY ExecutionAssumption, ReaderAssumption DEF Init, FilesInv, HandedOutFindsFile
<1>2. TypeOK /\ FilesInv /\ [Next]_vars => FilesInv'
  <2> SUFFICES ASSUME TypeOK, FilesInv, [Next]_vars PROVE FilesInv'
    OBVIOUS
  <2> USE ExecutionAssumption, ReaderAssumption DEF TypeOK, FilesInv, HandedOutFindsFile
  <2>1. ASSUME NEW e \in Execution, HandOut(e) \/ ReportFailure(e) \/ CommitFailure(e) \/ Post(e)
        PROVE  FilesInv'
    BY <2>1 DEF HandOut, ReportFailure, CommitFailure, Post
  <2>2. ASSUME NEW e \in Execution, Open(e) PROVE FilesInv'
    BY <2>2 DEF Open
  <2>3. ASSUME NEW e \in Execution, Write(e) PROVE FilesInv'
    BY <2>3 DEF Write
  <2>4. ASSUME NEW e \in Execution, Check(e) PROVE FilesInv'
    BY <2>4 DEF Check, CheckFrom
  <2>5. ASSUME NEW e \in Execution, Commit(e) PROVE FilesInv'
    BY <2>5 DEF Commit
  <2>6. ASSUME NEW d \in Data, Requeue(d) PROVE FilesInv'
    BY <2>6 DEF Requeue
  <2>7. ASSUME NEW r \in Reader, HandOutJob(r) PROVE FilesInv'
    BY <2>7 DEF HandOutJob
  <2>8. ASSUME NEW r \in Reader, Find(r) PROVE FilesInv'
    BY <2>8 DEF Find
  <2>9. ASSUME NEW r \in Reader, ReadBlock(r) PROVE FilesInv'
    BY <2>9 DEF ReadBlock
  <2>10. CASE Restart
    BY <2>10 DEF Restart
  <2>11. CASE UNCHANGED vars
    BY <2>11 DEF vars
  <2>12. QED
    BY <2>1, <2>2, <2>3, <2>4, <2>5, <2>6, <2>7, <2>8, <2>9, <2>10, <2>11 DEF Next
<1>3. QED
  BY <1>1, <1>2, StoreTypeCorrect, PTL DEF Spec

(* A decoding job that poll_tasks has handed out is never answered 404 by  *)
(* download_outcome, whatever uploads, reports and restarts go on.         *)
THEOREM HandedOutFinds == Spec => []HandedOutFindsFile
<1>1. FilesInv => HandedOutFindsFile
  BY DEF FilesInv
<1>2. QED
  BY <1>1, FilesAlways, PTL

(* The row and the file of a COMPLETED task are those of the execution     *)
(* that uploaded its outcome, and a download receives that outcome, as     *)
(* long as no second execution of the task uploads one.                    *)
THEOREM SoleUploadCorrect == Spec => [](SoleUploadIsKept /\ SoleUploadIsRead)
<1> USE ExecutionAssumption, ReaderAssumption
<1>1. Init => SoleInv
  BY DEF Init, SoleInv, SoleKept
<1>2. TypeOK /\ FilesInv /\ SoleInv /\ [Next]_vars => SoleInv'
  <2> SUFFICES ASSUME TypeOK, FilesInv, SoleInv, [Next]_vars, NEW e \in Execution, Sole(e)'
               PROVE  SoleKept(e)'
    BY DEF SoleInv
  <2> USE DEF TypeOK, UploadPhase
  <2>1. ASSUME Sole(e), UNCHANGED <<path, shots, file, download, got>>, upload'[e] = upload[e]
        PROVE  SoleKept(e)'
    BY <2>1 DEF SoleInv, SoleKept, Outcome
  <2>2. ASSUME NEW x \in Execution, HandOut(x) \/ ReportFailure(x) \/ CommitFailure(x) \/ Post(x)
        PROVE  SoleKept(e)'
    <3>1. UNCHANGED <<path, shots, file, download, got>>
      BY <2>2 DEF HandOut, ReportFailure, CommitFailure, Post
    <3>2. Sole(e)
      BY <2>2 DEF Sole, Uploaders, HandOut, ReportFailure, CommitFailure, Post
    <3>3. upload'[e] \in {"opened", "written", "checked"} => upload'[e] = upload[e]
      BY <2>2 DEF HandOut, ReportFailure, CommitFailure, Post
    <3>4. upload[e] = "over" => upload'[e] = "over"
      BY <2>2 DEF HandOut, ReportFailure, CommitFailure, Post
    <3>5. QED
      BY <3>1, <3>2, <3>3, <3>4 DEF SoleInv, SoleKept, Outcome
  <2>3. ASSUME NEW x \in Execution, Open(x) PROVE SoleKept(e)'
    <3>1. Sole(e)
      BY <2>3 DEF Sole, Uploaders, Open
    <3>2. CASE DataOf[x] = DataOf[e]
      <4>1. x = e
        BY <2>3, <3>2 DEF Sole, Uploaders, Open
      <4>2. QED
        <5>1. SoleKept(e) /\ upload[e] = "posted"
          BY <2>3, <4>1, <3>1 DEF Open, SoleInv
        <5>2. ~path[DataOf[e]]
          BY <5>1 DEF SoleKept
        <5>3. \A r \in Reader : ReadsFrom[r] = DataOf[e] => download[r] \notin {"found", "read"}
          BY <5>2 DEF FilesInv
        <5>4. /\ upload'[e] = "opened" /\ file'[DataOf[e]] = <<>>
              /\ UNCHANGED <<path, shots, download, got>>
          BY <2>3, <4>1 DEF Open
        <5>5. \A r \in Reader :
                ReadsFrom[r] = DataOf[e] /\ download[r] \in {"idle", "handed"} => got[r] = <<>>
          BY <5>1 DEF SoleKept
        <5>6. QED
          BY <5>2, <5>3, <5>4, <5>5 DEF SoleKept
    <3>3. CASE DataOf[x] # DataOf[e]
      BY <2>3, <3>1, <3>3 DEF Open, SoleInv, SoleKept, Outcome
    <3>4. QED
      BY <3>2, <3>3
  <2>4. ASSUME NEW x \in Execution, Write(x) PROVE SoleKept(e)'
    <3>1. Sole(e)
      BY <2>4 DEF Sole, Uploaders, Write
    <3>2. CASE DataOf[x] = DataOf[e]
      <4>1. x = e
        BY <2>4, <3>2 DEF Sole, Uploaders, Write
      <4>2. file[DataOf[e]] = <<>>
        BY <2>4, <4>1, <3>1 DEF Write, SoleInv, SoleKept
      <4>3. Overlaid(e, <<>>) = Outcome(e)
        BY DEF Overlaid, Outcome
      <4>4. QED
        <5>1. SoleKept(e) /\ upload[e] = "opened"
          BY <2>4, <4>1, <3>1 DEF Write, SoleInv
        <5>2. ~path[DataOf[e]]
          BY <5>1 DEF SoleKept
        <5>3. \A r \in Reader : ReadsFrom[r] = DataOf[e] => download[r] \notin {"found", "read"}
          BY <5>2 DEF FilesInv
        <5>4. /\ upload'[e] = "written" /\ file'[DataOf[e]] = Outcome(e)
              /\ UNCHANGED <<path, shots, download, got>>
          BY <2>4, <4>1, <4>2, <4>3 DEF Write
        <5>5. \A r \in Reader :
                ReadsFrom[r] = DataOf[e] /\ download[r] \in {"idle", "handed"} => got[r] = <<>>
          BY <5>1 DEF SoleKept
        <5>6. QED
          BY <5>2, <5>3, <5>4, <5>5 DEF SoleKept, Outcome
    <3>3. CASE DataOf[x] # DataOf[e]
      BY <2>4, <3>1, <3>3 DEF Write, SoleInv, SoleKept, Outcome
    <3>4. QED
      BY <3>2, <3>3
  <2>5. ASSUME NEW x \in Execution, Check(x) PROVE SoleKept(e)'
    <3>1. Sole(e)
      BY <2>5 DEF Sole, Uploaders, Check, CheckFrom
    <3>2. QED
      BY <2>5, <3>1 DEF Check, CheckFrom, FilesInv, SoleInv, SoleKept, Outcome
  <2>6. ASSUME NEW x \in Execution, Commit(x) PROVE SoleKept(e)'
    <3>1. Sole(e)
      BY <2>6 DEF Sole, Uploaders, Commit
    <3>2. CASE DataOf[x] = DataOf[e]
      <4>1. x = e
        BY <2>6, <3>2 DEF Sole, Uploaders, Commit
      <4>2. QED
        <5>1. SoleKept(e) /\ upload[e] = "checked"
          BY <2>6, <4>1, <3>1 DEF Commit, SoleInv
        <5>2. ~path[DataOf[e]] /\ file[DataOf[e]] = Outcome(e)
          BY <5>1 DEF SoleKept
        <5>3. \A r \in Reader : ReadsFrom[r] = DataOf[e] => download[r] \notin {"found", "read"}
          BY <5>2 DEF FilesInv
        <5>4. /\ upload'[e] = "over" /\ shots'[DataOf[e]] = e
              /\ UNCHANGED <<file, download, got>>
          BY <2>6, <4>1 DEF Commit
        <5>5. \A r \in Reader :
                ReadsFrom[r] = DataOf[e] /\ download[r] \in {"idle", "handed"} => got[r] = <<>>
          BY <5>1 DEF SoleKept
        <5>6. QED
          BY <5>2, <5>3, <5>4, <5>5 DEF SoleKept, Outcome
    <3>3. CASE DataOf[x] # DataOf[e]
      BY <2>6, <3>1, <3>3 DEF Commit, SoleInv, SoleKept, Outcome
    <3>4. QED
      BY <3>2, <3>3
  <2>7. ASSUME NEW d \in Data, Requeue(d) PROVE SoleKept(e)'
    BY <2>7, <2>1 DEF Requeue, Sole, Uploaders
  <2>8. ASSUME NEW r \in Reader, HandOutJob(r) \/ Find(r) PROVE SoleKept(e)'
    <3>1. Sole(e)
      BY <2>8 DEF Sole, Uploaders, HandOutJob, Find
    <3>2. QED
      <4>1. /\ UNCHANGED <<path, shots, file, upload, got>>
            /\ \A q \in Reader : download'[q] # download[q] =>
                 download[q] \in {"idle", "handed"} /\ download'[q] # "read"
        BY <2>8 DEF HandOutJob, Find
      <4>2. SoleKept(e)
        BY <3>1 DEF SoleInv
      <4>3. \A q \in Reader : ReadsFrom[q] = DataOf[e] =>
              /\ download'[q] \in {"idle", "handed"} => got'[q] = <<>>
              /\ download'[q] = "found" =>
                   /\ Len(got'[q]) <= Blocks[e]
                   /\ \A k \in 1..Len(got'[q]) : got'[q][k] = e
              /\ download'[q] = "read" => got'[q] = Outcome(e)
        BY <4>1, <4>2 DEF SoleKept
      <4>4. QED
        BY <4>1, <4>2, <4>3 DEF SoleKept, Outcome
  <2>9. ASSUME NEW r \in Reader, ReadBlock(r) PROVE SoleKept(e)'
    <3>1. Sole(e) /\ SoleKept(e)
      BY <2>9 DEF Sole, Uploaders, ReadBlock, SoleInv
    <3>2. CASE ReadsFrom[r] # DataOf[e]
      <4>1. /\ UNCHANGED <<path, shots, file, upload>>
            /\ \A q \in Reader : q # r => download'[q] = download[q] /\ got'[q] = got[q]
        BY <2>9 DEF ReadBlock
      <4>2. \A q \in Reader : ReadsFrom[q] = DataOf[e] => q # r
        BY <3>2
      <4>3. ASSUME NEW q \in Reader, ReadsFrom[q] = DataOf[e]
            PROVE  /\ download'[q] \in {"idle", "handed"} => got'[q] = <<>>
                   /\ download'[q] = "found" =>
                        /\ Len(got'[q]) <= Blocks[e]
                        /\ \A k \in 1..Len(got'[q]) : got'[q][k] = e
                   /\ download'[q] = "read" => got'[q] = Outcome(e)
        <5>1. got'[q] = got[q] /\ download'[q] = download[q]
          BY <4>1, <4>2, <4>3
        <5>2. QED
          BY <3>1, <4>3, <5>1 DEF SoleKept
      <4>4. QED
        BY <3>1, <4>1, <4>3 DEF SoleKept, Outcome
    <3>3. CASE ReadsFrom[r] = DataOf[e]
      <4>1. file[ReadsFrom[r]] = Outcome(e) /\ download[r] = "found"
        BY <2>9, <3>1, <3>3 DEF ReadBlock, FilesInv, SoleKept
      <4>2. Len(Outcome(e)) = Blocks[e] /\ \A k \in 1..Blocks[e] : Outcome(e)[k] = e
        BY DEF Outcome
      <4>3. got[r] \in Seq(Execution) /\ Len(got[r]) <= Blocks[e]
            /\ \A k \in 1..Len(got[r]) : got[r][k] = e
        BY <3>1, <3>3, <4>1 DEF SoleKept
      <4>4. CASE Len(got[r]) < Blocks[e]
        <5>1. got' = [got EXCEPT ![r] = Append(got[r], e)] /\ UNCHANGED download
          BY <2>9, <4>1, <4>2, <4>3, <4>4 DEF ReadBlock
        <5>2. QED
          <6>1. /\ UNCHANGED <<path, shots, file, upload, download>>
                /\ \A q \in Reader : q # r => got'[q] = got[q]
            BY <2>9, <5>1 DEF ReadBlock
          <6>2. got'[r] = Append(got[r], e)
            BY <5>1
          <6>3. /\ Len(got'[r]) <= Blocks[e]
                /\ \A k \in 1..Len(got'[r]) : got'[r][k] = e
            BY <4>3, <4>4, <6>2
          <6>4. ASSUME NEW q \in Reader, ReadsFrom[q] = DataOf[e]
                PROVE  /\ download'[q] \in {"idle", "handed"} => got'[q] = <<>>
                       /\ download'[q] = "found" =>
                            /\ Len(got'[q]) <= Blocks[e]
                            /\ \A k \in 1..Len(got'[q]) : got'[q][k] = e
                       /\ download'[q] = "read" => got'[q] = Outcome(e)
            <7>1. CASE q = r
              BY <4>1, <6>1, <6>3, <7>1
            <7>2. CASE q # r
              BY <3>1, <6>1, <6>4, <7>2 DEF SoleKept
            <7>3. QED
              BY <7>1, <7>2
          <6>5. QED
            BY <3>1, <6>1, <6>4 DEF SoleKept, Outcome
      <4>5. CASE ~(Len(got[r]) < Blocks[e])
        <5>1. got[r] = Outcome(e)
          BY <4>2, <4>3, <4>5 DEF Outcome
        <5>2. QED
          <6>1. /\ UNCHANGED <<path, shots, file, upload, got>>
                /\ download'[r] = "read"
                /\ \A q \in Reader : q # r => download'[q] = download[q]
            BY <2>9, <4>1, <4>2, <4>5 DEF ReadBlock
          <6>2. QED
            BY <3>1, <5>1, <6>1 DEF SoleKept, Outcome
      <4>6. QED
        BY <4>4, <4>5
    <3>4. QED
      BY <3>2, <3>3
  <2>10. CASE Restart
    <3>1. Sole(e)
      BY <2>10 DEF Sole, Uploaders, Restart
    <3>2. QED
      BY <2>10, <3>1 DEF Restart, SoleInv, SoleKept, Outcome
  <2>11. CASE UNCHANGED vars
    BY <2>11, <2>1 DEF vars, Sole, Uploaders
  <2>12. QED
    BY <2>2, <2>3, <2>4, <2>5, <2>6, <2>7, <2>8, <2>9, <2>10, <2>11 DEF Next
<1>3. FilesInv /\ SoleInv => SoleUploadIsKept /\ SoleUploadIsRead
  BY DEF FilesInv, SoleInv, SoleKept, Sole, SoleUploadIsKept, SoleUploadIsRead, Uploaders
<1>4. QED
  BY <1>1, <1>2, <1>3, StoreTypeCorrect, FilesAlways, PTL DEF Spec

=============================================================================
