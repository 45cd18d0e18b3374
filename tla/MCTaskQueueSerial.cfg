CONSTANTS
  s1 = s1
  s2 = s2
  d1 = d1
  j1 = j1
  j2 = j2
  j3 = j3
  w1 = w1
  w2 = w2
  Submission = {s1, s2}
  Data = {d1}
  Decoding = {j1, j2, j3}
  Worker = {w1, w2}
  User = {u1}
  SubmissionOf <- SharedSubmissionOf
  DataOf <- SharedDataOf
  RowId <- SharedRowId
  NeedsGpu = {j3}
  HasGpu = {w1}
  MayBreak = {}
  BatchSize = 2
  UserOps = {"cancel", "retry", "delete"}
  Overlap = FALSE
  MaxInflight = 1
  MaxExp = 2
SPECIFICATION Spec
VIEW LeaseView
INVARIANTS
  CompletedMeansDone
  OutcomeBeforeDecoding
  CancelledIsQuiet
  FailedHasFailure
  RunningHasWork
PROPERTIES
  CompletedIsFinal
  LivesAsPromised
CHECK_DEADLOCK FALSE
