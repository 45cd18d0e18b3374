CONSTANTS
  s1 = s1
  s2 = s2
  d1 = d1
  j1 = j1
  j2 = j2
  j3 = j3
  w1 = w1
  w2 = w2
  Submission = {s1}
  Data = {d1}
  Decoding = {j1}
  Worker = {w1, w2}
  User = {u1}
  SubmissionOf <- OneSubmissionOf
  DataOf <- OneDataOf
  RowId <- OneRowId
  NeedsGpu = {j1}
  HasGpu = {w1}
  MayBreak = {w1}
  BatchSize = 1
  UserOps = {"cancel", "delete"}
  Overlap = TRUE
  MaxInflight = 3
  MaxExp = 1
SPECIFICATION FairSpec
PROPERTIES
  NoTaskIsStuck
  EveryExperimentEnds
CHECK_DEADLOCK FALSE
