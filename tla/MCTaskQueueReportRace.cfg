CONSTANTS
  s1 = s1
  s2 = s2
  d1 = d1
  j1 = j1
  j2 = j2
  j3 = j3
  w1 = w1
  w2 = w2
  Submission = {s1}
  Data = {d1}
  Decoding = {j1, j2}
  Worker = {w1, w2}
  User = {u1}
  SubmissionOf <- TwoSubmissionOf
  DataOf <- TwoDataOf
  RowId <- TwoRowId
  NeedsGpu = {}
  HasGpu = {}
  MayBreak = {}
  BatchSize = 2
  UserOps = {}
  Overlap = TRUE
  MaxInflight = 2
  MaxExp = 1
SPECIFICATION Spec
PROPERTIES
  ResultsAreKept
CHECK_DEADLOCK FALSE
