CONSTANTS
  d1 = d1
  e1 = e1
  e2 = e2
  e3 = e3
  r1 = r1
  Data = {d1}
  Execution = {e1, e2, e3}
  Reader = {r1}
  NoExecution = NoExecution
  DataOf <- MCDataOf
  Blocks <- MCBlocks
  ReadsFrom <- MCReadsFrom
SPECIFICATION Spec
INVARIANTS
  TypeOK
  HandedOutFindsFile
  SoleUploadIsKept
  SoleUploadIsRead
CHECK_DEADLOCK FALSE
