CONSTANTS
  ExpId = {1, 2}
  Limit = 1
  Job = {j1}
  MaxMoves = 2
  MaxWrites = 2
  MaxMounts = 2
  Sent = sent
  None = none
SPECIFICATION Spec
INVARIANTS
  ListShowsOwnWrites
  RefusedOnlyMoved
PROPERTY
  ListCatchesUp
CHECK_DEADLOCK FALSE
