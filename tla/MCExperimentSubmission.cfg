CONSTANTS
  Client = {c1, c2}
  Number <- MCNumber
  Text <- MCText
  Sweep <- MCSweep
  FirstOf <- MCFirstOf
  Config <- MCConfig
SPECIFICATION Spec
INVARIANTS
  RowsAreTheProduct
  DataIsShared
  ExistingIsEquivalent
  FirstPointIsFirstJob
CHECK_DEADLOCK FALSE
