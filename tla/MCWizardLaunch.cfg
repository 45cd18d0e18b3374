CONSTANTS
  default = default
  edited = edited
  bare1 = bare1
  bare2 = bare2
  whole1 = whole1
  whole2 = whole2
  typed = typed
  broken = broken
  Form = {default, edited}
  InitialForm = default
  Config = {bare1, bare2, whole1, whole2, typed}
  WholeConfig <- MCWholeConfig
  BareConfig <- MCBareConfig
  Accepted = {whole1, typed}
  TypedJson = {typed, broken}
  MaxEdits = 2
  MaxChecks = 2
  MaxMounts = 2
  MaxLaunches = 2
  Broken = broken
  Null = null
SPECIFICATION Spec
INVARIANTS
  TypeOK
  VerdictIsCurrent
  RefusedOnlyUnseen
PROPERTY
  EntriesOutliveLaunch
CHECK_DEADLOCK FALSE
