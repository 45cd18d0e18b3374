CONSTANTS
  stim = stim
  physical = physical
  depolarizing = depolarizing
  loss = loss
  stim_runner = stim_runner
  loss_runner = loss_runner
  pymatching = pymatching
  monaka = monaka
  added = added
  null = null
  Null = null
  Circuit = {stim, physical}
  Noise = {depolarizing, loss}
  Runner = {stim_runner, loss_runner}
  Decoder = {pymatching, monaka, added}
  CircuitsOf <- MCCircuitsOf
  NoisesOf <- MCNoisesOf
  RunnersOf <- MCRunnersOf
  Key = {"distance", "rounds", "p", "shots", "dem"}
  Text <- MCText
  PropsOf <- MCPropsOf
  DefaultOf <- MCDefaultOf
  BooleanKey = {"dem"}
  InitialForm <- MCInitialForm
  MaxEdits = 2
  MaxLoads = 2
SPECIFICATION Spec
INVARIANTS
  TypeOK
  OfferedIsAccepted
  StaleIsRefused
  AcceptedIsUnflagged
CHECK_DEADLOCK FALSE
