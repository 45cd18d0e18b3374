CONSTANTS
  grid = grid
  diagonal = diagonal
  line = line
  zero = zero
  nan = nan
  neginf = neginf
  null = null
  SweepTask = {grid, diagonal, line}
  AxisOrder <- MCAxisOrder
  Column = {3, 5}
  RowsOf <- MCRowsOf
  Zero = zero
  NaN = nan
  NegInf = neginf
  Null = null
  LegacyTask = grid
  Threshold = {1}
  MaxImports = 2
  MaxMounts = 2
  MaxThresholds = 2
  MaxEdits = 1
SPECIFICATION Spec
INVARIANTS
  TypeOK
  ImportedMatchesLayers
  LayersShareAxes
  CellsAreDistinct
  RatioAligned
  ColoursCoverRatios
  ParsingMeansWork
PROPERTIES
  ComparisonsAreATable
  ImportEnds
CHECK_DEADLOCK FALSE
