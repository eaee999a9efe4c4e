SPECIFICATION RowSpec
CONSTANTS
  FileRows <- MCFileRows
  Columns <- MCColumns
  TileCols = 16
  Compared = 2
INVARIANTS
  PathsAgree
  FactorsExact
  RoundsToNearest
  PackedReadsBack
CHECK_DEADLOCK FALSE
