SPECIFICATION Spec
CONSTANTS
  GridCols = 3
  GridRows = 4
  X0 = 1
  X1 = 3
  Y0 = 1
  Y1 = 4
  TileWidth = 2
  TileHeight = 2
  Swaths <- MCSwaths
  Streams <- MCStreams
CHECK_DEADLOCK FALSE
INVARIANTS
  PrefixExact
  RowCallbackOnce
  ReleasedBehind
  BandsIntact
PROPERTIES
  WaitReturns
  BandsFinish
