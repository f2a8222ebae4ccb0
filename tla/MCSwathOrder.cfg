SPECIFICATION Spec
CONSTANTS
  GridCols = 1
  GridRows = 4
  X0 = 0
  X1 = 1
  Y0 = 0
  Y1 = 4
  TileWidth = 1
  TileHeight = 1
  Swaths <- NoSwaths
  Streams <- LateStreams
  Workers = 2
  MaxRowsAhead = 1
  InitialRows = 1
  NextRows = 1
CHECK_DEADLOCK FALSE
PROPERTY ConsumerServed
