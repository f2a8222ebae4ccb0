SPECIFICATION Spec
CONSTANTS
  GridCols = 1
  GridRows = 2
  X0 = 0
  X1 = 1
  Y0 = 0
  Y1 = 2
  TileWidth = 1
  TileHeight = 1
  Swaths <- NoSwaths
  Streams <- FailedStreams
  Workers = 2
  MaxRowsAhead = 2
  InitialRows = 2
  NextRows = 2
CHECK_DEADLOCK FALSE
PROPERTY HandedCompletes
