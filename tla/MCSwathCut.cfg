SPECIFICATION Spec
CONSTANTS
  GridCols = 2
  GridRows = 2
  X0 = 0
  X1 = 2
  Y0 = 0
  Y1 = 2
  TileWidth = 1
  TileHeight = 1
  Swaths <- NoSwaths
  Streams <- CutStreams
  Workers = 2
  MaxRowsAhead = 1
  InitialRows = 1
  NextRows = 1
CHECK_DEADLOCK FALSE
INVARIANT NotCompletedInQueue
