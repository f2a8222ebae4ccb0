SPECIFICATION Spec
CONSTANTS
  Ranges <- MCRanges
  BatchSize = 2
  MaxRetries = 1
  BodyChunks = 2
  Faults <- MCFaults
  Clipped <- None
  Excess <- None
  AddFails <- MCAddFails
  LateDone = FALSE
  LateError = FALSE
  MultiErrors <- MCMultiErrors
  Columns = 2
  Plans <- MCPlans
  Probes <- MCProbes
  Reused <- MCReused
  Swaths <- MCSwaths
  Tracked = TRUE
  MaxInFlight = 1
  MaxRowsAhead = 0
  Refused <- None
CHECK_DEADLOCK FALSE
INVARIANTS AccountingExact QueuedIntact BacklogBounded RowsAheadBounded
PROPERTIES CallsReturn IsFetchService
