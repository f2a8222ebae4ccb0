SPECIFICATION FairSpec
CONSTANTS
  ll = ll
  h0 = h0
  h1 = h1
  lev0 = lev0
  lev1 = lev1
  Sink = sink
  Leaves = {ll, h0}
  Levels = {lev0}
  Consumer <- OneConsumer
  Span <- OneSpan
  Stripes <- OneStripes
  Inputs <- OneInputs
  Needs <- OneNeeds
  KickOrder <- OneKicks
  Skip <- OneSkip
  Discard = 1
  RowsTotal = 3
  Workers = {w1, w2}
  ChainDepthCap = 2
  MaxFaults = 1
INVARIANTS TypeOK OneOwner OutstandingExact StillnessSound
PROPERTIES NoRowAfterStillness WeaveReturns
