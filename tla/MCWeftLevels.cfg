SPECIFICATION Spec
CONSTANTS
  ll = ll
  h0 = h0
  h1 = h1
  lev0 = lev0
  lev1 = lev1
  Sink = sink
  Leaves = {ll, h0, h1}
  Levels = {lev0, lev1}
  Consumer <- TwoConsumer
  Span <- TwoSpan
  Stripes <- TwoStripes
  Inputs <- TwoInputs
  Needs <- TwoNeeds
  KickOrder <- TwoKicks
  Skip <- TwoSkip
  Discard = 4
  RowsTotal = 1
  Workers = {w1, w2}
  ChainDepthCap = 2
  MaxFaults = 0
SYMMETRY Interchangeable
INVARIANTS StillnessSound
