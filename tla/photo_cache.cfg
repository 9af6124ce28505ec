SPECIFICATION FairSpec
CONSTANTS
  h1 = h1
  h2 = h2
  h3 = h3
  viewer = viewer
  loopA = loopA
  loopB = loopB
  Handles <- Small
  SizeOf <- SmallSizes
  Lists <- SmallLists
  Loaders = {viewer}
  Loops = {loopA, loopB}
  MaxBytes = 3
  Radius = 1
  Tries = 2
INVARIANTS BytesAccounted MarkedIsFetched
PROPERTIES FurthestGoFirst SuspendedStartsNothing LoadReturns
