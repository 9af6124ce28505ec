SPECIFICATION FairSpec
CONSTANTS
  Handles <- Four
  Cards <- TwoCards
  Root = 99
  MaxDepth = 2
  MaxFailures = 1
INVARIANTS  ListedOnce
PROPERTIES TraversalEnds
CHECK_DEADLOCK FALSE
