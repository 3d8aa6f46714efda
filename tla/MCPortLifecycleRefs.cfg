SPECIFICATION FairSpec
CONSTANTS
  p1 = p1
  p2 = p2
  h1 = h1
  h2 = h2
  h3 = h3
  Pair <- MCOnePair
  Number <- MCOneNumber
  Slots = 1
  Handle <- MCThreeHandles
  Failing <- MCNothing
  Stops = FALSE
  NULL = NULL
  RESERVED = RESERVED
INVARIANTS
  RefCountIsExact
  NoUseAfterFree
  ExclusiveOpen
  HandlersFindTheirs
PROPERTY DestroyedIsFreed
CHECK_DEADLOCK FALSE
