SPECIFICATION Spec
CONSTANTS
  p1 = p1
  p2 = p2
  h1 = h1
  h2 = h2
  h3 = h3
  Pair <- MCOnePair
  Number <- MCOneNumber
  Slots = 1
  Handle <- MCOneHandle
  Failing <- MCCompanionRest
  Stops = FALSE
  NULL = NULL
  RESERVED = RESERVED
SYMMETRY MCSymmetry
INVARIANTS
  FreedOnlyUnreferenced
CHECK_DEADLOCK FALSE
