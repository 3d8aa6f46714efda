SPECIFICATION Spec
CONSTANTS
  p1 = p1
  p2 = p2
  h1 = h1
  h2 = h2
  h3 = h3
  Pair <- MCPairs
  Number <- MCNumbers
  Slots = 2
  Handle <- MCOneHandle
  Failing <- MCAll
  Stops = TRUE
  NULL = NULL
  RESERVED = RESERVED
SYMMETRY MCSymmetry
INVARIANTS
  TypeOK
  CountMatches
  OnePairPerNumber
  ListedPortsAreReady
CHECK_DEADLOCK FALSE
