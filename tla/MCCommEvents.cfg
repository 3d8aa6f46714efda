SPECIFICATION FairSpec
CONSTANTS
  t1 = t1
  t2 = t2
  w1 = w1
  w2 = w2
  Thread = {t1, t2}
  Wait = {w1, w2}
  DataEvent = {"RXCHAR"}
  Masks <- SomeMasks
INVARIANTS
  TypeOK
  WaitsMatchMask
  LineChangesAreRaised
PROPERTIES
  MatchedWaitEnds
CHECK_DEADLOCK FALSE
