SPECIFICATION FairSpec
CONSTANTS
  p1 = p1
  p2 = p2
  p3 = p3
  NULL = NULL
  Process = {p1, p2, p3}
  Number = {1, 2}
  Foreign = {2}
INVARIANTS
  TypeOK
PROPERTIES
  OnlyStaleEvidenceDisturbs
  ZombieIsHealed
CHECK_DEADLOCK FALSE
