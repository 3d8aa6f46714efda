SPECIFICATION FairSpec
CONSTANTS
  t1 = t1
  t2 = t2
  t3 = t3
  Caller = {t1, t2, t3}
  Setting <- Settings
  Value = {0, 1}
  SetCalls <- Calls
  MaxChanges = 3
  None = None
INVARIANTS
  TypeOK
  NoSilentChange
  MaskIsJustified
CHECK_DEADLOCK FALSE
PROPERTIES
  ArmedWatcherIsNotified
