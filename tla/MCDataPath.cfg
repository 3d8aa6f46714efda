SPECIFICATION FairSpec
CONSTANTS
  Capacity = 2
  WriteLens = {1, 2, 3}
  ReadLens = {1, 2}
  MaxBytes <- MostlyToCom
  MaxPending = 2
  PurgeCalls <- Aborts
INVARIANTS
  TypeOK
  ReadersWaitOnlyWhenEmpty
  WritersWaitOnlyWhenFull
  NoOvertaking
  AdmittedDrainFindsNoReader
PROPERTIES
  ImplementsPipe
  EveryByteArrives
  EveryWriteIsServed
