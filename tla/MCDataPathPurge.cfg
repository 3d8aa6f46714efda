SPECIFICATION Spec
CONSTANTS
  Capacity = 1
  WriteLens = {1, 2}
  ReadLens = {1}
  MaxBytes <- Uneven
  MaxPending = 1
  PurgeCalls <- AnyPurge
INVARIANTS
  NeverTwice
