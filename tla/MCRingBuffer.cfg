SPECIFICATION Spec
CONSTANTS
  Byte = {0, 1, 2}
  Size = 4
  MaxLen = 4
INVARIANT TypeOK
PROPERTY ImplementsFifo
