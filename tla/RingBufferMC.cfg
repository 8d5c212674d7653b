CONSTANTS
  Byte <- MCByte
  Capacity = 3
  MaxRequest = 4
  Zero = 0
SPECIFICATION Spec
INVARIANT TypeOK
PROPERTY ImplementsFifo
