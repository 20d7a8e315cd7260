CONSTANTS
  SiLen = 32
  WordBits = 24
  Capacity = 32
  Programs <- MCReserved
  MemAddr = 1023
  MemInc = 16
  MemMax = 272
  MaxRuns = 1
  Outside = Outside
  Shapes <- MCShapes
  Literals <- MCLiterals
SPECIFICATION Spec
PROPERTY ReservedReported
CHECK_DEADLOCK FALSE
