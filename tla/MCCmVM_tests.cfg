CONSTANTS
  SiLen = 32
  WordBits = 24
  Capacity = 32
  Programs <- MCTests
  MemAddr = 1023
  MemInc = 16
  MemMax = 272
  MaxRuns = 1
  Outside = Outside
  Shapes <- MCShapes
  Literals <- MCLiterals
SPECIFICATION Spec
INVARIANTS AUnitPasses
CHECK_DEADLOCK FALSE
