CONSTANTS
  SiLen = 32
  WordBits = 24
  Capacity = 32
  Programs <- MCPrograms
  MemAddr = 1023
  MemInc = 16
  MemMax = 272
  MaxRuns = 2
  Outside = Outside
  Shapes <- MCShapes
  Literals <- MCLiterals
SPECIFICATION Spec
INVARIANTS TypeOK AUnitPasses VerdictSound CleanHalt
PROPERTIES Disciplined ReturnsToCalls Terminates
CHECK_DEADLOCK FALSE
