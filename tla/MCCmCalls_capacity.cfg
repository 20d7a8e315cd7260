CONSTANTS
  SiLen = 8
  WordBits = 8
  Capacity = 8
  Literals = {1}
  Addresses = {50}
  Shapes <- MCShapes
  Outside = Outside
SPECIFICATION Spec
CONSTRAINT MCManyOperands
INVARIANT OverflowPrevented
CHECK_DEADLOCK FALSE
