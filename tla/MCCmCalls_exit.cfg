CONSTANTS
  SiLen = 20
  WordBits = 8
  Capacity = 20
  Literals = {1}
  Addresses = {50}
  Shapes <- MCLargeShapes
  Outside = Outside
SPECIFICATION Spec
CONSTRAINT MCManyOperands
PROPERTY ExitFreesFrame
CHECK_DEADLOCK FALSE
