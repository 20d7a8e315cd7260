CONSTANTS
  Programs <- MCPrograms
  Commands = {"s"}
  PosRange = 8
  MemMax = 8
  Printed <- MCText
  RxDepth = 3
  RxInterrupts = {TRUE}
  Patience = {TRUE}
  MaxTyped = 1
  MaxPending = 1
SPECIFICATION Spec
PROPERTY ByteRead
CHECK_DEADLOCK FALSE
