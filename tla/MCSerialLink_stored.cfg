CONSTANTS
  Programs <- MCExclaim
  Commands = {"d"}
  PosRange = 8
  MemMax = 8
  Printed <- MCText
  RxDepth = 3
  RxInterrupts = {FALSE}
  Patience = {TRUE}
  MaxTyped = 1
  MaxPending = 1
SPECIFICATION Spec
INVARIANT Stored
CHECK_DEADLOCK FALSE
