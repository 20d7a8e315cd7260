CONSTANTS
  Programs <- MCPrograms
  Commands = {"p"}
  PosRange = 8
  MemMax = 8
  Printed <- MCText
  RxDepth = 3
  RxInterrupts = {FALSE}
  Patience = {TRUE}
  MaxTyped = 1
  MaxPending = 1
SPECIFICATION Spec
INVARIANT PingOnce
CHECK_DEADLOCK FALSE
