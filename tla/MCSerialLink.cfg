CONSTANTS
  Programs <- MCPrograms
  Commands = {"p", "s", "x", "d", "r", "q"}
  PosRange = 8
  MemMax = 8
  Printed <- MCPrinted
  RxDepth = 3
  RxInterrupts = {FALSE, TRUE}
  Patience = {FALSE, TRUE}
  MaxTyped = 2
  MaxPending = 1
SPECIFICATION Spec
INVARIANTS TypeOK Aligned OneAnswer AcksSeen
PROPERTY QuitCloses
CHECK_DEADLOCK FALSE
