CONSTANTS
  Bytes <- MCBytes
  PosRange = 4
  MemMax = 4
SPECIFICATION Spec
INVARIANTS TypeOK RunAlwaysRefused RefusedEmpty
