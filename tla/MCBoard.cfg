CONSTANTS
  Word = 268435456
  WordBits = 28
  Places <- MCPlaces
  BufLen = 11
  Numbers <- MCNumbers
  SiLen = 32
  Programs <- MCPrograms
  Tests <- MCTests
  Interrupted = {"Sections"}
  EventText <- MCEventText
  MaxInterrupts = 2
SPECIFICATION Spec
INVARIANTS TypeOK InBuffer Exact MainsPass Shown CallsProper SectionClosed
PROPERTIES Converts Ends
CHECK_DEADLOCK FALSE
