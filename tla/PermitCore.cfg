SPECIFICATION Spec
CONSTANTS
  a = a
  b = b
  Call = {a, b}
  NoCall = NoCall
  Tool <- SameTool
  Late = {b}
  Plain = {a}
  MaxFaults = 1
INVARIANTS TypeOK HoldIsAnnounced ThePersonDecides YesIsItsOwn OpenIsAwaited
PROPERTIES AskedIsAnswered
CHECK_DEADLOCK FALSE
