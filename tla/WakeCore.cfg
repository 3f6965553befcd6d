SPECIFICATION Spec
CONSTANTS
  a = a
  b = b
  Command = {a, b}
  Free = Free
  Agent = Agent
  MaxCopies = 1
  MaxEvents = 2
INVARIANTS TypeOK OwedIsInLine
PROPERTIES KeepsNotice EndIsTold
CHECK_DEADLOCK FALSE
