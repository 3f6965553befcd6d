SPECIFICATION Spec
CONSTANTS
  a = a
  b = b
  Card = {a, b}
  NoCard = NoCard
  Ready = {a, b}
  HistoryCap = 1
  MaxWork = 1
  MaxPress = 2
  MaxReads = 2
  MaxFaults = 1
INVARIANTS TypeOK TicketsAreTheLane PublishedIsOnMain
PROPERTIES EveryLandEnds
CHECK_DEADLOCK FALSE
