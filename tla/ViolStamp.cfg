SPECIFICATION Spec
CONSTANTS
  a = a
  b = b
  Card = {a}
  NoCard = NoCard
  Ready = {}
  HistoryCap = 1
  MaxWork = 2
  MaxPress = 2
  MaxReads = 2
  MaxFaults = 0
INVARIANTS LandedIsTheDelivery
CHECK_DEADLOCK FALSE
