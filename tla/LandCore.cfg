SPECIFICATION Spec
CONSTANTS
  a = a
  b = b
  Card = {a}
  NoCard = NoCard
  Ready = {}
  HistoryCap = 1
  MaxWork = 2
  MaxPress = 2
  MaxReads = 1
  MaxFaults = 1
INVARIANTS VerdictIsTrue
PROPERTIES DebtIsSaid
CHECK_DEADLOCK FALSE
