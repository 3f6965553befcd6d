SPECIFICATION Spec
CONSTANTS
  t1 = t1
  Tree = {t1}
  NoTree = NoTree
  Late = {}
  Limit = 1
  DiskFails = FALSE
  MaxLife = 1
  MaxBoots = 1
PROPERTIES StoppedIsContinued
CHECK_DEADLOCK FALSE
