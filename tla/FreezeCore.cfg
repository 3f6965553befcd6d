SPECIFICATION Spec
CONSTANTS
  t1 = t1
  Tree = {t1}
  NoTree = NoTree
  Late = {"kin"}
  Limit = 2
  DiskFails = FALSE
  MaxLife = 0
  MaxBoots = 1
INVARIANTS TypeOK StopsAreOnDisk AtMostTwoFreezes
CHECK_DEADLOCK FALSE
