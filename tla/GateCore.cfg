SPECIFICATION Spec
CONSTANTS
  a1 = a1
  a2 = a2
  q1 = q1
  s1 = s1
  s2 = s2
  m1 = m1
  Send = {a1, a2}
  Ask = {q1}
  Session = {s1, s2}
  Message = {m1}
  MessageOf <- SameMessage
  Worlds <- ThreeWorlds
  Card = Card
  None = None
  MaxLegs = 2
  MaxClicks = 1
  MaxFaults = 1
INVARIANTS TypeOK OneYesOneSend HolderIsOnTheCard
PROPERTIES SendIsNotCut ClicksReachTheirQuestion
CHECK_DEADLOCK FALSE
