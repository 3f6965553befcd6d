SPECIFICATION Spec
CONSTANTS
  q1 = q1
  q2 = q2
  q3 = q3
  t1 = t1
  t2 = t2
  t3 = t3
  Question = {q1, q2, q3}
  Text = {t1, t2}
  text <- ThreeTexts
  NoQ = NoQ
  NoAsk = NoAsk
  Unsaid = Unsaid
  PanelFirst = TRUE
  MaxRestarts = 1
INVARIANT TypeOK
INVARIANT RightQuestion
INVARIANT WaitingIsAnswerable
PROPERTY QuestionWaitsForItsHuman
