SPECIFICATION FairSpec
CONSTANTS
  Answer = {a1}
  Turn = {t1, t2}
  NoPost = NoPost
  NoCut = NoCut
  Checkpoints = FALSE
  CliSession = FALSE
  MaxStack = 2
  MaxRestarts = 1
PROPERTIES AnswersArrive
