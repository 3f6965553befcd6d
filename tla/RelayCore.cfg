SPECIFICATION Spec
CONSTANTS
  Answer = {a1, a2}
  Turn = {t1, t2}
  NoPost = NoPost
  NoCut = NoCut
  Checkpoints = FALSE
  CliSession = TRUE
  MaxStack = 2
  MaxRestarts = 1
INVARIANTS TypeOK OwedOnce SentWasHeard HeardInOrder
PROPERTIES KeepsPromise PersonNeverOvertakes NoHotLoop
