SPECIFICATION FairSpec
CONSTANTS
  Object <- Answers
  Id = {i1, i2}
  Sender = {s1}
  None = None
  MaxRounds = 2
  MaxStarts = 2
  CounterMax = 2
INVARIANTS DispatchInv
PROPERTIES SendEnds
CHECK_DEADLOCK FALSE
