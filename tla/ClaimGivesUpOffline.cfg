SPECIFICATION Spec
CONSTANTS
  Object <- Answers
  Id = {i1, i2}
  Sender = {s1}
  None = None
  MaxRounds = 1
  MaxStarts = 2
  CounterMax = 2
CONSTRAINT ConnectOnce
PROPERTIES GivesUpOffline
CHECK_DEADLOCK FALSE
