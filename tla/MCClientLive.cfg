SPECIFICATION FairSpec
CONSTANTS
  Id = {i1, i2}
  Resetter = {r1}
  None = None
  Boot = Boot
  MaxRounds = 1
  durationMax = 1
  overstayAttempts = 1
  MaxStarts = 1
PROPERTIES ResetCompletes
CHECK_DEADLOCK FALSE
