SPECIFICATION FairSpec
CONSTANTS
  Id = {i1, i2}
  Resetter = {}
  None = None
  Boot = Boot
  MaxRounds = 1
  durationMax = 1
  overstayAttempts = 1
  MaxStarts = 2
PROPERTY OverstayCloses
CHECK_DEADLOCK FALSE
