SPECIFICATION Spec
CONSTANTS
  Id = {i1, i2}
  Resetter = {}
  None = None
  Boot = Boot
  MaxRounds = 1
  durationMax = 2
  overstayAttempts = 1
  MaxStarts = 1
INVARIANT ListedOnce
CHECK_DEADLOCK FALSE
