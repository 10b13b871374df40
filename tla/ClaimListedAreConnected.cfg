SPECIFICATION Spec
CONSTANTS
  Id = {i1, i2}
  Resetter = {r1}
  None = None
  Boot = Boot
  MaxRounds = 2
  durationMax = 2
  overstayAttempts = 1
  MaxStarts = 1
INVARIANT ListedAreConnected
CHECK_DEADLOCK FALSE
