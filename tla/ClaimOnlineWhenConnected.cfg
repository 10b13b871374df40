SPECIFICATION Spec
CONSTANTS
  Id = {i1}
  Resetter = {}
  None = None
  Boot = Boot
  MaxRounds = 1
  durationMax = 2
  overstayAttempts = 1
  MaxStarts = 2
INVARIANT OnlineWhenConnected
CHECK_DEADLOCK FALSE
